---------------------------- MODULE IndexerProofs ----------------------------
(***************************************************************************)
(* Theorems about Indexer, for any chain, block range, window, number of   *)
(* workers, reorganisations and faults.                                    *)
(*                                                                         *)
(* Two inductive invariants.  Bounds keeps what a scan knows about the     *)
(* numbers of its blocks in range and holds of every instance; it gives    *)
(* TypeOK.  History relates the tables, the live chain and what every scan *)
(* has read.  It holds where Steady does: the chain never reorganises, or  *)
(* one worker scans alone, the chain does not change under a scan that     *)
(* reads it, and a removed block does not come back.                       *)
(* On them rest that no scan fails for what it read, and that the indexer  *)
(* implements Feed.                                                        *)
(***************************************************************************)
EXTENDS Indexer, FiniteSetTheorems, FunctionTheorems, SequenceTheorems, TLAPS

-----------------------------------------------------------------------------
(* Blocks and their ancestors                                              *)

\* A block and its ancestors.
Fronts(h) == {SubSeq(h, 1, n) : n \in 1..Len(h)}

\* A block is a nonempty sequence of contents no longer than the chain can be.
LEMMA BlockShape ==
  ASSUME NEW b \in Blocks
  PROVE  /\ b \in Seq(Contents) /\ Len(b) \in 1..(MaxHeight + 1)
         /\ b # NoHash /\ Number(b) \in 0..MaxHeight
         /\ \A i \in 1..Len(b) : b[i] \in Contents
<1>1. PICK n \in 1..(MaxHeight + 1) : b \in [1..n -> Contents]
  BY DEF Blocks
<1>2. b \in Seq(Contents) /\ Len(b) = n
  BY <1>1, ChainAssumption
<1>3. QED
  BY <1>1, <1>2, ChainAssumption DEF Number, NoHash

LEMMA ShapeBlock ==
  ASSUME NEW b \in Seq(Contents), Len(b) \in 1..(MaxHeight + 1)
  PROVE  b \in Blocks
<1>1. b \in [1..Len(b) -> Contents]
  OBVIOUS
<1>2. QED
  BY <1>1 DEF Blocks

\* An ancestor of a block is a block.
LEMMA FrontShape ==
  ASSUME NEW h \in Blocks, NEW n \in 1..Len(h)
  PROVE  /\ SubSeq(h, 1, n) \in Blocks
         /\ Len(SubSeq(h, 1, n)) = n
         /\ Number(SubSeq(h, 1, n)) = n - 1
         /\ \A i \in 1..n : SubSeq(h, 1, n)[i] = h[i]
<1>1. h \in Seq(Contents) /\ Len(h) \in 1..(MaxHeight + 1) /\ \A i \in 1..Len(h) : h[i] \in Contents
  BY BlockShape
<1>2. n \in Int /\ 1 \in Int /\ \A i \in 1..n : h[i] \in Contents
  BY <1>1
<1>3. /\ SubSeq(h, 1, n) \in Seq(Contents) /\ Len(SubSeq(h, 1, n)) = n
      /\ \A i \in 1..n : SubSeq(h, 1, n)[i] = h[i]
  BY <1>1, <1>2, SubSeqProperties
<1>4. SubSeq(h, 1, n) \in Blocks
  <2>1. Len(SubSeq(h, 1, n)) \in 1..(MaxHeight + 1)
    BY <1>1, <1>3, ChainAssumption
  <2>2. QED
    BY <1>3, <2>1, ShapeBlock
<1>5. QED
  BY <1>3, <1>4 DEF Number

\* Two blocks that agree on their first contents share those ancestors.
LEMMA SameFronts ==
  ASSUME NEW g \in Blocks, NEW h \in Blocks, NEW n \in 1..Len(g), n <= Len(h),
         \A i \in 1..n : g[i] = h[i]
  PROVE  SubSeq(g, 1, n) = SubSeq(h, 1, n)
<1>1. n \in 1..Len(h)
  BY BlockShape
<1>2. /\ SubSeq(g, 1, n) \in Seq(Contents) /\ SubSeq(h, 1, n) \in Seq(Contents)
      /\ Len(SubSeq(g, 1, n)) = n /\ Len(SubSeq(h, 1, n)) = n
      /\ \A i \in 1..n : SubSeq(g, 1, n)[i] = SubSeq(h, 1, n)[i]
  BY <1>1, FrontShape, BlockShape
<1>3. QED
  BY <1>2, SeqEqual

LEMMA FrontOfFront ==
  ASSUME NEW h \in Blocks, NEW m \in 1..Len(h), NEW n \in 1..m
  PROVE  SubSeq(SubSeq(h, 1, m), 1, n) = SubSeq(h, 1, n)
<1>1. /\ SubSeq(h, 1, m) \in Blocks /\ Len(SubSeq(h, 1, m)) = m
      /\ \A i \in 1..m : SubSeq(h, 1, m)[i] = h[i]
  BY FrontShape
<1>2. Len(h) \in Nat /\ n <= Len(h) /\ n \in 1..Len(h)
  BY BlockShape
<1>3. QED
  BY <1>1, <1>2, SameFronts

LEMMA WholeFront ==
  ASSUME NEW h \in Blocks
  PROVE  SubSeq(h, 1, Len(h)) = h /\ Len(h) \in 1..Len(h)
BY BlockShape, SubSeqFull

\* The chain at a height.
LEMMA LiveShape ==
  ASSUME NEW h \in Blocks, NEW b
  PROVE  b \in Fronts(h) <=> /\ b \in Blocks /\ Number(b) \in 0..Number(h)
                             /\ b = SubSeq(h, 1, Number(b) + 1)
<1>1. Len(h) \in 1..(MaxHeight + 1)
  BY BlockShape
<1>2. ASSUME b \in Fronts(h)
      PROVE  b \in Blocks /\ Number(b) \in 0..Number(h) /\ b = SubSeq(h, 1, Number(b) + 1)
  <2>1. PICK n \in 1..Len(h) : b = SubSeq(h, 1, n)
    BY <1>2 DEF Fronts
  <2>2. b \in Blocks /\ Number(b) = n - 1
    BY <2>1, FrontShape
  <2>3. QED
    BY <1>1, <2>1, <2>2 DEF Number
<1>3. ASSUME Number(b) \in 0..Number(h), b = SubSeq(h, 1, Number(b) + 1)
      PROVE  b \in Fronts(h)
  <2>1. PICK n \in 0..(Len(h) - 1) : n = Number(b)
    BY <1>3 DEF Number
  <2>2. n + 1 \in 1..Len(h) /\ b = SubSeq(h, 1, n + 1)
    BY <1>1, <1>3, <2>1
  <2>3. QED
    BY <2>2 DEF Fronts
<1>4. QED
  BY <1>2, <1>3

\* The ancestors of an ancestor are the ancestors not above it.
LEMMA FrontsNest ==
  ASSUME NEW h \in Blocks, NEW g \in Fronts(h)
  PROVE  \A b : b \in Fronts(g) <=> b \in Fronts(h) /\ Number(b) <= Number(g)
<1>1. PICK m \in 1..Len(h) : g = SubSeq(h, 1, m)
  BY DEF Fronts
<1>2. Len(h) \in Nat /\ Len(g) = m /\ Number(g) = m - 1 /\ m \in Nat
  BY <1>1, FrontShape, BlockShape
<1>3. \A k \in 1..m : SubSeq(g, 1, k) = SubSeq(h, 1, k)
  BY <1>1, FrontOfFront
<1>4. \A k \in 1..Len(h) : Number(SubSeq(h, 1, k)) = k - 1
  BY FrontShape
<1>5. ASSUME NEW b, b \in Fronts(g) PROVE b \in Fronts(h) /\ Number(b) <= Number(g)
  <2>1. PICK k \in 1..m : b = SubSeq(h, 1, k)
    BY <1>2, <1>3, <1>5 DEF Fronts
  <2>2. k \in 1..Len(h) /\ Number(b) = k - 1
    BY <1>1, <1>2, <1>4, <2>1
  <2>3. QED
    BY <1>2, <2>1, <2>2 DEF Fronts
<1>6. ASSUME NEW b, b \in Fronts(h), Number(b) <= Number(g) PROVE b \in Fronts(g)
  <2>1. PICK k \in 1..Len(h) : b = SubSeq(h, 1, k)
    BY <1>6 DEF Fronts
  <2>2. k \in 1..m
    BY <1>2, <1>4, <1>6, <2>1
  <2>3. b = SubSeq(g, 1, k)
    BY <1>3, <2>1, <2>2
  <2>4. QED
    BY <1>2, <2>2, <2>3 DEF Fronts
<1>7. QED
  BY <1>5, <1>6

LEMMA FrontsFrom ==
  ASSUME NEW h \in Blocks, NEW start \in Nat
  PROVE  \A b : b \in {SubSeq(h, 1, n) : n \in (start + 1)..Len(h)} <=>
                  b \in Fronts(h) /\ Number(b) >= start
<1>1. Len(h) \in Nat /\ \A n \in 1..Len(h) : Number(SubSeq(h, 1, n)) = n - 1
  BY FrontShape, BlockShape
<1>2. ASSUME NEW n \in 1..Len(h) PROVE n - 1 >= start <=> n \in (start + 1)..Len(h)
  BY <1>1
<1>3. \A n \in (start + 1)..Len(h) : n \in 1..Len(h)
  OBVIOUS
<1>4. QED
  BY <1>1, <1>2, <1>3 DEF Fronts

-----------------------------------------------------------------------------
(* The chain                                                               *)

LEMMA LiveBlock ==
  ASSUME head \in Blocks
  PROVE  /\ \A n \in 0..Latest : /\ Live(n) \in Blocks /\ Number(Live(n)) = n
                                 /\ Live(n) \in Fronts(head)
         /\ \A b \in Fronts(head) : b \in Blocks /\ Number(b) \in 0..Latest /\ b = Live(Number(b))
<1>1. Len(head) \in 1..(MaxHeight + 1) /\ Latest = Len(head) - 1
  BY BlockShape DEF Latest, Number
<1>2. ASSUME NEW n \in 0..Latest
      PROVE  Live(n) \in Blocks /\ Number(Live(n)) = n /\ Live(n) \in Fronts(head)
  <2>1. n + 1 \in 1..Len(head)
    BY <1>1, ChainAssumption
  <2>2. QED
    BY <2>1, FrontShape DEF Live, Fronts
<1>3. QED
  BY <1>2, LiveShape DEF Live, Latest

\* A new block on top changes none of those below.
LEMMA Grows ==
  ASSUME head \in Blocks, NEW c \in Contents, Mine(c)
  PROVE  /\ head' \in Blocks /\ Len(head') = Len(head) + 1
         /\ \A n \in 0..Latest : Live(n)' = Live(n)
<1>1. /\ head \in Seq(Contents) /\ Len(head) \in 1..(MaxHeight + 1)
      /\ Latest = Len(head) - 1 /\ Latest < MaxHeight /\ head' = Append(head, c)
  BY BlockShape DEF Mine, Latest, Number
<1>2. /\ head' \in Seq(Contents) /\ Len(head') = Len(head) + 1
      /\ \A i \in 1..Len(head) : head'[i] = head[i]
  BY <1>1, AppendProperties
<1>3. head' \in Blocks
  <2>1. Len(head') \in 1..(MaxHeight + 1)
    BY <1>1, <1>2, ChainAssumption
  <2>2. QED
    BY <1>2, <2>1, ShapeBlock
<1>4. ASSUME NEW n \in 0..Latest PROVE Live(n)' = Live(n)
  <2>1. n + 1 \in 1..Len(head') /\ n + 1 <= Len(head)
    BY <1>1, <1>2
  <2>2. \A i \in 1..(n + 1) : head'[i] = head[i]
    BY <1>1, <1>2, <2>1
  <2>3. SubSeq(head', 1, n + 1) = SubSeq(head, 1, n + 1)
    BY <1>3, <2>1, <2>2, SameFronts
  <2>4. QED
    BY <2>3 DEF Live
<1>5. QED
  BY <1>2, <1>3, <1>4

\* A reorganisation keeps the blocks up to the fork and removes all others.
LEMMA Forks ==
  ASSUME head \in Blocks, NEW keep \in 0..(Latest - 1), NEW c \in Contents, Reorganise(keep, c)
  PROVE  /\ head' \in Blocks /\ Len(head') = Len(head)
         /\ \A n \in 0..keep : Live(n)' = Live(n)
         /\ \A n \in (keep + 1)..Latest : Live(n) \notin Fronts(head')
         /\ \A i \in 1..Len(head) : head'[i] = IF i <= keep + 1 THEN head[i]
                                                ELSE IF i = keep + 2 THEN c ELSE Empty
<1> DEFINE kept == Append(Live(keep), c)
           new == [n \in 1..(Latest - keep - 1) |-> Empty]
<1>1. /\ head \in Seq(Contents) /\ Len(head) \in 1..(MaxHeight + 1)
      /\ Latest = Len(head) - 1 /\ keep + 1 \in 1..Len(head)
      /\ head' = kept \o new /\ c # head[keep + 2]
  BY BlockShape DEF Reorganise, Latest, Number
<1>2. /\ Live(keep) \in Seq(Contents) /\ Len(Live(keep)) = keep + 1
      /\ \A i \in 1..(keep + 1) : Live(keep)[i] = head[i]
  BY <1>1, FrontShape, BlockShape DEF Live
<1>3. /\ kept \in Seq(Contents) /\ Len(kept) = keep + 2 /\ kept[keep + 2] = c
      /\ \A i \in 1..(keep + 1) : kept[i] = head[i]
  <2>1. /\ Append(Live(keep), c) \in Seq(Contents)
        /\ Len(Append(Live(keep), c)) = Len(Live(keep)) + 1
        /\ \A i \in 1..Len(Live(keep)) : Append(Live(keep), c)[i] = Live(keep)[i]
        /\ Append(Live(keep), c)[Len(Live(keep)) + 1] = c
    BY <1>2, AppendProperties
  <2>2. QED
    BY <1>2, <2>1
<1>4. /\ new \in Seq(Contents) /\ Len(new) = Latest - keep - 1
      /\ \A i \in 1..Len(new) : new[i] = Empty
  <2>1. PICK k \in Nat : k = Latest - keep - 1
    <3>1. Latest - keep - 1 \in Nat
      BY <1>1, ChainAssumption
    <3>2. QED
      BY <3>1
  <2>2. /\ [n \in 1..k |-> Empty] \in Seq(Contents) /\ Len([n \in 1..k |-> Empty]) = k
        /\ \A i \in 1..k : [n \in 1..k |-> Empty][i] = Empty
    BY DEF Contents
  <2>3. QED
    BY <2>1, <2>2
<1> HIDE DEF kept, new
<1>5. /\ head' \in Seq(Contents) /\ Len(head') = Len(head)
      /\ \A i \in 1..(keep + 2) : head'[i] = kept[i]
      /\ \A i \in (keep + 3)..Len(head) : head'[i] = Empty
  <2>1. PICK a \in Seq(Contents), b \in Seq(Contents) : a = kept /\ b = new
    BY <1>3, <1>4
  <2>2. /\ a \o b \in Seq(Contents) /\ Len(a \o b) = Len(a) + Len(b)
        /\ \A i \in 1..(Len(a) + Len(b)) :
             (a \o b)[i] = IF i <= Len(a) THEN a[i] ELSE b[i - Len(a)]
    BY ConcatProperties
  <2>3. Len(a) = keep + 2 /\ Len(a) + Len(b) = Len(head) /\ Len(head) \in Nat
    <3>1. keep \in Nat /\ Latest = Len(head) - 1 /\ Len(head) \in Nat
      BY <1>1, ChainAssumption
    <3>2. Len(a) = keep + 2 /\ Len(b) = Latest - keep - 1
      BY <1>3, <1>4, <2>1
    <3>3. PICK k \in Nat, n \in Nat : k = keep /\ n = Len(head)
      BY <3>1
    <3>4. (k + 2) + ((n - 1) - k - 1) = n
      OBVIOUS
    <3>5. QED
      BY <3>1, <3>2, <3>3, <3>4
  <2>4. ASSUME NEW i \in (keep + 3)..Len(head) PROVE head'[i] = Empty
    <3>1. i \in 1..(Len(a) + Len(b)) /\ ~(i <= Len(a)) /\ i - Len(a) \in 1..Len(b)
      BY <1>1, <1>3, <1>4, <2>1, <2>3
    <3>2. b[i - Len(a)] = Empty
      BY <1>4, <2>1, <3>1
    <3>3. QED
      BY <1>1, <2>1, <2>2, <3>1, <3>2
  <2>5. ASSUME NEW i \in 1..(keep + 2) PROVE head'[i] = kept[i]
    <3>1. i \in 1..(Len(a) + Len(b)) /\ i <= Len(a)
      BY <1>1, <2>3
    <3>2. QED
      BY <1>1, <2>1, <2>2, <3>1
  <2>6. QED
    BY <1>1, <2>1, <2>2, <2>3, <2>4, <2>5
<1>6. head' \in Blocks
  BY <1>1, <1>5, ShapeBlock
<1>7. ASSUME NEW n \in 0..keep PROVE Live(n)' = Live(n)
  <2>1. n + 1 \in 1..Len(head') /\ n + 1 <= Len(head)
    BY <1>1, <1>5
  <2>2. \A i \in 1..(n + 1) : head'[i] = head[i]
    BY <1>3, <1>5
  <2>3. SubSeq(head', 1, n + 1) = SubSeq(head, 1, n + 1)
    BY <1>6, <2>1, <2>2, SameFronts
  <2>4. QED
    BY <2>3 DEF Live
<1>8. ASSUME NEW n \in (keep + 1)..Latest PROVE Live(n) \notin Fronts(head')
  <2>1. n + 1 \in 1..Len(head) /\ keep + 2 \in 1..(n + 1) /\ n + 1 \in 1..Len(head')
    BY <1>1, <1>5
  <2>2. Live(n)[keep + 2] = head[keep + 2] /\ Number(Live(n)) = n
    BY <2>1, FrontShape DEF Live
  <2>3. SubSeq(head', 1, n + 1)[keep + 2] = c
    <3>1. SubSeq(head', 1, n + 1)[keep + 2] = head'[keep + 2]
      BY <1>6, <2>1, FrontShape
    <3>2. QED
      BY <1>3, <1>5, <3>1
  <2>4. QED
    BY <1>1, <1>6, <2>2, <2>3, LiveShape
<1>9. ASSUME NEW i \in 1..Len(head)
      PROVE  head'[i] = IF i <= keep + 1 THEN head[i] ELSE IF i = keep + 2 THEN c ELSE Empty
  <2>1. PICK k \in Nat : k = keep
    BY <1>1
  <2>2. i \in Nat /\ Len(head) \in Nat /\ i \in 1..Len(head)
    BY <1>1, ChainAssumption
  <2>3. CASE i <= k + 1
    BY <1>3, <1>5, <2>1, <2>2, <2>3
  <2>4. CASE i = k + 2
    BY <1>3, <1>5, <2>1, <2>2, <2>4
  <2>5. CASE i > k + 2
    BY <1>5, <2>1, <2>2, <2>5
  <2>6. QED
    BY <2>2, <2>3, <2>4, <2>5
<1>10. QED
  BY <1>5, <1>6, <1>7, <1>8, <1>9

-----------------------------------------------------------------------------
(* Bounds: what a scan knows of the numbers of its blocks                  *)

ScanType ==
  [at: ScanStates, cursor: Cursor, candidate: Int, to: Int,
   ranges: Seq(Int \X Int), logs: SUBSET Blocks, headers: SUBSET Blocks]

\* A cursor never points before the contracts or past the end of the chain.
CursorSound(c) == c.next >= StartBlock /\ (c.hash # NoHash => c.next <= Len(head))

Within(range, s) == range[1] \in s.cursor.next..range[2] /\ range[2] <= s.to

Unplanned == {"stopped", "lease", "latest"}
Ranging == {"logs", "headers", "commit"}

WorkerSound(s) ==
  /\ s.at # "stopped" => CursorSound(s.cursor)
  /\ s.at \notin Ranging \cup {"release"} => s.logs = {}
  /\ s.at \notin {"headers", "commit", "release"} => s.headers = {}
  /\ s.at = "detect" => s.to <= Latest /\ s.ranges = <<<<s.cursor.next, s.to>>>>
  /\ s.at \in {"walk", "rewind"} =>
       s.cursor.hash # NoHash /\ s.candidate \in 0..(s.cursor.next - 1)
  /\ s.at = "rewind" => s.candidate >= StartBlock
  /\ s.at \in Ranging =>
       /\ s.cursor.next <= s.to /\ s.to <= Latest
       /\ \A b \in s.logs : Number(b) \in s.cursor.next..s.to
  /\ s.at = "logs" =>
       s.ranges # <<>> /\ \A i \in 1..Len(s.ranges) : Within(s.ranges[i], s)
  /\ s.at \in {"headers", "commit"} =>
       /\ \A b \in s.headers : Number(b) \in ProofBlocks(s)
       /\ \A a, b \in s.headers : Number(a) = Number(b) => a = b
  /\ s.at = "commit" => \A n \in ProofBlocks(s) : \E b \in s.headers : Number(b) = n

Bounds ==
  /\ TypeOK
  /\ scan \in [Workers -> ScanType]
  /\ CursorSound(cursor)
  /\ \A w \in Workers : WorkerSound(scan[w])

LEMMA HeadShape ==
  ASSUME Bounds
  PROVE  /\ head \in Blocks /\ Latest \in 0..MaxHeight /\ Latest = Len(head) - 1
         /\ Len(head) \in Nat
BY BlockShape DEF Bounds, TypeOK, Latest, Number

LEMMA WorkerShape ==
  ASSUME Bounds, NEW w \in Workers
  PROVE  /\ scan \in [Workers -> ScanType] /\ scan[w] \in ScanType /\ WorkerSound(scan[w])
         /\ scan[w].at \in ScanStates /\ scan[w].cursor \in Cursor /\ scan[w].cursor.next \in Nat
         /\ scan[w].to \in Int /\ scan[w].ranges \in Seq(Int \X Int)
         /\ scan[w].logs \subseteq Blocks /\ scan[w].headers \subseteq Blocks
         /\ Latest \in Nat /\ head \in Blocks /\ faults \in 0..MaxFaults
<1>1. scan \in [Workers -> ScanType] /\ scan[w] \in ScanType /\ WorkerSound(scan[w])
  BY DEF Bounds
<1>2. faults \in 0..MaxFaults
  BY DEF Bounds, TypeOK
<1>3. QED
  BY <1>1, <1>2, HeadShape DEF ScanType, Cursor

LEMMA BoundsInit == Init => Bounds
<1> SUFFICES ASSUME Init PROVE Bounds
  OBVIOUS
<1>1. head \in Blocks /\ Len(head) = 1
  <2>1. <<Empty>> \in Seq(Contents) /\ Len(<<Empty>>) = 1
    BY DEF Contents
  <2>2. Len(<<Empty>>) \in 1..(MaxHeight + 1)
    BY <2>1, ChainAssumption
  <2>3. <<Empty>> \in Blocks
    BY <2>1, <2>2, ShapeBlock
  <2>4. QED
    BY <2>1, <2>3 DEF Init
<1>2. cursor \in Cursor /\ CursorSound(cursor)
  BY OptionAssumption DEF Init, Cursor, CursorSound
<1>3. Stopped \in ScanType
  BY DEF Stopped, ScanType, ScanStates, Cursor
<1>4. \A w \in Workers : scan[w] = Stopped /\ WorkerSound(Stopped)
  BY DEF Init, WorkerSound, Stopped, Ranging
<1>5. TypeOK
  <2>1. \A w \in Workers : /\ scan[w].at \in ScanStates /\ scan[w].cursor \in Cursor
                             /\ scan[w].logs \subseteq Blocks /\ scan[w].headers \subseteq Blocks
    BY <1>3, <1>4 DEF ScanType
  <2>2. reorgs \in 0..MaxReorgs /\ faults \in 0..MaxFaults
    BY ChainAssumption DEF Init
  <2>3. QED
    BY <1>1, <1>2, <2>1, <2>2 DEF Init, TypeOK
<1>6. QED
  BY <1>2, <1>3, <1>4, <1>5 DEF Bounds, Init

\* A step of one worker that keeps its own bounds keeps those of the others.
LEMMA OneWorker ==
  ASSUME Bounds, NEW w \in Workers, head' = head,
         scan' \in [Workers -> ScanType], \A v \in Workers \ {w} : scan'[v] = scan[v],
         WorkerSound(scan[w])'
  PROVE  /\ \A v \in Workers : WorkerSound(scan[v])'
         /\ \A v \in Workers : /\ scan'[v].at \in ScanStates /\ scan'[v].cursor \in Cursor
                                 /\ scan'[v].logs \subseteq Blocks
                                 /\ scan'[v].headers \subseteq Blocks
<1>1. ASSUME NEW v \in Workers, v # w PROVE WorkerSound(scan[v])'
  <2>1. scan'[v] = scan[v] /\ WorkerSound(scan[v])
    BY <1>1 DEF Bounds
  <2>2. QED
    BY <2>1 DEF WorkerSound, CursorSound, Latest, Number, Within, ProofBlocks, RetainedFloor
<1>2. QED
  BY <1>1 DEF ScanType

\* The same when the chain grows or changes and nobody else moves.
LEMMA ChainBounds ==
  ASSUME Bounds, head' \in Blocks, Len(head') >= Len(head),
         UNCHANGED <<scan, store, lease, faults>>, reorgs' \in 0..MaxReorgs,
         removed' \subseteq Blocks
  PROVE  Bounds'
<1>1. /\ Len(head') \in Nat /\ Len(head) \in Nat
      /\ Latest = Len(head) - 1 /\ Latest' = Len(head') - 1
  BY BlockShape, HeadShape DEF Latest, Number
<1>2. cursor \in Cursor /\ CursorSound(cursor)
  BY DEF Bounds, TypeOK
<1>3. CursorSound(cursor)'
  BY <1>1, <1>2 DEF CursorSound, store, Cursor
<1>4. ASSUME NEW w \in Workers PROVE WorkerSound(scan[w])'
  <2>1. scan'[w] = scan[w] /\ scan[w] \in ScanType /\ WorkerSound(scan[w])
    BY DEF Bounds
  <2>2. scan[w].cursor \in Cursor /\ scan[w].to \in Int
    BY <2>1 DEF ScanType
  <2>3. CursorSound(scan[w].cursor) => CursorSound(scan[w].cursor)'
    BY <1>1, <2>1, <2>2 DEF CursorSound, Cursor
  <2>4. scan[w].to <= Latest => scan'[w].to <= Latest'
    BY <1>1, <2>1, <2>2
  <2>5. QED
    BY <2>1, <2>3, <2>4 DEF WorkerSound, Within, ProofBlocks, RetainedFloor
<1>5. TypeOK'
  BY DEF Bounds, TypeOK, store, lease
<1>6. QED
  BY <1>3, <1>4, <1>5 DEF Bounds

StoreSound ==
  /\ cursor \in Cursor /\ CursorSound(cursor)
  /\ blocks \subseteq {b \in Blocks : Number(b) >= StartBlock}
  /\ canonical \subseteq blocks /\ logs \subseteq Blocks /\ applied \subseteq logs

LEMMA SameStore ==
  ASSUME Bounds, head' = head, UNCHANGED store
  PROVE  StoreSound'
BY DEF Bounds, TypeOK, StoreSound, CursorSound, store

LEMMA WorkerBounds ==
  ASSUME Bounds, NEW w \in Workers, UNCHANGED chain,
         scan' \in [Workers -> ScanType], \A v \in Workers \ {w} : scan'[v] = scan[v],
         WorkerSound(scan[w])', StoreSound',
         leaseOwner' \in Workers \cup {NoWorker}, leaseExpired' \in BOOLEAN,
         faults' \in 0..MaxFaults
  PROVE  Bounds'
<1>1. head' = head /\ removed' = removed /\ reorgs' = reorgs
  BY DEF chain
<1>2. /\ \A v \in Workers : WorkerSound(scan[v])'
      /\ \A v \in Workers : /\ scan'[v].at \in ScanStates /\ scan'[v].cursor \in Cursor
                              /\ scan'[v].logs \subseteq Blocks
                              /\ scan'[v].headers \subseteq Blocks
  BY <1>1, OneWorker
<1>3. TypeOK'
  BY <1>1, <1>2 DEF Bounds, TypeOK, StoreSound
<1>4. QED
  BY <1>2, <1>3 DEF Bounds, StoreSound

\* Nothing changes but whether the lease has expired.
LEMMA QuietBounds ==
  ASSUME Bounds, UNCHANGED <<store, chain, scan, faults>>,
         leaseOwner' \in Workers \cup {NoWorker}, leaseExpired' \in BOOLEAN
  PROVE  Bounds'
<1>1. /\ head' = head /\ removed' = removed /\ reorgs' = reorgs
      /\ cursor' = cursor /\ blocks' = blocks /\ canonical' = canonical /\ logs' = logs
      /\ applied' = applied /\ scan' = scan /\ faults' = faults
  BY DEF store, chain
<1>2. TypeOK'
  BY <1>1 DEF Bounds, TypeOK
<1>3. CursorSound(cursor)'
  BY <1>1 DEF Bounds, CursorSound
<1>4. ASSUME NEW w \in Workers PROVE WorkerSound(scan[w])'
  <2>1. WorkerSound(scan[w]) /\ scan'[w] = scan[w]
    BY <1>1 DEF Bounds
  <2>2. CursorSound(scan[w].cursor)' <=> CursorSound(scan[w].cursor)
    BY <1>1, <2>1 DEF CursorSound
  <2>3. Latest' = Latest
    BY <1>1 DEF Latest, Number
  <2>4. QED
    BY <2>1, <2>2, <2>3 DEF WorkerSound, Within, ProofBlocks, RetainedFloor
<1>5. scan' \in [Workers -> ScanType]
  BY <1>1 DEF Bounds
<1>6. QED
  BY <1>2, <1>3, <1>4, <1>5 DEF Bounds

\* What lies in a range of a scan is between its cursor and its end.
LEMMA InTheScan ==
  ASSUME NEW s, NEW range, Within(range, s), range[1] \in Int, range[2] \in Int,
         s.cursor.next \in Nat, s.to \in Int, NEW n \in range[1]..range[2]
  PROVE  n \in s.cursor.next..s.to
<1>1. PICK a \in Int, z \in Int, next \in Nat, to \in Int :
        a = range[1] /\ z = range[2] /\ next = s.cursor.next /\ to = s.to
  OBVIOUS
<1>2. a \in next..z /\ z <= to
  BY <1>1 DEF Within
<1>3. n \in a..z
  BY <1>1
<1>4. n \in next..to
  BY <1>2, <1>3
<1>5. QED
  BY <1>1, <1>4

\* No worker moves the chain.
LEMMA WorkersLeaveChain ==
  ASSUME NEW w \in Workers, Scan(w) \/ Fault(w)
  PROVE  UNCHANGED <<head, removed, reorgs>>
<1>1. CASE LoadCursor(w) \/ TryAcquireLease(w) \/ GetLatestBlock(w)
  BY <1>1 DEF LoadCursor, TryAcquireLease, GetLatestBlock, chain
<1>2. CASE DetectReorg(w) \/ WalkBack(w) \/ Rewind(w)
  BY <1>2 DEF DetectReorg, WalkBack, Rewind, chain
<1>3. CASE GetLogs(w)
  BY <1>3 DEF GetLogs, chain
<1>4. ASSUME NEW n \in 0..MaxHeight, LoadHeader(w, n) PROVE UNCHANGED <<head, removed, reorgs>>
  BY <1>4 DEF LoadHeader, chain
<1>5. CASE CommitRange(w)
  BY <1>5 DEF CommitRange, chain
<1>6. CASE RejectRange(w) \/ ReleaseLease(w)
  BY <1>6 DEF RejectRange, ReleaseLease, chain
<1>7. CASE Fault(w)
  BY <1>7 DEF Fault, Crash, RefuseLogs, chain
<1>8. QED
  BY <1>1, <1>2, <1>3, <1>4, <1>5, <1>6, <1>7 DEF Scan

\* A step of one worker leaves the scans of the others alone.
LEMMA OthersWait ==
  ASSUME NEW w \in Workers, NEW v \in Workers, w # v, Scan(w) \/ Fault(w),
         scan \in [Workers -> ScanType]
  PROVE  scan'[v] = scan[v]
<1>1. CASE LoadCursor(w) \/ TryAcquireLease(w) \/ GetLatestBlock(w)
  BY <1>1 DEF LoadCursor, TryAcquireLease, GetLatestBlock, Goto
<1>2. CASE DetectReorg(w) \/ WalkBack(w) \/ Rewind(w)
  BY <1>2 DEF DetectReorg, WalkBack, Rewind, Goto
<1>3. CASE GetLogs(w)
  BY <1>3 DEF GetLogs
<1>4. ASSUME NEW n \in 0..MaxHeight, LoadHeader(w, n) PROVE scan'[v] = scan[v]
  BY <1>4 DEF LoadHeader
<1>5. CASE CommitRange(w) \/ RejectRange(w) \/ ReleaseLease(w)
  BY <1>5 DEF CommitRange, RejectRange, ReleaseLease, Goto
<1>6. CASE Fault(w)
  BY <1>6 DEF Fault, Crash, RefuseLogs, Goto
<1>7. QED
  BY <1>1, <1>2, <1>3, <1>4, <1>5, <1>6 DEF Scan

\* The rewind floor is a natural number.
LEMMA FloorType ==
  ASSUME NEW last \in Int
  PROVE  RewindFloor(last) \in Int /\ RewindFloor(last) >= 0
<1>1. PICK window \in Nat : window = ReorgWindow
  BY OptionAssumption
<1>2. PICK d \in Int : d = last - window
  OBVIOUS
<1>3. RewindFloor(last) = Greatest(d, 0)
  BY <1>1, <1>2 DEF RewindFloor
<1> QED
  BY <1>3 DEF Greatest

\* Only the place in the scan changes.
LEMMA Moved ==
  ASSUME Bounds, NEW w \in Workers, NEW at \in ScanStates, Goto(w, at)
  PROVE  /\ scan' \in [Workers -> ScanType] /\ \A v \in Workers \ {w} : scan'[v] = scan[v]
         /\ scan'[w] = [scan[w] EXCEPT !.at = at] /\ scan'[w].at = at
         /\ scan'[w].cursor = scan[w].cursor /\ scan'[w].candidate = scan[w].candidate
         /\ scan'[w].to = scan[w].to /\ scan'[w].ranges = scan[w].ranges
         /\ scan'[w].logs = scan[w].logs /\ scan'[w].headers = scan[w].headers
<1>1. scan \in [Workers -> ScanType] /\ scan' = [scan EXCEPT ![w].at = at]
  BY DEF Bounds, Goto
<1>2. scan'[w] = [scan[w] EXCEPT !.at = at] /\ scan[w] \in ScanType
  BY <1>1
<1>3. [scan[w] EXCEPT !.at = at] \in ScanType
  BY <1>2 DEF ScanType
<1>4. QED
  BY <1>1, <1>2, <1>3 DEF ScanType

\* The headers a range is proved with are of its blocks and of the window before.
LEMMA ProofRange ==
  ASSUME NEW s \in ScanType, StartBlock <= s.cursor.next, s.cursor.next <= s.to,
         \A b \in s.logs : Number(b) \in s.cursor.next..s.to
  PROVE  /\ ProofBlocks(s) \subseteq StartBlock..s.to
         /\ s.to \in ProofBlocks(s) /\ s.cursor.next \in ProofBlocks(s)
         /\ RetainedFloor(s.cursor.next, s.to) \in ProofBlocks(s)
         /\ IsFiniteSet(ProofBlocks(s))
<1>1. s.cursor.next \in Nat /\ s.to \in Int /\ StartBlock \in Nat /\ ReorgWindow \in Nat
  BY OptionAssumption DEF ScanType, Cursor
<1>2. RetainedFloor(s.cursor.next, s.to) \in StartBlock..s.to
  BY <1>1 DEF RetainedFloor, Greatest
<1>3. ProofBlocks(s) \subseteq StartBlock..s.to
  BY <1>1, <1>2 DEF ProofBlocks
<1>4. IsFiniteSet(ProofBlocks(s))
  <2>1. IsFiniteSet(StartBlock..s.to)
    <3>1. \A a, b \in Int : IsFiniteSet(a..b)
      BY FS_Interval
    <3>2. QED
      BY <1>1, <3>1
  <2>2. ProofBlocks(s) \in SUBSET (StartBlock..s.to)
    BY <1>3
  <2>3. QED
    BY <2>1, <2>2, FS_Subset
<1>5. QED
  BY <1>3, <1>4 DEF ProofBlocks

\* As many headers as blocks asked for, no two of one height: none is missing.
LEMMA HeadersComplete ==
  ASSUME NEW H \in SUBSET Blocks, NEW P, IsFiniteSet(P), Cardinality(H) = Cardinality(P),
         \A b \in H : Number(b) \in P, \A a, b \in H : Number(a) = Number(b) => a = b
  PROVE  \A n \in P : \E b \in H : Number(b) = n
<1> DEFINE f == [b \in H |-> Number(b)]
<1>1. f \in Injection(H, P)
  BY DEF Injection, IsInjective
<1>2. f \in Surjection(H, P)
  BY <1>1, FS_Injection
<1>3. QED
  BY <1>2 DEF Surjection

LEMMA SafeHeadBelow ==
  ASSUME NEW n \in Nat
  PROVE  SafeHead(n) \in Int /\ SafeHead(n) <= n
BY OptionAssumption DEF SafeHead

LEMMA StoppedShape ==
  /\ Stopped \in ScanType /\ Stopped.at = "stopped"
  /\ Stopped.logs = {} /\ Stopped.headers = {}
BY DEF Stopped, ScanType, ScanStates, Cursor

LEMMA LoadCursorBounds ==
  ASSUME Bounds, NEW w \in Workers, LoadCursor(w)
  PROVE  Bounds'
<1>1. cursor \in Cursor /\ CursorSound(cursor) /\ head' = head /\ scan \in [Workers -> ScanType]
  BY DEF Bounds, TypeOK, LoadCursor, chain
<1>2. [Stopped EXCEPT !.at = "lease", !.cursor = cursor] \in ScanType
  BY <1>1, StoppedShape DEF ScanType, ScanStates
<1>3. /\ scan' \in [Workers -> ScanType] /\ \A v \in Workers \ {w} : scan'[v] = scan[v]
      /\ scan'[w].at = "lease" /\ scan'[w].cursor = cursor
      /\ scan'[w].logs = {} /\ scan'[w].headers = {}
  BY <1>1, <1>2, StoppedShape DEF LoadCursor, ScanType
<1>4. WorkerSound(scan[w])'
  BY <1>1, <1>3 DEF WorkerSound, Ranging, CursorSound
<1>5. StoreSound'
  BY <1>1, SameStore DEF LoadCursor
<1>6. QED
  BY <1>3, <1>4, <1>5, WorkerBounds DEF LoadCursor, lease, Bounds, TypeOK

LEMMA LeaseBounds ==
  ASSUME Bounds, NEW w \in Workers, TryAcquireLease(w)
  PROVE  Bounds'
<1>1. head' = head /\ WorkerSound(scan[w]) /\ scan[w].at = "lease"
  BY DEF Bounds, TryAcquireLease, chain
<1>2. PICK at \in {"latest", "stopped"} : Goto(w, at)
  BY DEF TryAcquireLease
<1>3. at \in ScanStates
  BY DEF ScanStates
<1>4. WorkerSound(scan[w])'
  BY <1>1, <1>2, <1>3, Moved DEF WorkerSound, Ranging, CursorSound
<1>5. StoreSound'
  BY <1>1, SameStore DEF TryAcquireLease
<1>6. /\ leaseOwner' \in Workers \cup {NoWorker} /\ leaseExpired' \in BOOLEAN
      /\ faults' \in 0..MaxFaults /\ UNCHANGED chain
  BY DEF TryAcquireLease, lease, Bounds, TypeOK
<1>7. QED
  BY <1>2, <1>3, <1>4, <1>5, <1>6, Moved, WorkerBounds

LEMMA LatestBounds ==
  ASSUME Bounds, NEW w \in Workers, GetLatestBlock(w)
  PROVE  Bounds'
<1> DEFINE s == scan[w]
           to == Least(s.cursor.next + MaxBlockRange - 1, SafeHead(Latest))
<1>1. /\ head' = head /\ scan \in [Workers -> ScanType] /\ WorkerSound(s) /\ s.at = "latest"
      /\ s \in ScanType /\ s.cursor.next \in Nat /\ Latest \in Nat
  BY HeadShape DEF Bounds, GetLatestBlock, chain, ScanType, Cursor
<1>2. to \in Int /\ to <= Latest
  BY <1>1, SafeHeadBelow, OptionAssumption DEF Least
<1>3. <<<<s.cursor.next, to>>>> \in Seq(Int \X Int)
  BY <1>1, <1>2
<1>4. scan' = [scan EXCEPT ![w] = [s EXCEPT !.at = "detect", !.to = to,
                                           !.ranges = <<<<s.cursor.next, to>>>>]]
  BY <1>1 DEF GetLatestBlock
<1> HIDE DEF to
<1>5. [s EXCEPT !.at = "detect", !.to = to, !.ranges = <<<<s.cursor.next, to>>>>] \in ScanType
  BY <1>1, <1>2, <1>3 DEF ScanType, ScanStates
<1>6. /\ scan' \in [Workers -> ScanType] /\ \A v \in Workers \ {w} : scan'[v] = scan[v]
      /\ scan'[w].at = "detect" /\ scan'[w].cursor = s.cursor /\ scan'[w].to = to
      /\ scan'[w].ranges = <<<<s.cursor.next, to>>>>
      /\ scan'[w].logs = s.logs /\ scan'[w].headers = s.headers
  BY <1>1, <1>4, <1>5 DEF ScanType
<1>7. WorkerSound(scan[w])'
  <2>1. scan'[w].to <= Latest'
    BY <1>1, <1>2, <1>6 DEF Latest
  <2>2. QED
    BY <1>1, <1>6, <2>1 DEF WorkerSound, Ranging, CursorSound
<1>8. StoreSound'
  BY <1>1, SameStore DEF GetLatestBlock
<1>9. QED
  BY <1>6, <1>7, <1>8, WorkerBounds DEF GetLatestBlock, lease, Bounds, TypeOK

LEMMA DetectBounds ==
  ASSUME Bounds, NEW w \in Workers, DetectReorg(w)
  PROVE  Bounds'
<1> DEFINE s == scan[w]
<1>1. /\ head' = head /\ scan \in [Workers -> ScanType] /\ WorkerSound(s) /\ s.at = "detect"
      /\ s \in ScanType /\ s.cursor \in Cursor /\ s.cursor.next \in Nat /\ s.to \in Int
      /\ Latest \in Nat /\ UNCHANGED <<store, lease, chain, faults>>
  BY HeadShape DEF Bounds, DetectReorg, chain, ScanType, Cursor
<1>2. /\ CursorSound(s.cursor) /\ s.to <= Latest /\ s.ranges = <<<<s.cursor.next, s.to>>>>
      /\ s.logs = {} /\ s.headers = {}
  BY <1>1 DEF WorkerSound, Ranging
<1>3. StoreSound'
  BY <1>1, SameStore
<1>4. /\ leaseOwner' \in Workers \cup {NoWorker} /\ leaseExpired' \in BOOLEAN
      /\ faults' \in 0..MaxFaults
  BY <1>1 DEF lease, Bounds, TypeOK
<1>5. CASE Goto(w, "release")
  <2>1. WorkerSound(scan[w])'
    BY <1>1, <1>2, <1>5, Moved DEF WorkerSound, Ranging, CursorSound, ScanStates
  <2>2. QED
    BY <1>1, <1>3, <1>4, <1>5, <2>1, Moved, WorkerBounds DEF ScanStates
<1>6. CASE Goto(w, "logs") /\ ~(s.to < s.cursor.next)
  <2>1. "logs" \in ScanStates
    BY DEF ScanStates
  <2>2. s.ranges # <<>> /\ Len(s.ranges) = 1 /\ s.ranges[1][1] = s.cursor.next /\ s.ranges[1][2] = s.to
    BY <1>2
  <2>3. \A i \in 1..Len(s.ranges) : Within(s.ranges[i], s)
    BY <1>1, <1>6, <2>2 DEF Within
  <2>4. scan'[w].to <= Latest'
    BY <1>1, <1>2, <1>6, <2>1, Moved DEF Latest
  <2>5. WorkerSound(scan[w])'
    <3>1. /\ scan'[w].at = "logs" /\ scan'[w].cursor = s.cursor /\ scan'[w].to = s.to
          /\ scan'[w].ranges = s.ranges /\ scan'[w].logs = {} /\ scan'[w].headers = {}
      BY <1>2, <1>6, <2>1, Moved
    <3>2. CursorSound(scan[w].cursor)' /\ scan'[w].cursor.next <= scan'[w].to
      BY <1>1, <1>2, <1>6, <3>1 DEF CursorSound
    <3>3. QED
      BY <2>2, <2>3, <2>4, <3>1, <3>2 DEF WorkerSound, Ranging, Within
  <2>6. QED
    BY <1>1, <1>3, <1>4, <1>6, <2>1, <2>5, Moved, WorkerBounds
<1>7. CASE /\ s.cursor.hash # NoHash
           /\ scan' = [scan EXCEPT ![w].at = "walk", ![w].candidate = s.cursor.next - 1]
  <2>1. /\ scan' \in [Workers -> ScanType] /\ \A v \in Workers \ {w} : scan'[v] = scan[v]
        /\ scan'[w].at = "walk" /\ scan'[w].cursor = s.cursor
        /\ scan'[w].candidate = s.cursor.next - 1
        /\ scan'[w].logs = s.logs /\ scan'[w].headers = s.headers
    <3>1. PICK n \in Int : n = s.cursor.next - 1
      BY <1>1
    <3>2. scan' = [scan EXCEPT ![w] = [s EXCEPT !.at = "walk", !.candidate = n]]
      BY <1>1, <1>7, <3>1
    <3>3. [s EXCEPT !.at = "walk", !.candidate = n] \in ScanType
      BY <1>1 DEF ScanType, ScanStates
    <3>4. QED
      BY <1>1, <3>1, <3>2, <3>3 DEF ScanType
  <2>2. s.cursor.next >= 1
    BY <1>1, <1>2, OptionAssumption DEF CursorSound
  <2>3. WorkerSound(scan[w])'
    BY <1>1, <1>2, <1>7, <2>1, <2>2 DEF WorkerSound, Ranging, CursorSound
  <2>4. QED
    BY <1>1, <1>3, <1>4, <2>1, <2>3, WorkerBounds
<1>8. QED
  BY <1>5, <1>6, <1>7 DEF DetectReorg

\* The end of a scan, whatever it wrote.
LEMMA ReleaseBounds ==
  ASSUME Bounds, NEW w \in Workers, Goto(w, "release"), scan[w].at # "stopped",
         UNCHANGED <<lease, chain>>, faults' \in 0..MaxFaults, StoreSound'
  PROVE  Bounds'
<1>1. head' = head /\ WorkerSound(scan[w])
  BY DEF Bounds, chain
<1>2. "release" \in ScanStates
  BY DEF ScanStates
<1>3. WorkerSound(scan[w])'
  BY <1>1, <1>2, Moved DEF WorkerSound, Ranging, CursorSound
<1>4. QED
  BY <1>2, <1>3, Moved, WorkerBounds DEF lease, Bounds, TypeOK

LEMMA WalkBounds ==
  ASSUME Bounds, NEW w \in Workers, WalkBack(w)
  PROVE  Bounds'
<1> DEFINE s == scan[w]
           n == s.candidate
<1>1. /\ head' = head /\ scan \in [Workers -> ScanType] /\ WorkerSound(s) /\ s.at = "walk"
      /\ s \in ScanType /\ s.cursor \in Cursor /\ s.cursor.next \in Nat
      /\ Latest \in Nat /\ Latest = Len(head) - 1 /\ head \in Blocks
      /\ UNCHANGED <<store, lease, chain, faults>>
  BY HeadShape DEF Bounds, WalkBack, chain, ScanType, Cursor
<1>2. /\ CursorSound(s.cursor) /\ s.cursor.hash # NoHash /\ n \in 0..(s.cursor.next - 1)
      /\ s.logs = {} /\ s.headers = {}
  BY <1>1 DEF WorkerSound, Ranging
<1>3. n \in 0..Latest
  BY <1>1, <1>2, HeadShape DEF CursorSound
<1>4. StoreSound' /\ faults' \in 0..MaxFaults
  BY <1>1, SameStore DEF Bounds, TypeOK
<1>5. CASE Goto(w, "release")
  BY <1>1, <1>4, <1>5, ReleaseBounds
<1>6. CASE Live(n) \in canonical /\ Goto(w, "rewind")
  <2>1. n >= StartBlock
    <3>1. Number(Live(n)) = n
      BY <1>1, <1>3, LiveBlock
    <3>2. QED
      BY <1>6, <3>1 DEF Bounds, TypeOK
  <2>2. "rewind" \in ScanStates
    BY DEF ScanStates
  <2>3. WorkerSound(scan[w])'
    BY <1>1, <1>2, <1>6, <2>1, <2>2, Moved DEF WorkerSound, Ranging, CursorSound
  <2>4. QED
    BY <1>1, <1>4, <1>6, <2>2, <2>3, Moved, WorkerBounds DEF lease, Bounds, TypeOK
<1>7. CASE /\ n > RewindFloor(s.cursor.next - 1)
           /\ scan' = [scan EXCEPT ![w].candidate = n - 1]
  <2>1. n - 1 \in Int /\ n - 1 >= 0 /\ n - 1 <= s.cursor.next - 1
    <3>1. PICK next \in Nat, k \in Int : next = s.cursor.next /\ k = n /\ k <= next - 1
      BY <1>1, <1>2
    <3>2. PICK f \in Int : f = RewindFloor(next - 1) /\ f >= 0
      BY FloorType
    <3>3. k > f
      BY <1>7, <3>1, <3>2
    <3>4. k - 1 \in Int /\ k - 1 >= 0 /\ k - 1 <= next - 1
      BY <3>1, <3>2, <3>3
    <3>5. QED
      BY <3>1, <3>4
  <2>2. /\ scan' \in [Workers -> ScanType] /\ \A v \in Workers \ {w} : scan'[v] = scan[v]
        /\ scan'[w].at = "walk" /\ scan'[w].cursor = s.cursor /\ scan'[w].candidate = n - 1
        /\ scan'[w].logs = {} /\ scan'[w].headers = {}
    <3>1. PICK m \in Int : m = n - 1
      BY <2>1
    <3>2. scan' = [scan EXCEPT ![w] = [s EXCEPT !.candidate = m]]
      BY <1>1, <1>7, <3>1
    <3>3. [s EXCEPT !.candidate = m] \in ScanType
      BY <1>1 DEF ScanType
    <3>4. QED
      BY <1>1, <1>2, <3>1, <3>2, <3>3 DEF ScanType
  <2>3. WorkerSound(scan[w])'
    BY <1>1, <1>2, <2>1, <2>2 DEF WorkerSound, Ranging, CursorSound
  <2>4. QED
    BY <1>1, <1>4, <2>2, <2>3, WorkerBounds DEF lease, Bounds, TypeOK
<1>8. QED
  BY <1>5, <1>6, <1>7 DEF WalkBack

LEMMA RewindBounds ==
  ASSUME Bounds, NEW w \in Workers, Rewind(w)
  PROVE  Bounds'
<1> DEFINE s == scan[w]
           from == s.candidate + 1
           kept == KeptBlocks(from)
<1>1. /\ head' = head /\ WorkerSound(s) /\ s.at = "rewind" /\ s \in ScanType
      /\ s.cursor.next \in Nat /\ Goto(w, "release") /\ faults' \in 0..MaxFaults
      /\ blocks' = blocks /\ logs' = logs /\ UNCHANGED <<lease, chain>> /\ Len(head) \in Nat
  BY HeadShape DEF Bounds, TypeOK, Rewind, chain, ScanType, Cursor
<1>2. /\ CursorSound(s.cursor) /\ s.cursor.hash # NoHash
      /\ s.candidate \in 0..(s.cursor.next - 1) /\ s.candidate >= StartBlock
  BY <1>1 DEF WorkerSound
<1>3. CASE UNCHANGED <<cursor, canonical, applied>>
  <2>1. StoreSound'
    BY <1>1, <1>3, SameStore DEF store
  <2>2. QED
    BY <1>1, <2>1, ReleaseBounds
<1>4. CASE /\ canonical' = kept /\ applied' = KeptLogs(from)
           /\ cursor' = [next |-> from,
                         hash |-> IF \E b \in kept : Number(b) = from - 1
                                  THEN CHOOSE b \in kept : Number(b) = from - 1
                                  ELSE NoHash]
  <2>1. kept \subseteq canonical /\ KeptLogs(from) \subseteq applied
    BY DEF KeptBlocks, KeptLogs
  <2>2. kept \subseteq Blocks
    BY <2>1 DEF Bounds, TypeOK
  <2>3. cursor'.hash \in Blocks \cup {NoHash}
    <3>1. CASE \E b \in kept : Number(b) = from - 1
      BY <1>4, <2>2, <3>1
    <3>2. CASE ~ \E b \in kept : Number(b) = from - 1
      BY <1>4, <3>2
    <3>3. QED
      BY <3>1, <3>2
  <2>4. from \in Nat /\ from >= StartBlock /\ from <= Len(head)
    BY <1>1, <1>2, OptionAssumption DEF CursorSound
  <2>5. cursor' \in Cursor /\ cursor'.next = from
    <3>1. PICK h \in Blocks \cup {NoHash} : cursor' = [next |-> from, hash |-> h]
      BY <1>4, <2>3
    <3>2. QED
      BY <2>4, <3>1 DEF Cursor
  <2>6. StoreSound'
    BY <1>1, <1>4, <2>1, <2>4, <2>5 DEF StoreSound, CursorSound, Bounds, TypeOK
  <2>7. QED
    BY <1>1, <2>6, ReleaseBounds
<1>5. QED
  BY <1>3, <1>4 DEF Rewind

LEMMA GetLogsBounds ==
  ASSUME Bounds, NEW w \in Workers, GetLogs(w)
  PROVE  Bounds'
<1> DEFINE s == scan[w]
           range == Head(s.ranges)
           rest == Tail(s.ranges)
           found == {b \in {Live(n) : n \in range[1]..range[2]} : HasEvent(b)}
           at == IF rest = <<>> THEN "headers" ELSE "logs"
<1>1. /\ head' = head /\ scan \in [Workers -> ScanType] /\ WorkerSound(s) /\ s.at = "logs"
      /\ s \in ScanType /\ s.cursor \in Cursor /\ s.cursor.next \in Nat /\ s.to \in Int
      /\ s.ranges \in Seq(Int \X Int) /\ s.logs \subseteq Blocks
      /\ Latest \in Nat /\ head \in Blocks
      /\ UNCHANGED <<store, lease, chain, faults>>
  BY WorkerShape DEF GetLogs, chain
<1>2. /\ CursorSound(s.cursor) /\ s.headers = {} /\ s.cursor.next <= s.to /\ s.to <= Latest
      /\ \A b \in s.logs : Number(b) \in s.cursor.next..s.to
      /\ s.ranges # <<>> /\ \A i \in 1..Len(s.ranges) : Within(s.ranges[i], s)
  BY <1>1 DEF WorkerSound, Ranging
<1>3. /\ rest \in Seq(Int \X Int) /\ Len(rest) = Len(s.ranges) - 1 /\ Len(s.ranges) \in Nat
      /\ range = s.ranges[1] /\ 1 \in 1..Len(s.ranges) /\ range \in Int \X Int
      /\ \A i \in 1..Len(rest) : rest[i] = s.ranges[i + 1]
  <2>1. PICK q \in Seq(Int \X Int) : q = s.ranges
    BY <1>1
  <2>2. /\ Tail(q) \in Seq(Int \X Int) /\ Len(Tail(q)) = Len(q) - 1
        /\ \A i \in 1..Len(Tail(q)) : Tail(q)[i] = q[i + 1]
    BY <1>2, <2>1, HeadTailProperties
  <2>3. Head(q) = q[1] /\ 1 \in 1..Len(q) /\ Len(q) \in Nat /\ q[1] \in Int \X Int
    BY <1>2, <2>1
  <2>4. QED
    BY <2>1, <2>2, <2>3
<1>4. \A b \in found : b \in Blocks /\ Number(b) \in s.cursor.next..s.to
  <2>1. ASSUME NEW b \in found PROVE b \in Blocks /\ Number(b) \in s.cursor.next..s.to
    <3>1. PICK n \in range[1]..range[2] : b = Live(n)
      OBVIOUS
    <3>2. Within(range, s) /\ range[1] \in Int /\ range[2] \in Int
      BY <1>2, <1>3
    <3>3. n \in s.cursor.next..s.to /\ n \in 0..Latest
      <4>1. n \in s.cursor.next..s.to
        BY <1>1, <3>2, InTheScan
      <4>2. PICK next \in Nat, to \in Int, top \in Nat :
              next = s.cursor.next /\ to = s.to /\ top = Latest /\ to <= top /\ n \in next..to
        BY <1>1, <1>2, <4>1
      <4>3. n \in 0..top
        BY <4>2
      <4>4. QED
        BY <4>1, <4>2, <4>3
    <3>4. QED
      BY <1>1, <3>1, <3>3, LiveBlock
  <2>2. QED
    BY <2>1
<1>5. scan' = [scan EXCEPT ![w] = [s EXCEPT !.logs = s.logs \cup found, !.ranges = rest, !.at = at]]
  BY <1>1 DEF GetLogs
<1>6. at \in {"headers", "logs"} /\ (at = "logs" => rest # <<>>)
  OBVIOUS
<1> HIDE DEF found, rest, at
<1>7. [s EXCEPT !.logs = s.logs \cup found, !.ranges = rest, !.at = at] \in ScanType
  <2>1. s.logs \cup found \in SUBSET Blocks /\ at \in ScanStates
    BY <1>1, <1>4, <1>6 DEF ScanStates
  <2>2. PICK f \in SUBSET Blocks : f = s.logs \cup found
    BY <2>1
  <2>3. [s EXCEPT !.logs = f, !.ranges = rest, !.at = at] \in ScanType
    BY <1>1, <1>3, <2>1 DEF ScanType
  <2>4. QED
    BY <2>2, <2>3
<1>8. /\ scan' \in [Workers -> ScanType] /\ \A v \in Workers \ {w} : scan'[v] = scan[v]
      /\ scan'[w].at = at /\ scan'[w].cursor = s.cursor /\ scan'[w].to = s.to
      /\ scan'[w].ranges = rest /\ scan'[w].logs = s.logs \cup found /\ scan'[w].headers = {}
  BY <1>1, <1>2, <1>5, <1>7 DEF ScanType
<1>9. WorkerSound(scan[w])'
  <2>1. CursorSound(scan[w].cursor)' /\ scan'[w].cursor.next <= scan'[w].to /\ scan'[w].to <= Latest'
    BY <1>1, <1>2, <1>8 DEF CursorSound, Latest
  <2>2. \A b \in scan'[w].logs : Number(b) \in scan'[w].cursor.next..scan'[w].to
    BY <1>2, <1>4, <1>8
  <2>3. \A i \in 1..Len(rest) : Within(rest[i], s)
    <3>1. ASSUME NEW i \in 1..Len(rest) PROVE Within(rest[i], s)
      <4>1. i + 1 \in 1..Len(s.ranges)
        BY <1>3
      <4>2. QED
        BY <1>2, <1>3, <4>1
    <3>2. QED
      BY <3>1
  <2>4. QED
    BY <1>6, <1>8, <2>1, <2>2, <2>3 DEF WorkerSound, Ranging, Within
<1>10. StoreSound' /\ faults' \in 0..MaxFaults
  BY <1>1, SameStore DEF Bounds, TypeOK
<1>11. QED
  BY <1>1, <1>8, <1>9, <1>10, WorkerBounds DEF lease, Bounds, TypeOK

\* A refused range gives way to its two halves.
Halves(range) ==
  LET middle == range[1] + (range[2] - range[1]) \div 2 IN
  <<<<range[1], middle>>, <<middle + 1, range[2]>>>>

LEMMA HalvesShape ==
  ASSUME NEW q \in Seq(Int \X Int), q # <<>>, Head(q)[1] < Head(q)[2]
  PROVE  LET r == Head(q)
             middle == r[1] + (r[2] - r[1]) \div 2
             e == Halves(r) \o Tail(q) IN
         /\ e \in Seq(Int \X Int) /\ Len(e) = Len(q) + 1 /\ e # <<>>
         /\ middle \in r[1]..(r[2] - 1)
         /\ e[1] = <<r[1], middle>> /\ e[2] = <<middle + 1, r[2]>>
         /\ \A i \in 3..Len(e) : e[i] = q[i - 1]
         /\ r = q[1] /\ r \in Int \X Int
<1> DEFINE r == Head(q)
           middle == r[1] + (r[2] - r[1]) \div 2
           h == Halves(r)
           e == h \o Tail(q)
<1>1. r = q[1] /\ r \in Int \X Int /\ Len(q) \in Nat /\ Len(q) >= 1
  OBVIOUS
<1>2. r[1] \in Int /\ r[2] \in Int /\ r[1] < r[2]
  BY <1>1
<1>3. middle \in r[1]..(r[2] - 1)
  BY <1>2
<1> HIDE DEF middle, r
<1>4. /\ h = <<<<r[1], middle>>, <<middle + 1, r[2]>>>> /\ h \in Seq(Int \X Int) /\ Len(h) = 2
      /\ h[1] = <<r[1], middle>> /\ h[2] = <<middle + 1, r[2]>>
  <2>1. h = <<<<r[1], middle>>, <<middle + 1, r[2]>>>>
    BY DEF Halves, middle
  <2>2. <<r[1], middle>> \in Int \X Int /\ <<middle + 1, r[2]>> \in Int \X Int
    BY <1>2, <1>3
  <2>3. QED
    BY <2>1, <2>2
<1>5. /\ Tail(q) \in Seq(Int \X Int) /\ Len(Tail(q)) = Len(q) - 1
      /\ \A i \in 1..Len(Tail(q)) : Tail(q)[i] = q[i + 1]
  BY HeadTailProperties
<1> HIDE DEF h
<1>6. /\ e \in Seq(Int \X Int) /\ Len(e) = Len(h) + Len(Tail(q))
      /\ \A i \in 1..Len(e) : e[i] = IF i <= Len(h) THEN h[i] ELSE Tail(q)[i - Len(h)]
  BY <1>4, <1>5, ConcatProperties
<1> HIDE DEF e
<1>7. Len(e) = Len(q) + 1 /\ e # <<>>
  BY <1>1, <1>4, <1>5, <1>6
<1>8. e[1] = h[1] /\ e[2] = h[2]
  <2>1. 1 \in 1..Len(e) /\ 2 \in 1..Len(e) /\ 1 <= Len(h) /\ 2 <= Len(h)
    BY <1>1, <1>4, <1>7
  <2>2. QED
    BY <1>6, <2>1
<1>9. ASSUME NEW i \in 3..Len(e) PROVE e[i] = q[i - 1]
  <2>1. i - 2 \in 1..Len(Tail(q)) /\ ~(i <= Len(h)) /\ i \in 1..Len(e)
    BY <1>1, <1>4, <1>5, <1>7
  <2>2. e[i] = Tail(q)[i - 2]
    BY <1>4, <1>6, <2>1
  <2>3. QED
    BY <1>5, <2>1, <2>2
<1>10. QED
  BY <1>1, <1>3, <1>4, <1>6, <1>7, <1>8, <1>9 DEF e, r, middle, h

LEMMA RefuseBounds ==
  ASSUME Bounds, NEW w \in Workers, RefuseLogs(w)
  PROVE  Bounds'
<1> DEFINE s == scan[w]
           range == Head(s.ranges)
           parts == Halves(range) \o Tail(s.ranges)
<1>1. /\ head' = head /\ s.at = "logs" /\ UNCHANGED <<store, lease, chain>>
      /\ faults' \in 0..MaxFaults
  BY WorkerShape, ChainAssumption DEF RefuseLogs, chain
<1>2. /\ s \in ScanType /\ CursorSound(s.cursor) /\ s.headers = {} /\ s.to <= Latest
      /\ s.cursor.next \in Nat /\ s.to \in Int /\ s.cursor.next <= s.to
      /\ \A b \in s.logs : Number(b) \in s.cursor.next..s.to
      /\ s.ranges # <<>> /\ \A i \in 1..Len(s.ranges) : Within(s.ranges[i], s)
  BY <1>1, WorkerShape DEF WorkerSound, Ranging
<1>3. StoreSound'
  BY <1>1, SameStore
<1>4. CASE Goto(w, "release")
  BY <1>1, <1>3, <1>4, ReleaseBounds
<1>5. CASE range[1] < range[2] /\ scan' = [scan EXCEPT ![w].ranges = parts]
  <2>1. PICK q \in Seq(Int \X Int) : q = s.ranges
    BY WorkerShape
  <2>2. PICK m \in Int : m = range[1] + (range[2] - range[1]) \div 2
    <3>1. range \in Int \X Int
      BY <1>2, <2>1
    <3>2. QED
      BY <3>1
  <2>3. /\ parts \in Seq(Int \X Int) /\ Len(parts) = Len(s.ranges) + 1 /\ parts # <<>>
        /\ m \in range[1]..(range[2] - 1)
        /\ parts[1] = <<range[1], m>> /\ parts[2] = <<m + 1, range[2]>>
        /\ \A i \in 3..Len(parts) : parts[i] = s.ranges[i - 1]
        /\ range = s.ranges[1] /\ range \in Int \X Int
    BY <1>2, <1>5, <2>1, <2>2, HalvesShape
  <2> HIDE DEF parts
  <2>4. /\ scan' \in [Workers -> ScanType] /\ \A v \in Workers \ {w} : scan'[v] = scan[v]
        /\ scan'[w].at = "logs" /\ scan'[w].cursor = s.cursor /\ scan'[w].to = s.to
        /\ scan'[w].ranges = parts /\ scan'[w].logs = s.logs /\ scan'[w].headers = {}
    <3>1. scan' = [scan EXCEPT ![w] = [s EXCEPT !.ranges = parts]]
      BY <1>5, WorkerShape
    <3>2. [s EXCEPT !.ranges = parts] \in ScanType
      BY <1>2, <2>3 DEF ScanType
    <3>3. QED
      BY <1>1, <1>2, <3>1, <3>2, WorkerShape DEF ScanType
  <2>5. \A i \in 1..Len(parts) : Within(parts[i], s)
    <3>1. Len(s.ranges) \in Nat /\ 1 \in 1..Len(s.ranges)
      BY <1>2, <2>1
    <3>2. ASSUME NEW i \in 1..Len(parts) PROVE Within(parts[i], s)
      <4>0. PICK next \in Nat, to \in Int : next = s.cursor.next /\ to = s.to
        BY <1>2
      <4>1. PICK a \in Int, z \in Int : /\ a = range[1] /\ z = range[2] /\ m \in a..(z - 1)
                                        /\ a \in next..z /\ z <= to
        <5>1. Within(range, s) /\ range[1] \in Int /\ range[2] \in Int
          BY <1>2, <2>3, <3>1
        <5>2. QED
          BY <2>3, <4>0, <5>1 DEF Within
      <4> HIDE DEF range
      <4>6. parts[1] = <<a, m>> /\ parts[2] = <<m + 1, z>>
        <5>1. a = range[1] /\ z = range[2]
          BY <4>1
        <5>2. parts[1] = <<range[1], m>> /\ parts[2] = <<m + 1, range[2]>>
          BY <2>3
        <5>3. QED
          BY <5>1, <5>2
      <4>2. CASE i = 1
        <5>1. parts[i] = <<a, m>>
          BY <4>2, <4>6
        <5>2. parts[i][1] = a /\ parts[i][2] = m
          BY <5>1
        <5>3. a \in next..m /\ m <= to
          BY <4>1
        <5>4. QED
          BY <4>0, <5>2, <5>3 DEF Within
      <4>3. CASE i = 2
        <5>1. parts[i] = <<m + 1, z>>
          BY <4>3, <4>6
        <5>2. parts[i][1] = m + 1 /\ parts[i][2] = z
          BY <5>1
        <5>3. m + 1 \in next..z /\ z <= to
          BY <4>1
        <5>4. QED
          BY <4>0, <5>2, <5>3 DEF Within
      <4>4. CASE i \in 3..Len(parts)
        <5>1. i - 1 \in 1..Len(s.ranges)
          BY <2>3, <3>1, <4>4
        <5>2. PICK j \in 1..Len(s.ranges) : j = i - 1 /\ parts[i] = s.ranges[j]
          BY <2>3, <4>4, <5>1
        <5>3. Within(s.ranges[j], s)
          BY <1>2
        <5>4. QED
          BY <5>2, <5>3
      <4>5. QED
        BY <2>3, <3>1, <4>2, <4>3, <4>4
    <3>3. QED
      BY <3>2
  <2>6. WorkerSound(scan[w])'
    <3>1. CursorSound(scan[w].cursor)' /\ scan'[w].to <= Latest'
      BY <1>1, <1>2, <2>4 DEF CursorSound, Latest
    <3>2. QED
      BY <1>2, <2>3, <2>4, <2>5, <3>1 DEF WorkerSound, Ranging, Within
  <2>7. QED
    BY <1>1, <1>3, <2>4, <2>6, WorkerBounds DEF lease, Bounds, TypeOK
<1>6. QED
  BY <1>4, <1>5 DEF RefuseLogs, Halves

LEMMA LoadHeaderBounds ==
  ASSUME Bounds, NEW w \in Workers, NEW n \in 0..MaxHeight, LoadHeader(w, n)
  PROVE  Bounds'
<1> DEFINE s == scan[w]
           headers == s.headers \cup {Live(n)}
           at == IF Cardinality(headers) = Cardinality(ProofBlocks(s)) THEN "commit" ELSE "headers"
<1>1. /\ head' = head /\ s.at = "headers" /\ UNCHANGED <<store, lease, chain, faults>>
      /\ faults' \in 0..MaxFaults
      /\ n \in ProofBlocks(s) /\ \A b \in s.headers : Number(b) # n
  BY WorkerShape DEF LoadHeader, chain
<1>2. /\ s \in ScanType /\ CursorSound(s.cursor) /\ s.to <= Latest
      /\ s.cursor.next \in Nat /\ s.to \in Int /\ s.cursor.next <= s.to
      /\ \A b \in s.logs : Number(b) \in s.cursor.next..s.to
      /\ \A b \in s.headers : Number(b) \in ProofBlocks(s)
      /\ \A a, b \in s.headers : Number(a) = Number(b) => a = b
      /\ s.headers \subseteq Blocks
  BY <1>1, WorkerShape DEF WorkerSound, Ranging
<1>3. /\ ProofBlocks(s) \subseteq StartBlock..s.to /\ IsFiniteSet(ProofBlocks(s))
  BY <1>2, ProofRange DEF CursorSound
<1>4. Live(n) \in Blocks /\ Number(Live(n)) = n
  <2>1. n \in 0..Latest
    BY <1>1, <1>2, <1>3, WorkerShape
  <2>2. QED
    BY <2>1, WorkerShape, LiveBlock
<1>5. /\ headers \subseteq Blocks /\ \A b \in headers : Number(b) \in ProofBlocks(s)
      /\ \A a, b \in headers : Number(a) = Number(b) => a = b
  BY <1>1, <1>2, <1>4
<1>6. at \in {"headers", "commit"} /\ at \in ScanStates
  BY DEF ScanStates
<1>7. at = "commit" => \A k \in ProofBlocks(s) : \E b \in headers : Number(b) = k
  <2>1. SUFFICES ASSUME Cardinality(headers) = Cardinality(ProofBlocks(s))
                 PROVE  \A k \in ProofBlocks(s) : \E b \in headers : Number(b) = k
    OBVIOUS
  <2>2. PICK H \in SUBSET Blocks : H = headers
    BY <1>5
  <2>3. PICK P : P = ProofBlocks(s)
    OBVIOUS
  <2>4. QED
    BY <1>3, <1>5, <2>1, <2>2, <2>3, HeadersComplete
<1>8. scan' = [scan EXCEPT ![w] = [s EXCEPT !.headers = headers, !.at = at]]
  BY WorkerShape DEF LoadHeader
<1> HIDE DEF headers, at
<1>9. [s EXCEPT !.headers = headers, !.at = at] \in ScanType
  BY <1>2, <1>5, <1>6 DEF ScanType
<1>10. /\ scan' \in [Workers -> ScanType] /\ \A v \in Workers \ {w} : scan'[v] = scan[v]
       /\ scan'[w].at = at /\ scan'[w].cursor = s.cursor /\ scan'[w].to = s.to
       /\ scan'[w].logs = s.logs /\ scan'[w].headers = headers
  BY <1>2, <1>8, <1>9, WorkerShape DEF ScanType
<1>11. WorkerSound(scan[w])'
  <2>1. CursorSound(scan[w].cursor)' /\ scan'[w].to <= Latest'
    BY <1>1, <1>2, <1>10 DEF CursorSound, Latest
  <2>2. ProofBlocks(scan[w])' = ProofBlocks(s)
    BY <1>10 DEF ProofBlocks
  <2>3. QED
    BY <1>2, <1>5, <1>6, <1>7, <1>10, <2>1, <2>2 DEF WorkerSound, Ranging
<1>12. QED
  BY <1>1, <1>10, <1>11, SameStore, WorkerBounds DEF lease, Bounds, TypeOK

LEMMA CommitBounds ==
  ASSUME Bounds, NEW w \in Workers, CommitRange(w)
  PROVE  Bounds'
<1> DEFINE s == scan[w]
           last == CHOOSE b \in s.headers : Number(b) = s.to
<1>1. /\ head' = head /\ s.at = "commit" /\ Goto(w, "release") /\ UNCHANGED <<lease, chain>>
      /\ faults' \in 0..MaxFaults
      /\ blocks' = blocks \cup s.headers /\ canonical' = canonical \cup (s.headers \ blocks)
      /\ logs' = logs \cup s.logs /\ applied' = applied \cup (s.logs \ logs)
      /\ cursor' = [next |-> s.to + 1, hash |-> last]
  BY WorkerShape DEF CommitRange, chain
<1>2. /\ s \in ScanType /\ CursorSound(s.cursor) /\ s.to <= Latest
      /\ s.cursor.next \in Nat /\ s.to \in Int /\ s.cursor.next <= s.to
      /\ \A b \in s.logs : Number(b) \in s.cursor.next..s.to
      /\ \A b \in s.headers : Number(b) \in ProofBlocks(s)
      /\ \A n \in ProofBlocks(s) : \E b \in s.headers : Number(b) = n
      /\ s.headers \subseteq Blocks /\ s.logs \subseteq Blocks
  BY <1>1, WorkerShape DEF WorkerSound, Ranging
<1>3. ProofBlocks(s) \subseteq StartBlock..s.to /\ s.to \in ProofBlocks(s)
  BY <1>2, ProofRange DEF CursorSound
<1>4. last \in s.headers /\ Number(last) = s.to
  BY <1>2, <1>3
<1> HIDE DEF last
<1>5. \A b \in s.headers : b \in Blocks /\ Number(b) >= StartBlock
  BY <1>2, <1>3
<1>6. s.to + 1 \in Nat /\ s.to + 1 >= StartBlock /\ s.to + 1 <= Len(head)
  BY <1>2, HeadShape, OptionAssumption DEF CursorSound
<1>7. cursor' \in Cursor /\ CursorSound(cursor)'
  <2>1. cursor' \in Cursor /\ cursor'.next = s.to + 1
    BY <1>1, <1>4, <1>5, <1>6 DEF Cursor
  <2>2. QED
    BY <1>1, <1>6, <2>1 DEF CursorSound
<1>8. StoreSound'
  <2>1. /\ blocks' \subseteq {b \in Blocks : Number(b) >= StartBlock} /\ canonical' \subseteq blocks'
        /\ logs' \subseteq Blocks /\ applied' \subseteq logs'
    BY <1>1, <1>2, <1>5 DEF Bounds, TypeOK
  <2>2. QED
    BY <1>7, <2>1 DEF StoreSound
<1>9. QED
  BY <1>1, <1>8, ReleaseBounds

LEMMA StopBounds ==
  ASSUME Bounds, NEW w \in Workers, scan' = [scan EXCEPT ![w] = Stopped],
         UNCHANGED <<store, chain>>, faults' \in 0..MaxFaults,
         leaseOwner' \in Workers \cup {NoWorker}, leaseExpired' \in BOOLEAN
  PROVE  Bounds'
<1>1. head' = head
  BY DEF chain
<1>2. /\ scan' \in [Workers -> ScanType] /\ \A v \in Workers \ {w} : scan'[v] = scan[v]
      /\ scan'[w] = Stopped
  BY StoppedShape, WorkerShape
<1>3. WorkerSound(scan[w])'
  BY <1>2, StoppedShape DEF WorkerSound, Ranging
<1>4. QED
  BY <1>1, <1>2, <1>3, SameStore, WorkerBounds

LEMMA BoundsStep == Bounds /\ [Next]_vars => Bounds'
<1> SUFFICES ASSUME Bounds, [Next]_vars PROVE Bounds'
  OBVIOUS
<1>1. head \in Blocks /\ Len(head) \in Nat /\ reorgs \in 0..MaxReorgs
      /\ removed \subseteq Blocks /\ faults \in 0..MaxFaults
  BY HeadShape DEF Bounds, TypeOK
<1>2. ASSUME NEW c \in Contents, Mine(c) PROVE Bounds'
  <2>1. head' \in Blocks /\ Len(head') = Len(head) + 1
    BY <1>1, <1>2, Grows
  <2>2. UNCHANGED <<scan, store, lease, faults>> /\ removed' = removed /\ reorgs' = reorgs
    BY <1>2 DEF Mine
  <2>3. QED
    BY <1>1, <2>1, <2>2, ChainBounds
<1>3. ASSUME NEW keep \in 0..(Latest - 1), NEW c \in Contents, Reorganise(keep, c) PROVE Bounds'
  <2>1. head' \in Blocks /\ Len(head') = Len(head)
    BY <1>1, <1>3, Forks
  <2>2. UNCHANGED <<scan, store, lease, faults>>
    BY <1>3 DEF Reorganise
  <2>3. reorgs' \in 0..MaxReorgs
    BY <1>1, <1>3, ChainAssumption DEF Reorganise
  <2>4. removed' \subseteq Blocks
    <3>1. \A n \in (keep + 1)..Latest : n \in 0..Latest
      OBVIOUS
    <3>2. \A n \in (keep + 1)..Latest : Live(n) \in Blocks
      BY <1>1, <3>1, LiveBlock
    <3>3. QED
      BY <1>1, <1>3, <3>2 DEF Reorganise
  <2>5. QED
    BY <1>1, <2>1, <2>2, <2>3, <2>4, ChainBounds
<1>4. CASE LeaseExpires
  <2>1. leaseOwner' \in Workers \cup {NoWorker} /\ leaseExpired' \in BOOLEAN
    BY <1>4 DEF LeaseExpires, Bounds, TypeOK
  <2>2. QED
    BY <1>4, <2>1, QuietBounds DEF LeaseExpires
<1>5. ASSUME NEW w \in Workers, Scan(w) PROVE Bounds'
  <2>1. CASE ReleaseLease(w)
    BY <1>1, <2>1, StopBounds DEF ReleaseLease, lease, Bounds, TypeOK
  <2>2. CASE RejectRange(w)
    BY <1>1, <2>2, ReleaseBounds, SameStore DEF RejectRange, chain
  <2>3. QED
    BY <1>5, <2>1, <2>2, LoadCursorBounds, LeaseBounds, LatestBounds, DetectBounds, WalkBounds,
       RewindBounds, GetLogsBounds, LoadHeaderBounds, CommitBounds DEF Scan
<1>6. ASSUME NEW w \in Workers, Fault(w) PROVE Bounds'
  <2>1. CASE Crash(w)
    <3>1. faults' \in 0..MaxFaults
      BY <1>1, <2>1, ChainAssumption DEF Crash
    <3>2. leaseOwner' \in Workers \cup {NoWorker} /\ leaseExpired' \in BOOLEAN
      BY <2>1 DEF Crash, lease, Bounds, TypeOK
    <3>3. QED
      BY <2>1, <3>1, <3>2, StopBounds DEF Crash
  <2>2. QED
    BY <1>6, <2>1, RefuseBounds DEF Fault
<1>7. CASE UNCHANGED vars
  <2>1. leaseOwner' \in Workers \cup {NoWorker} /\ leaseExpired' \in BOOLEAN
    BY <1>7 DEF vars, lease, Bounds, TypeOK
  <2>2. QED
    BY <1>7, <2>1, QuietBounds DEF vars
<1>8. QED
  BY <1>2, <1>3, <1>4, <1>5, <1>6, <1>7 DEF Next, ChainStep

LEMMA BoundsHold == Spec => []Bounds
BY BoundsInit, BoundsStep, PTL DEF Spec

-----------------------------------------------------------------------------
\* Every variable keeps its type; no stored block is older than the contracts,
\* whatever ranges are planned, split, proved and committed, and however far a
\* rewind goes back.
THEOREM TypeCorrect == Spec => []TypeOK
<1>1. Bounds => TypeOK
  BY DEF Bounds
<1>2. QED
  BY <1>1, BoundsHold, PTL

-----------------------------------------------------------------------------
(* History: what the tables and the scans have to do with the live chain   *)

LiveBlocks == Fronts(head)

\* A stored block is live or was removed, and never both.
Settled ==
  /\ removed \cap LiveBlocks = {}
  /\ blocks \subseteq LiveBlocks \cup removed
  /\ MaxReorgs = 0 => removed = {}

\* The canonical blocks are the last processed one and ancestors of it; the other
\* rows were removed; the events applied are those of the canonical rows, and none
\* of the branch is missing.
Tables ==
  /\ cursor.hash # NoHash => /\ cursor.hash \in canonical
                             /\ Number(cursor.hash) = cursor.next - 1
  /\ cursor.hash = NoHash => cursor.next = StartBlock
  /\ canonical \subseteq Fronts(cursor.hash)
  /\ blocks \ canonical \subseteq removed
  /\ logs \subseteq blocks /\ applied = logs \cap canonical
  /\ \A b \in applied : HasEvent(b)
  /\ cursor.hash # NoHash => \A b \in Processed : HasEvent(b) => b \in applied

\* The stored ancestor lies so deep that no further reorganisation removes it.
Anchor ==
  cursor.hash # NoHash =>
    \E n \in RewindFloor(cursor.next - 1)..(cursor.next - 1) :
      Live(n) \in canonical /\ n <= Greatest(StartBlock, Latest - ReorgWindow)

\* Without reorganisations every cursor is one of the live chain.
Following(c) == MaxReorgs = 0 /\ c.hash # NoHash => c.hash = Live(c.next - 1)

Covered(ranges, n) == \E i \in 1..Len(ranges) : n \in ranges[i][1]..ranges[i][2]

\* A scan works with the cursor of the store or with one it has left behind, walks
\* back over no live block that is stored, and has read nothing but live blocks,
\* with all their events but those of the ranges it has still to ask for.
Abreast(s) ==
  /\ s.at \notin {"stopped", "release"} =>
       /\ s.cursor = cursor \/ (MaxReorgs = 0 /\ s.cursor.next < cursor.next)
       /\ Following(s.cursor)
  /\ s.at \in {"walk", "rewind"} =>
       MaxReorgs # 0 /\ \A b \in canonical : Number(b) > s.candidate => b \notin LiveBlocks
  /\ s.at = "rewind" => Live(s.candidate) \in canonical
  /\ s.at \in Ranging =>
       /\ s.cursor.hash # NoHash => s.cursor.hash \in LiveBlocks
       /\ s.logs \subseteq LiveBlocks /\ s.headers \subseteq LiveBlocks
       /\ \A b \in s.logs : HasEvent(b)
       /\ \A n \in s.cursor.next..s.to : HasEvent(Live(n)) =>
            Live(n) \in s.logs \/ (s.at = "logs" /\ Covered(s.ranges, n))

History ==
  /\ Settled /\ Tables /\ Anchor /\ Following(cursor)
  /\ \A w \in Workers : Abreast(scan[w])

LEMMA HistoryInit == Init => History
<1> SUFFICES ASSUME Init PROVE History
  OBVIOUS
<1>1. /\ removed = {} /\ cursor.hash = NoHash /\ cursor.next = StartBlock
      /\ blocks = {} /\ canonical = {} /\ logs = {} /\ applied = {}
      /\ \A w \in Workers : scan[w] = Stopped
  BY DEF Init
<1>2. Settled /\ Tables /\ Anchor /\ Following(cursor)
  BY <1>1 DEF Settled, Tables, Anchor, Following
<1>3. Abreast(Stopped)
  BY StoppedShape DEF Abreast, Ranging
<1>4. QED
  BY <1>1, <1>2, <1>3 DEF History

\* The live ancestors of a live block, and how they grow.
LEMMA LiveFronts ==
  ASSUME head \in Blocks, NEW m \in 0..Latest
  PROVE  \A b : b \in Fronts(Live(m)) <=> b \in LiveBlocks /\ Number(b) <= m
BY LiveBlock, FrontsNest DEF LiveBlocks

\* Equal chains up to a height have the same live blocks up to it.
LEMMA KeptLive ==
  ASSUME head \in Blocks, head' \in Blocks, NEW keep \in Nat, keep <= Latest, keep <= Latest',
         \A n \in 0..keep : Live(n)' = Live(n)
  PROVE  /\ \A b \in LiveBlocks : Number(b) <= keep => b \in LiveBlocks'
         /\ \A b \in LiveBlocks' : Number(b) <= keep => b \in LiveBlocks
<1>1. /\ \A n \in 0..Latest : Live(n) \in LiveBlocks
      /\ \A b \in LiveBlocks : Number(b) \in 0..Latest /\ b = Live(Number(b))
  BY LiveBlock DEF LiveBlocks
<1>2. /\ \A n \in 0..Latest' : Live(n)' \in LiveBlocks'
      /\ \A b \in LiveBlocks' : Number(b) \in 0..Latest' /\ b = Live(Number(b))'
  <2>1. /\ \A n \in 0..Latest' : Live(n)' \in Fronts(head')
        /\ \A b \in Fronts(head') : Number(b) \in 0..Latest' /\ b = Live(Number(b))'
    <3>1. Len(head') \in 1..(MaxHeight + 1) /\ Latest' = Len(head') - 1
      BY BlockShape DEF Latest, Number
    <3>2. ASSUME NEW n \in 0..Latest' PROVE Live(n)' \in Fronts(head')
      <4>1. n + 1 \in 1..Len(head')
        BY <3>1, ChainAssumption
      <4>2. QED
        BY <4>1 DEF Live, Fronts
    <3>3. QED
      BY <3>2, LiveShape DEF Live, Latest, Number
  <2>2. QED
    BY <2>1 DEF LiveBlocks
<1>3. Latest \in Int /\ Latest' \in Int
  BY BlockShape DEF Latest, Number
<1>4. ASSUME NEW b \in LiveBlocks, Number(b) <= keep PROVE b \in LiveBlocks'
  <2>1. Number(b) \in 0..keep /\ Number(b) \in 0..Latest'
    BY <1>1, <1>3, <1>4
  <2>2. QED
    BY <1>1, <1>2, <2>1
<1>5. ASSUME NEW b \in LiveBlocks', Number(b) <= keep PROVE b \in LiveBlocks
  <2>1. Number(b) \in 0..keep /\ Number(b) \in 0..Latest
    BY <1>2, <1>3, <1>5
  <2>2. b = Live(Number(b))'
    BY <1>2
  <2>3. QED
    BY <1>1, <2>1, <2>2
<1>6. QED
  BY <1>4, <1>5

\* While nothing changes but scans, history goes on if the scans that move keep it.
LEMMA SameHistory ==
  ASSUME Bounds, History, NEW w \in Workers, UNCHANGED <<store, chain>>,
         \A v \in Workers \ {w} : scan'[v] = scan[v], Abreast(scan[w])'
  PROVE  History'
<1>1. /\ head' = head /\ removed' = removed /\ cursor' = cursor /\ blocks' = blocks
      /\ canonical' = canonical /\ logs' = logs /\ applied' = applied
  BY DEF store, chain
<1>2. Settled' /\ Tables' /\ Anchor' /\ Following(cursor)'
  BY <1>1 DEF History, Settled, LiveBlocks, Tables, Processed, Anchor, Live, Latest, Number, Following
<1>3. ASSUME NEW v \in Workers, v # w PROVE Abreast(scan[v])'
  <2>1. scan'[v] = scan[v] /\ Abreast(scan[v])
    BY <1>3 DEF History
  <2>2. QED
    BY <1>1, <2>1 DEF Abreast, Following, LiveBlocks, Live, Covered, Number
<1>4. QED
  BY <1>2, <1>3 DEF History

\* Settled also says: what is stored and live is canonical.
LEMMA LiveIsCanonical ==
  ASSUME Settled, Tables
  PROVE  \A b \in blocks : b \in LiveBlocks => b \in canonical
BY DEF Settled, Tables

\* The cursor, once it has processed a block, is inside the chain.
LEMMA CursorInside ==
  ASSUME Bounds, NEW c \in Cursor, CursorSound(c), c.hash # NoHash
  PROVE  c.next - 1 \in 0..Latest
BY HeadShape, OptionAssumption DEF CursorSound, Cursor

LEMMA BelowGreatest ==
  \A a, b, n \in Int : n <= Greatest(a, b) <=> n <= a \/ n <= b
BY DEF Greatest

LEMMA CandidateInside ==
  ASSUME Bounds, NEW w \in Workers, scan[w].at \in {"walk", "rewind"}
  PROVE  scan[w].candidate \in 0..Latest
<1>1. /\ scan[w].cursor \in Cursor /\ scan[w].cursor.next \in Nat /\ Latest \in Nat
      /\ CursorSound(scan[w].cursor) /\ scan[w].cursor.hash # NoHash
      /\ scan[w].candidate \in 0..(scan[w].cursor.next - 1)
  BY WorkerShape DEF WorkerSound
<1>2. scan[w].cursor.next - 1 \in 0..Latest
  BY <1>1, CursorInside
<1>3. QED
  BY <1>1, <1>2

LEMMA AnchorKept ==
  ASSUME Bounds, Anchor, head' \in Blocks, NEW keep \in Nat, keep <= Latest,
         Greatest(StartBlock, Latest - ReorgWindow) <= keep \/ keep = Latest,
         Latest <= Latest', UNCHANGED store, \A n \in 0..keep : Live(n)' = Live(n)
  PROVE  Anchor'
<1> SUFFICES ASSUME cursor'.hash # NoHash
             PROVE  \E n \in RewindFloor(cursor'.next - 1)..(cursor'.next - 1) :
                      Live(n)' \in canonical' /\ n <= Greatest(StartBlock, Latest' - ReorgWindow)
  BY DEF Anchor
<1>1. cursor' = cursor /\ canonical' = canonical /\ cursor \in Cursor /\ CursorSound(cursor)
  BY DEF store, Bounds, TypeOK
<1>2. PICK n \in RewindFloor(cursor.next - 1)..(cursor.next - 1) :
        Live(n) \in canonical /\ n <= Greatest(StartBlock, Latest - ReorgWindow)
  BY <1>1 DEF Anchor
<1>3. /\ n \in 0..Latest /\ cursor.next - 1 \in 0..Latest /\ Latest \in Nat /\ Latest' \in Int
      /\ ReorgWindow \in Nat /\ StartBlock \in Nat
  <2>1. cursor.next - 1 \in 0..Latest /\ Latest \in Nat
    BY <1>1, CursorInside, HeadShape
  <2>2. Latest' \in Int
    BY BlockShape DEF Latest, Number
  <2>3. QED
    BY <1>1, <2>1, <2>2, OptionAssumption DEF RewindFloor, Greatest, Cursor
<1>4. n <= StartBlock \/ n <= Latest - ReorgWindow
  <2>1. n <= Greatest(StartBlock, Latest - ReorgWindow)
    BY <1>2
  <2>2. QED
    BY <1>3, <2>1 DEF Greatest
<1>5. n \in 0..keep
  <2>1. CASE keep = Latest
    BY <1>3, <2>1
  <2>2. CASE StartBlock <= keep /\ Latest - ReorgWindow <= keep
    BY <1>3, <1>4, <2>2
  <2>3. QED
    BY <1>3, <2>1, <2>2 DEF Greatest
<1>6. n <= Greatest(StartBlock, Latest' - ReorgWindow)
  <2>1. PICK l \in Int : l = Latest' /\ (n <= StartBlock \/ n <= l - ReorgWindow)
    BY <1>3, <1>4
  <2>2. n <= Greatest(StartBlock, l - ReorgWindow)
    <3>1. n \in Int /\ StartBlock \in Int /\ l - ReorgWindow \in Int
      BY <1>3, <2>1
    <3>2. QED
      BY <2>1, <3>1, BelowGreatest
  <2>3. QED
    BY <2>1, <2>2
<1>7. QED
  BY <1>1, <1>2, <1>5, <1>6

LEMMA MineHistory ==
  ASSUME Steady, Bounds, History, NEW c \in Contents, Mine(c)
  PROVE  History'
<1>1. /\ head \in Blocks /\ head' \in Blocks /\ Latest \in Nat /\ Latest' = Latest + 1
      /\ \A n \in 0..Latest : Live(n)' = Live(n)
  BY HeadShape, Grows DEF Latest, Number
<1>2. /\ scan' = scan /\ removed' = removed /\ cursor' = cursor /\ blocks' = blocks
      /\ canonical' = canonical /\ logs' = logs /\ applied' = applied /\ UNCHANGED store
      /\ head' = Append(head, c) /\ (ForksReturn \/ Append(head, c) \notin removed)
  BY DEF Mine, store
<1>3. \A b \in LiveBlocks : b \in LiveBlocks'
  <2>1. \A b \in LiveBlocks : Number(b) \in 0..Latest
    BY <1>1, LiveBlock DEF LiveBlocks
  <2>2. QED
    BY <1>1, <2>1, KeptLive
<1>4. \A b \in LiveBlocks' : b \in LiveBlocks \/ b = head'
  <2>1. ASSUME NEW b \in LiveBlocks', b \notin LiveBlocks PROVE b = head'
    <3>1. Number(b) \in 0..Number(head') /\ b = SubSeq(head', 1, Number(b) + 1)
      BY <1>1, LiveShape DEF LiveBlocks
    <3>2. ~(Number(b) <= Latest)
      BY <1>1, <2>1, KeptLive
    <3>3. Number(b) + 1 = Len(head')
      <4>1. Len(head') \in Nat /\ Number(head') = Len(head') - 1 /\ Number(head') = Latest'
        BY <1>1, BlockShape DEF Latest, Number
      <4>2. QED
        BY <1>1, <3>1, <3>2, <4>1
    <3>4. QED
      BY <1>1, <3>1, <3>3, WholeFront
  <2>2. QED
    BY <2>1
<1>5. Settled'
  <2>1. removed' \cap LiveBlocks' = {}
    BY <1>2, <1>4 DEF Steady, History, Settled
  <2>2. QED
    BY <1>2, <1>3, <2>1 DEF History, Settled
<1>6. Tables'
  BY <1>2 DEF History, Tables, Processed
<1>7. Anchor'
  BY <1>1, <1>2, AnchorKept DEF History
<1>8. ASSUME NEW k \in Cursor, CursorSound(k), Following(k) PROVE Following(k)'
  BY <1>1, <1>8, CursorInside DEF Following
<1>9. ASSUME NEW w \in Workers PROVE Abreast(scan[w])'
  <2> DEFINE s == scan[w]
  <2>1. s = scan'[w] /\ Abreast(s) /\ WorkerSound(s) /\ s.cursor \in Cursor
    BY <1>2, WorkerShape DEF History
  <2>2. s.at \notin {"stopped", "release"} => Following(s.cursor)'
    BY <1>8, <2>1 DEF Abreast, WorkerSound
  <2>3. \A b \in canonical : b \notin LiveBlocks => b \notin LiveBlocks'
    BY <1>2, <1>5 DEF History, Settled, Bounds, TypeOK
  <2>4. s.at = "rewind" => Live(s.candidate)' = Live(s.candidate)
    BY <1>1, <2>1, CursorInside DEF WorkerSound
  <2>5. s.at \in Ranging => \A n \in s.cursor.next..s.to : Live(n)' = Live(n)
    BY <1>1, <2>1, WorkerShape DEF WorkerSound
  <2>6. QED
    BY <1>2, <1>3, <2>1, <2>2, <2>3, <2>4, <2>5 DEF Abreast, Covered
<1>10. Following(cursor)'
  BY <1>2, <1>8 DEF History, Bounds, TypeOK
<1>11. QED
  BY <1>5, <1>6, <1>7, <1>9, <1>10 DEF History

LEMMA ReorganiseHistory ==
  ASSUME Steady, Bounds, History, NEW keep \in 0..(Latest - 1), NEW c \in Contents,
         Reorganise(keep, c)
  PROVE  History'
<1> DEFINE gone == {Live(n) : n \in (keep + 1)..Latest}
           fork == Append(Live(keep), c) \o [n \in 1..(Latest - keep - 1) |-> Empty]
<1>1. /\ head \in Blocks /\ head' \in Blocks /\ Latest \in Nat /\ Latest' = Latest
      /\ keep \in Nat /\ keep <= Latest
      /\ \A n \in 0..keep : Live(n)' = Live(n)
      /\ \A n \in (keep + 1)..Latest : Live(n) \notin LiveBlocks'
  BY HeadShape, Forks DEF Latest, Number, LiveBlocks
<1>2. /\ scan' = scan /\ removed' = removed \cup gone /\ cursor' = cursor /\ blocks' = blocks
      /\ canonical' = canonical /\ logs' = logs /\ applied' = applied /\ UNCHANGED store
      /\ head' = fork /\ reorgs < MaxReorgs
  BY DEF Reorganise, store
<1>3. /\ MaxReorgs # 0 /\ Alone
      /\ \A w \in Workers : ~Reading(w)
      /\ \A n \in 1..Len(fork) : SubSeq(fork, 1, n) \notin removed
      /\ keep >= StartBlock /\ keep >= Latest - ReorgWindow
  <2>1. MaxReorgs # 0
    BY <1>2 DEF Bounds, TypeOK
  <2>2. QED
    BY <2>1 DEF Reorganise, Steady
<1>4. Settled'
  <2>1. \A b \in removed : b \notin LiveBlocks'
    BY <1>2, <1>3 DEF LiveBlocks, Fronts
  <2>2. \A b \in gone : b \notin LiveBlocks'
    BY <1>1
  <2>3. \A b \in LiveBlocks : b \in LiveBlocks' \/ b \in gone
    <3>1. ASSUME NEW b \in LiveBlocks, b \notin gone PROVE b \in LiveBlocks'
      <4>1. Number(b) \in 0..Latest /\ b = Live(Number(b))
        BY <1>1, LiveBlock DEF LiveBlocks
      <4>2. Number(b) <= keep
        BY <1>1, <3>1, <4>1
      <4>3. QED
        BY <1>1, <4>2, KeptLive
    <3>2. QED
      BY <3>1
  <2>4. QED
    BY <1>2, <1>3, <2>1, <2>2, <2>3 DEF History, Settled
<1>5. Tables'
  BY <1>2 DEF History, Tables, Processed
<1>6. Anchor'
  <2>1. Greatest(StartBlock, Latest - ReorgWindow) <= keep
    BY <1>3 DEF Greatest
  <2>2. QED
    BY <1>1, <1>2, <2>1, AnchorKept DEF History
<1>7. ASSUME NEW w \in Workers PROVE Abreast(scan[w])'
  <2>1. scan'[w] = scan[w] /\ Abreast(scan[w]) /\ scan[w].at \notin Ranging \cup {"walk", "rewind"}
    BY <1>2, <1>3 DEF History, Reading, Ranging
  <2>2. QED
    BY <1>2, <1>3, <2>1 DEF Abreast, Following
<1>8. QED
  BY <1>3, <1>4, <1>5, <1>6, <1>7 DEF History, Following

LEMMA LoadCursorHistory ==
  ASSUME Bounds, History, NEW w \in Workers, LoadCursor(w)
  PROVE  History'
<1>1. /\ \A v \in Workers \ {w} : scan'[v] = scan[v]
      /\ scan'[w].at = "lease" /\ scan'[w].cursor = cursor /\ cursor' = cursor /\ head' = head
  BY WorkerShape, StoppedShape DEF LoadCursor, ScanType, store, chain
<1>2. Following(cursor)'
  BY <1>1 DEF History, Following, Live
<1>3. Abreast(scan[w])'
  BY <1>1, <1>2 DEF Abreast, Ranging, Following
<1>4. QED
  BY <1>1, <1>3, SameHistory DEF LoadCursor

\* A scan that goes to its end, or to ask for the latest block.
LEMMA GotoHistory ==
  ASSUME Bounds, History, NEW w \in Workers, UNCHANGED <<store, chain>>,
         \/ Goto(w, "release") \/ Goto(w, "stopped")
         \/ scan[w].at = "lease" /\ Goto(w, "latest")
  PROVE  History'
<1>1. PICK at \in {"release", "stopped", "latest"} :
        Goto(w, at) /\ (at = "latest" => scan[w].at = "lease")
  OBVIOUS
<1>2. at \in ScanStates
  BY DEF ScanStates
<1>3. /\ \A v \in Workers \ {w} : scan'[v] = scan[v]
      /\ scan'[w].at = at /\ scan'[w].cursor = scan[w].cursor
      /\ cursor' = cursor /\ head' = head
  BY <1>1, <1>2, Moved DEF store, chain
<1>4. Abreast(scan[w])
  BY DEF History
<1>5. Abreast(scan[w])'
  BY <1>1, <1>3, <1>4 DEF Abreast, Ranging, Following, Live
<1>6. QED
  BY <1>3, <1>5, SameHistory

LEMMA LatestHistory ==
  ASSUME Bounds, History, NEW w \in Workers, GetLatestBlock(w)
  PROVE  History'
<1>1. /\ \A v \in Workers \ {w} : scan'[v] = scan[v]
      /\ scan'[w].at = "detect" /\ scan'[w].cursor = scan[w].cursor
      /\ cursor' = cursor /\ head' = head /\ scan[w].at = "latest" /\ Abreast(scan[w])
  BY WorkerShape DEF GetLatestBlock, ScanType, store, chain, History
<1>2. Abreast(scan[w])'
  BY <1>1 DEF Abreast, Ranging, Following, Live
<1>3. QED
  BY <1>1, <1>2, SameHistory DEF GetLatestBlock

LEMMA DetectHistory ==
  ASSUME Bounds, History, NEW w \in Workers, DetectReorg(w)
  PROVE  History'
<1> DEFINE s == scan[w]
           c == s.cursor
<1>1. /\ s.at = "detect" /\ UNCHANGED <<store, chain>> /\ head' = head /\ cursor' = cursor
      /\ canonical' = canonical /\ c \in Cursor /\ CursorSound(c) /\ s.logs = {} /\ s.headers = {}
      /\ s.ranges = <<<<c.next, s.to>>>> /\ s.to \in Int /\ head \in Blocks
      /\ (c = cursor \/ (MaxReorgs = 0 /\ c.next < cursor.next)) /\ Following(c)
  BY WorkerShape DEF DetectReorg, store, chain, History, Abreast, WorkerSound, Ranging
<1>2. CASE Goto(w, "release")
  BY <1>1, <1>2, GotoHistory
<1>3. CASE Goto(w, "logs") /\ (c.hash = NoHash \/ Live(c.next - 1) = c.hash)
  <2>1. /\ \A v \in Workers \ {w} : scan'[v] = scan[v]
        /\ scan'[w].at = "logs" /\ scan'[w].cursor = c /\ scan'[w].to = s.to
        /\ scan'[w].ranges = s.ranges /\ scan'[w].logs = {} /\ scan'[w].headers = {}
    BY <1>1, <1>3, Moved DEF ScanStates
  <2>2. c.hash # NoHash => c.hash \in LiveBlocks
    BY <1>1, <1>3, CursorInside, LiveBlock DEF LiveBlocks
  <2>3. \A n \in c.next..s.to : Covered(s.ranges, n)
    <3>1. Len(s.ranges) = 1 /\ s.ranges[1][1] = c.next /\ s.ranges[1][2] = s.to
      BY <1>1
    <3>2. QED
      BY <3>1 DEF Covered
  <2>4. Abreast(scan[w])'
    <3>1. Following(scan[w].cursor)'
      BY <1>1, <2>1 DEF Following, Live
    <3>2. QED
      BY <1>1, <2>1, <2>2, <2>3, <3>1 DEF Abreast, Ranging, LiveBlocks, Covered
  <2>5. QED
    BY <1>1, <2>1, <2>4, SameHistory
<1>4. CASE /\ ~(c.hash = NoHash \/ Live(c.next - 1) = c.hash)
           /\ scan' = [scan EXCEPT ![w].at = "walk", ![w].candidate = c.next - 1]
  <2>1. MaxReorgs # 0 /\ c = cursor
    BY <1>1, <1>4 DEF Following
  <2>2. /\ \A v \in Workers \ {w} : scan'[v] = scan[v]
        /\ scan'[w].at = "walk" /\ scan'[w].cursor = c /\ scan'[w].candidate = c.next - 1
    BY <1>4, WorkerShape DEF ScanType
  <2>3. \A b \in canonical : Number(b) <= c.next - 1
    <3>1. ASSUME NEW b \in canonical PROVE Number(b) <= c.next - 1
      <4>1. cursor.hash \in Blocks /\ Number(cursor.hash) = c.next - 1 /\ b \in Fronts(cursor.hash)
        BY <1>1, <1>4, <2>1 DEF History, Tables, Cursor
      <4>2. Number(b) \in 0..Number(cursor.hash)
        BY <4>1, LiveShape
      <4>3. QED
        BY <1>1, <4>1, <4>2 DEF Cursor
    <3>2. QED
      BY <3>1
  <2>4. \A b \in canonical : ~(Number(b) > c.next - 1)
    <3>1. ASSUME NEW b \in canonical PROVE ~(Number(b) > c.next - 1)
      <4>1. Number(b) \in Int /\ c.next - 1 \in Int
        BY <1>1, BlockShape DEF Bounds, TypeOK, Cursor
      <4>2. QED
        BY <2>3, <4>1
    <3>2. QED
      BY <3>1
  <2>5. Abreast(scan[w])'
    BY <1>1, <2>1, <2>2, <2>4 DEF Abreast, Ranging, Following
  <2>6. QED
    BY <1>1, <2>2, <2>5, SameHistory
<1>5. QED
  BY <1>2, <1>3, <1>4 DEF DetectReorg

LEMMA WalkHistory ==
  ASSUME Bounds, History, NEW w \in Workers, WalkBack(w)
  PROVE  History'
<1> DEFINE s == scan[w]
           n == s.candidate
<1>1. /\ s.at = "walk" /\ UNCHANGED <<store, chain>> /\ head' = head /\ cursor' = cursor
      /\ canonical' = canonical /\ s.cursor \in Cursor /\ CursorSound(s.cursor)
      /\ n \in 0..Latest /\ head \in Blocks
      /\ (s.cursor = cursor \/ (MaxReorgs = 0 /\ s.cursor.next < cursor.next))
      /\ MaxReorgs # 0 /\ \A b \in canonical : Number(b) > n => b \notin LiveBlocks
  <2>1. /\ s.at = "walk" /\ WorkerSound(s) /\ Abreast(s) /\ s.cursor \in Cursor /\ head \in Blocks
    BY WorkerShape DEF WalkBack, History
  <2>2. CursorSound(s.cursor)
    BY <2>1 DEF WorkerSound
  <2>3. n \in 0..Latest
    BY <2>1, CandidateInside
  <2>4. QED
    BY <2>1, <2>2, <2>3 DEF WalkBack, store, chain, Abreast
<1>2. CASE Goto(w, "release")
  BY <1>1, <1>2, GotoHistory
<1>3. CASE Live(n) \in canonical /\ Goto(w, "rewind")
  <2>1. /\ \A v \in Workers \ {w} : scan'[v] = scan[v]
        /\ scan'[w].at = "rewind" /\ scan'[w].cursor = s.cursor /\ scan'[w].candidate = n
    BY <1>3, Moved DEF ScanStates
  <2>2. Abreast(scan[w])'
    BY <1>1, <1>3, <2>1 DEF Abreast, Ranging, Following, LiveBlocks, Live, Number
  <2>3. QED
    BY <1>1, <2>1, <2>2, SameHistory
<1>4. CASE Live(n) \notin canonical /\ scan' = [scan EXCEPT ![w].candidate = n - 1]
  <2>1. /\ \A v \in Workers \ {w} : scan'[v] = scan[v]
        /\ scan'[w].at = "walk" /\ scan'[w].cursor = s.cursor /\ scan'[w].candidate = n - 1
    BY <1>1, <1>4, WorkerShape DEF ScanType
  <2>2. ASSUME NEW b \in canonical, Number(b) > n - 1 PROVE b \notin LiveBlocks
    <3>1. Number(b) \in Int /\ n \in Int
      BY <1>1, BlockShape DEF Bounds, TypeOK
    <3>2. CASE Number(b) > n
      BY <1>1, <3>2
    <3>3. CASE Number(b) = n
      BY <1>1, <1>4, <3>3, LiveBlock DEF LiveBlocks
    <3>4. QED
      BY <2>2, <3>1, <3>2, <3>3
  <2>3. Abreast(scan[w])'
    BY <1>1, <2>1, <2>2 DEF Abreast, Ranging, Following, LiveBlocks, Number
  <2>4. QED
    BY <1>1, <2>1, <2>3, SameHistory
<1>5. QED
  BY <1>2, <1>3, <1>4 DEF WalkBack

\* The rewind of a steady indexer: the ancestor it found becomes the last block.
LEMMA RewindHistory ==
  ASSUME Steady, Bounds, History, NEW w \in Workers, Rewind(w)
  PROVE  History'
<1> DEFINE s == scan[w]
           last == s.candidate
           from == last + 1
           kept == KeptBlocks(from)
<1>1. /\ s.at = "rewind" /\ Goto(w, "release") /\ head' = head /\ removed' = removed
      /\ blocks' = blocks /\ logs' = logs /\ UNCHANGED chain
      /\ s.cursor \in Cursor /\ CursorSound(s.cursor) /\ head \in Blocks
      /\ s.cursor.hash # NoHash /\ last \in 0..(s.cursor.next - 1)
      /\ MaxReorgs # 0 /\ s.cursor = cursor /\ Live(last) \in canonical
      /\ \A b \in canonical : Number(b) > last => b \notin LiveBlocks
  <2>1. s.at = "rewind" /\ WorkerSound(s) /\ Abreast(s) /\ s.cursor \in Cursor /\ head \in Blocks
    BY WorkerShape DEF Rewind, History
  <2>2. QED
    BY <2>1 DEF Rewind, chain, Abreast, WorkerSound
<1>2. last \in 0..Latest /\ Number(Live(last)) = last /\ last \in Nat /\ from - 1 = last
  <2>1. last \in 0..Latest
    BY <1>1, CandidateInside
  <2>2. QED
    BY <1>1, <2>1, LiveBlock
<1>3. CASE UNCHANGED <<cursor, canonical, applied>>
  <2>1. UNCHANGED store
    BY <1>1, <1>3 DEF store
  <2>2. QED
    BY <1>1, <2>1, GotoHistory
<1>4. CASE /\ canonical' = kept /\ applied' = KeptLogs(from)
           /\ cursor' = [next |-> from,
                         hash |-> IF \E b \in kept : Number(b) = from - 1
                                  THEN CHOOSE b \in kept : Number(b) = from - 1
                                  ELSE NoHash]
  <2>1. /\ cursor.hash \in Blocks /\ cursor.hash \in canonical
        /\ \A b \in canonical : /\ b \in Blocks /\ Number(b) \in Nat
                                 /\ Number(b) <= Number(cursor.hash)
                                 /\ b = SubSeq(cursor.hash, 1, Number(b) + 1)
    BY <1>1, LiveShape, BlockShape DEF History, Tables, Cursor
  <2>2. \A b : b \in kept <=> b \in canonical /\ Number(b) <= last
    BY <1>2, <2>1 DEF KeptBlocks
  <2>3. Live(last) \in kept
    BY <1>1, <1>2, <2>2
  <2>4. cursor'.hash = Live(last) /\ cursor'.next = last + 1
    <3>1. ASSUME NEW b \in kept, Number(b) = from - 1 PROVE b = Live(last)
      <4>1. b = SubSeq(cursor.hash, 1, last + 1)
        BY <1>2, <2>1, <2>2, <3>1
      <4>2. Live(last) = SubSeq(cursor.hash, 1, last + 1)
        BY <1>1, <1>2, <2>1
      <4>3. QED
        BY <4>1, <4>2
    <3>2. QED
      BY <1>2, <1>4, <2>3, <3>1
  <2> HIDE DEF kept
  <2>5. Settled'
    BY <1>1 DEF History, Settled, LiveBlocks
  <2>6. \A b : b \in Fronts(cursor'.hash) <=> b \in Fronts(cursor.hash) /\ Number(b) <= last
    <3>1. PICK h \in Blocks : h = cursor.hash
      BY <2>1
    <3>2. Live(last) \in Fronts(h)
      BY <1>1, <3>1 DEF History, Tables
    <3>3. QED
      BY <1>2, <2>4, <3>1, <3>2, FrontsNest
  <2>7. blocks' \ canonical' \subseteq removed'
    <3>1. ASSUME NEW b \in blocks, b \notin kept PROVE b \in removed
      <4>1. CASE b \in canonical
        <5>1. Number(b) > last
          BY <1>2, <2>1, <2>2, <3>1, <4>1
        <5>2. QED
          BY <1>1, <4>1, <5>1 DEF History, Settled
      <4>2. QED
        BY <3>1, <4>1 DEF History, Tables
    <3>2. QED
      BY <1>1, <1>4, <3>1
  <2>8. \A b : b \in applied' <=> b \in applied /\ Number(b) <= last
    <3>1. applied \subseteq canonical
      BY DEF History, Tables
    <3>2. QED
      BY <1>2, <1>4, <2>1, <3>1 DEF KeptLogs
  <2>9. applied' = logs' \cap canonical'
    BY <1>1, <1>4, <2>2, <2>8 DEF History, Tables
  <2>10. \A b \in Processed' : HasEvent(b) => b \in applied'
    <3>1. PICK h \in Blocks, g \in Blocks : h = cursor.hash /\ g = cursor'.hash
      BY <1>1, <2>1, <2>4
    <3>2. \A b \in Processed' : b \in Processed /\ Number(b) <= last
      <4>1. \A b : b \in Processed' => b \in Fronts(g) /\ Number(b) >= StartBlock
        BY <3>1, FrontsFrom, OptionAssumption DEF Processed
      <4>2. \A b : b \in Fronts(h) /\ Number(b) >= StartBlock => b \in Processed
        BY <3>1, FrontsFrom, OptionAssumption DEF Processed
      <4>3. QED
        BY <2>6, <3>1, <4>1, <4>2
    <3>3. QED
      BY <1>1, <2>8, <3>2 DEF History, Tables
  <2>11. Tables'
    <3>1. /\ cursor'.hash # NoHash /\ cursor'.hash \in canonical' /\ Number(cursor'.hash) = cursor'.next - 1
      BY <1>1, <1>2, <1>4, <2>1, <2>3, <2>4, BlockShape
    <3>2. logs' \subseteq blocks' /\ \A b \in applied' : HasEvent(b)
      BY <1>1, <2>8 DEF History, Tables
    <3>3. canonical' \subseteq Fronts(cursor'.hash)
      BY <1>4, <2>2, <2>6 DEF History, Tables
    <3>4. QED
      BY <2>7, <2>9, <2>10, <3>1, <3>2, <3>3 DEF Tables
  <2>12. Anchor'
    <3>1. PICK n \in RewindFloor(cursor.next - 1)..(cursor.next - 1) :
            Live(n) \in canonical /\ n <= Greatest(StartBlock, Latest - ReorgWindow)
      BY <1>1 DEF History, Anchor
    <3>2. cursor.next - 1 \in 0..Latest /\ Latest \in Nat /\ ReorgWindow \in Nat
      BY <1>1, CursorInside, HeadShape, OptionAssumption
    <3>3. n \in 0..Latest /\ n >= 0 /\ n >= cursor.next - 1 - ReorgWindow
      BY <3>2 DEF RewindFloor, Greatest
    <3>4. Number(Live(n)) = n /\ Live(n) \in LiveBlocks
      BY <1>1, <3>3, LiveBlock DEF LiveBlocks
    <3>5. n <= last
      BY <1>1, <1>2, <3>1, <3>3, <3>4
    <3>6. Live(n) \in canonical'
      BY <1>4, <2>2, <3>1, <3>4, <3>5
    <3>7. n \in RewindFloor(last)..last
      BY <1>1, <1>2, <3>2, <3>3, <3>5 DEF RewindFloor, Greatest
    <3>8. cursor'.next - 1 = last
      BY <1>2, <2>4
    <3>9. QED
      BY <1>1, <3>1, <3>6, <3>7, <3>8 DEF Anchor, Live, Latest, Number
  <2>13. ASSUME NEW v \in Workers PROVE Abreast(scan[v])'
    <3>1. v = w
      BY <1>1 DEF Steady, Alone
    <3>2. scan'[v].at = "release"
      BY <1>1, <3>1, Moved DEF ScanStates
    <3>3. QED
      BY <3>2 DEF Abreast, Ranging
  <2>14. QED
    BY <1>1, <2>5, <2>11, <2>12, <2>13 DEF History, Following
<1>5. QED
  BY <1>3, <1>4 DEF Rewind

\* What a scan keeps true while it reads a range.
LEMMA ReadingFacts ==
  ASSUME Bounds, History, NEW w \in Workers, scan[w].at \in Ranging
  PROVE  LET s == scan[w] IN
         /\ head \in Blocks /\ s.cursor \in Cursor /\ s.cursor.next \in Nat /\ s.to \in Int
         /\ CursorSound(s.cursor) /\ s.cursor.next <= s.to /\ s.to <= Latest /\ s.to \in 0..Latest
         /\ s.logs \subseteq Blocks /\ s.headers \subseteq Blocks
         /\ (s.cursor = cursor \/ (MaxReorgs = 0 /\ s.cursor.next < cursor.next))
         /\ Following(s.cursor) /\ (s.cursor.hash # NoHash => s.cursor.hash \in LiveBlocks)
         /\ s.logs \subseteq LiveBlocks /\ s.headers \subseteq LiveBlocks
         /\ \A b \in s.logs : HasEvent(b) /\ Number(b) \in s.cursor.next..s.to
         /\ \A n \in s.cursor.next..s.to : HasEvent(Live(n)) =>
              Live(n) \in s.logs \/ (s.at = "logs" /\ Covered(s.ranges, n))
<1>1. Abreast(scan[w])
  BY DEF History
<1>2. QED
  BY <1>1, WorkerShape DEF Abreast, WorkerSound, Ranging

LEMMA GetLogsHistory ==
  ASSUME Bounds, History, NEW w \in Workers, GetLogs(w)
  PROVE  History'
<1> DEFINE s == scan[w]
           range == Head(s.ranges)
           rest == Tail(s.ranges)
           found == {b \in {Live(n) : n \in range[1]..range[2]} : HasEvent(b)}
           at == IF rest = <<>> THEN "headers" ELSE "logs"
<1>1. /\ s.at = "logs" /\ UNCHANGED <<store, chain>> /\ head' = head /\ cursor' = cursor
      /\ s.at \in Ranging /\ s.headers \subseteq LiveBlocks
  BY ReadingFacts DEF GetLogs, store, chain, Ranging
<1>2. PICK q \in Seq(Int \X Int) : q = s.ranges /\ q # <<>>
  BY <1>1, WorkerShape DEF WorkerSound
<1>3. /\ \A v \in Workers \ {w} : scan'[v] = scan[v]
      /\ scan'[w].at = at /\ scan'[w].cursor = s.cursor /\ scan'[w].to = s.to
      /\ scan'[w].ranges = rest /\ scan'[w].logs = s.logs \cup found
      /\ scan'[w].headers = s.headers
  BY WorkerShape DEF GetLogs, ScanType
<1>4. \A n \in s.cursor.next..s.to : Covered(s.ranges, n) => n \in range[1]..range[2] \/ Covered(rest, n)
  <2>1. ASSUME NEW n, Covered(q, n) PROVE n \in q[1][1]..q[1][2] \/ Covered(Tail(q), n)
    <3>1. PICK i \in 1..Len(q) : n \in q[i][1]..q[i][2]
      BY <2>1 DEF Covered
    <3>2. CASE i = 1
      BY <3>1, <3>2
    <3>3. CASE i # 1
      <4>1. PICK len \in Nat : len = Len(q)
        OBVIOUS
      <4>2. /\ Len(Tail(q)) = len - 1
            /\ \A k \in 1..(len - 1) : Tail(q)[k] = q[k + 1]
        BY <1>2, <4>1, HeadTailProperties
      <4>3. PICK k \in 1..(len - 1) : i = k + 1
        <5>1. i \in 1..len
          BY <4>1
        <5>2. QED
          BY <3>3, <5>1
      <4>4. n \in Tail(q)[k][1]..Tail(q)[k][2] /\ k \in 1..Len(Tail(q))
        BY <3>1, <4>2, <4>3
      <4>5. QED
        BY <4>4 DEF Covered
    <3>4. QED
      BY <3>2, <3>3
  <2>2. Head(q) = q[1]
    BY <1>2
  <2>3. QED
    BY <1>2, <2>1, <2>2
<1>5. rest = <<>> => \A n : ~Covered(rest, n)
  <2>1. Len(<<>>) = 0
    OBVIOUS
  <2>2. \A n : ~Covered(<<>>, n)
    BY <2>1 DEF Covered
  <2>3. QED
    BY <2>2
<1>6. \A b \in found : b \in LiveBlocks /\ HasEvent(b)
  <2>1. ASSUME NEW n \in range[1]..range[2] PROVE n \in 0..Latest
    <3>1. Within(q[1], s) /\ q[1] \in Int \X Int /\ Head(q) = q[1]
      BY <1>1, <1>2, WorkerShape DEF WorkerSound
    <3>2. q[1][1] \in Int /\ q[1][2] \in Int /\ range = q[1]
      BY <1>2, <3>1
    <3>3. s.cursor.next \in Nat /\ s.to \in Int /\ s.to <= Latest /\ Latest \in Nat
      BY <1>1, ReadingFacts, WorkerShape
    <3>4. n \in s.cursor.next..s.to
      BY <3>1, <3>2, <3>3, InTheScan
    <3>5. PICK next \in Nat, to \in Int, top \in Nat :
            next = s.cursor.next /\ to = s.to /\ top = Latest /\ to <= top /\ n \in next..to
      BY <3>3, <3>4
    <3>6. n \in 0..top
      BY <3>5
    <3>7. QED
      BY <3>5, <3>6
  <2>2. QED
    BY <2>1, WorkerShape, LiveBlock DEF LiveBlocks
<1>7. \A n \in s.cursor.next..s.to : n \in range[1]..range[2] /\ HasEvent(Live(n)) => Live(n) \in found
  OBVIOUS
<1>8. at \in {"headers", "logs"} /\ (at = "headers" <=> rest = <<>>)
  OBVIOUS
<1> HIDE DEF found, rest, range, at
<1>9. Abreast(scan[w])'
  <2>1. /\ s.cursor = cursor \/ (MaxReorgs = 0 /\ s.cursor.next < cursor.next)
        /\ Following(s.cursor)
    BY <1>1, ReadingFacts
  <2>2. /\ s.cursor.hash # NoHash => s.cursor.hash \in LiveBlocks
        /\ s.logs \cup found \subseteq LiveBlocks
        /\ \A b \in s.logs \cup found : HasEvent(b)
    BY <1>1, <1>6, ReadingFacts
  <2>3. \A n \in s.cursor.next..s.to : HasEvent(Live(n)) =>
          Live(n) \in s.logs \cup found \/ (at = "logs" /\ Covered(rest, n))
    <3>1. \A n \in s.cursor.next..s.to : HasEvent(Live(n)) => Live(n) \in s.logs \/ Covered(s.ranges, n)
      BY <1>1, ReadingFacts
    <3>2. QED
      BY <1>4, <1>5, <1>7, <1>8, <3>1
  <2>4. LiveBlocks' = LiveBlocks /\ \A n : Live(n)' = Live(n)
    BY <1>1 DEF LiveBlocks, Live
  <2>5. Following(scan[w].cursor)'
    BY <1>3, <2>1, <2>4 DEF Following
  <2>6. QED
    BY <1>1, <1>3, <1>8, <2>1, <2>2, <2>3, <2>4, <2>5 DEF Abreast, Ranging
<1>10. QED
  BY <1>1, <1>3, <1>9, SameHistory

LEMMA RefuseHistory ==
  ASSUME Bounds, History, NEW w \in Workers, RefuseLogs(w)
  PROVE  History'
<1> DEFINE s == scan[w]
           range == Head(s.ranges)
           parts == Halves(range) \o Tail(s.ranges)
<1>1. /\ s.at = "logs" /\ UNCHANGED <<store, chain>> /\ head' = head /\ cursor' = cursor
      /\ s.at \in Ranging
  BY DEF RefuseLogs, store, chain, Ranging
<1>2. CASE Goto(w, "release")
  BY <1>1, <1>2, GotoHistory
<1>3. CASE range[1] < range[2] /\ scan' = [scan EXCEPT ![w].ranges = parts]
  <2>1. PICK q \in Seq(Int \X Int) : q = s.ranges /\ q # <<>>
    BY <1>1, WorkerShape DEF WorkerSound
  <2>2. /\ \A v \in Workers \ {w} : scan'[v] = scan[v]
        /\ scan'[w].at = "logs" /\ scan'[w].cursor = s.cursor /\ scan'[w].to = s.to
        /\ scan'[w].ranges = parts /\ scan'[w].logs = s.logs /\ scan'[w].headers = s.headers
    BY <1>1, <1>3, WorkerShape DEF ScanType
  <2>3. ASSUME NEW n, Covered(q, n) PROVE Covered(parts, n)
    <3>1. PICK i \in 1..Len(q) : n \in q[i][1]..q[i][2]
      BY <2>3 DEF Covered
    <3>2. PICK m \in Int : m = range[1] + (range[2] - range[1]) \div 2
      <4>1. PICK x \in Int \X Int : x = range
        BY <2>1, HeadTailProperties
      <4>2. PICK a \in Int, z \in Int : a = x[1] /\ z = x[2]
        OBVIOUS
      <4>3. PICK m \in Int : m = a + (z - a) \div 2
        OBVIOUS
      <4>4. range[1] = a /\ range[2] = z
        BY <4>1, <4>2
      <4> HIDE DEF range
      <4>5. QED
        BY <4>3, <4>4
    <3>3. /\ Len(parts) = Len(q) + 1 /\ Len(q) \in Nat
          /\ m \in range[1]..(range[2] - 1)
          /\ parts[1] = <<range[1], m>> /\ parts[2] = <<m + 1, range[2]>>
          /\ \A k \in 3..Len(parts) : parts[k] = q[k - 1]
          /\ range = q[1] /\ range \in Int \X Int
      <4>1. range = Head(q) /\ parts = Halves(Head(q)) \o Tail(q) /\ Head(q)[1] < Head(q)[2]
        BY <1>3, <2>1
      <4>2. m = Head(q)[1] + (Head(q)[2] - Head(q)[1]) \div 2 /\ Len(q) \in Nat
        BY <2>1, <3>2
      <4> HIDE DEF range, parts
      <4>3. QED
        BY <2>1, <4>1, <4>2, HalvesShape
    <3> HIDE DEF parts
    <3>4. CASE i = 1
      <4>1. PICK a \in Int, z \in Int : a = range[1] /\ z = range[2] /\ m \in a..(z - 1) /\ n \in a..z
        BY <3>1, <3>3, <3>4
      <4>2. n \in a..m \/ n \in (m + 1)..z
        BY <4>1
      <4>3. 1 \in 1..Len(parts) /\ 2 \in 1..Len(parts)
        BY <3>3, <3>4
      <4>4. parts[1][1] = a /\ parts[1][2] = m /\ parts[2][1] = m + 1 /\ parts[2][2] = z
        BY <3>3, <4>1
      <4>5. QED
        BY <4>2, <4>3, <4>4 DEF Covered
    <3>5. CASE i # 1
      <4>1. i + 1 \in 3..Len(parts) /\ i + 1 \in 1..Len(parts) /\ (i + 1) - 1 = i
        BY <3>3, <3>5
      <4>2. QED
        BY <3>1, <3>3, <4>1 DEF Covered
    <3>6. QED
      BY <3>4, <3>5
  <2> HIDE DEF parts
  <2>4. Abreast(scan[w])'
    <3>1. LiveBlocks' = LiveBlocks /\ \A n : Live(n)' = Live(n)
      BY <1>1 DEF LiveBlocks, Live
    <3>2. Following(scan[w].cursor)'
      BY <1>1, <2>2, <3>1, ReadingFacts DEF Following
    <3>3. \A n \in s.cursor.next..s.to : HasEvent(Live(n)) => Live(n) \in s.logs \/ Covered(parts, n)
      BY <1>1, <2>1, <2>3, ReadingFacts
    <3>4. /\ s.cursor = cursor \/ (MaxReorgs = 0 /\ s.cursor.next < cursor.next)
          /\ s.cursor.hash # NoHash => s.cursor.hash \in LiveBlocks
          /\ s.logs \subseteq LiveBlocks /\ s.headers \subseteq LiveBlocks
          /\ \A b \in s.logs : HasEvent(b)
      BY <1>1, ReadingFacts
    <3>5. QED
      BY <1>1, <2>2, <3>1, <3>2, <3>3, <3>4 DEF Abreast, Ranging
  <2>5. QED
    BY <1>1, <2>2, <2>4, SameHistory
<1>4. QED
  BY <1>2, <1>3 DEF RefuseLogs, Halves

LEMMA LoadHeaderHistory ==
  ASSUME Bounds, History, NEW w \in Workers, NEW n \in 0..MaxHeight, LoadHeader(w, n)
  PROVE  History'
<1> DEFINE s == scan[w]
<1>1. /\ s.at = "headers" /\ UNCHANGED <<store, chain>> /\ head' = head /\ cursor' = cursor
      /\ s.at \in Ranging /\ n \in ProofBlocks(s)
  BY DEF LoadHeader, store, chain, Ranging
<1>2. PICK at \in {"commit", "headers"} :
        scan' = [scan EXCEPT ![w].headers = s.headers \cup {Live(n)}, ![w].at = at]
  BY DEF LoadHeader
<1>3. /\ \A v \in Workers \ {w} : scan'[v] = scan[v]
      /\ scan'[w].at = at /\ scan'[w].cursor = s.cursor /\ scan'[w].to = s.to
      /\ scan'[w].logs = s.logs /\ scan'[w].headers = s.headers \cup {Live(n)}
  BY <1>2, WorkerShape DEF ScanType
<1>4. Live(n) \in LiveBlocks
  <2>1. n \in StartBlock..s.to
    BY <1>1, ReadingFacts, WorkerShape, ProofRange DEF CursorSound
  <2>2. n \in 0..Latest
    BY <1>1, <2>1, ReadingFacts, WorkerShape
  <2>3. QED
    BY <2>2, WorkerShape, LiveBlock DEF LiveBlocks
<1>5. LiveBlocks' = LiveBlocks /\ \A k : Live(k)' = Live(k)
  BY <1>1 DEF LiveBlocks, Live
<1>6. Following(scan[w].cursor)'
  BY <1>1, <1>3, <1>5, ReadingFacts DEF Following
<1>7. /\ s.cursor = cursor \/ (MaxReorgs = 0 /\ s.cursor.next < cursor.next)
      /\ s.cursor.hash # NoHash => s.cursor.hash \in LiveBlocks
      /\ s.logs \subseteq LiveBlocks /\ s.headers \subseteq LiveBlocks
      /\ \A b \in s.logs : HasEvent(b)
      /\ \A k \in s.cursor.next..s.to : HasEvent(Live(k)) => Live(k) \in s.logs
  BY <1>1, ReadingFacts
<1>8. Abreast(scan[w])'
  BY <1>1, <1>3, <1>4, <1>5, <1>6, <1>7 DEF Abreast, Ranging
<1>9. QED
  BY <1>1, <1>3, <1>8, SameHistory

\* What a steady indexer commits: the next blocks of the branch it is on.
LEMMA CommitHistory ==
  ASSUME Steady, Bounds, History, NEW w \in Workers, CommitRange(w)
  PROVE  History' /\ cursor'.next > cursor.next
<1> DEFINE s == scan[w]
           next == s.cursor.next
           last == Live(s.to)
<1>1. /\ s.at = "commit" /\ s.at \in Ranging /\ Goto(w, "release") /\ UNCHANGED chain
      /\ head' = head /\ removed' = removed /\ cursor.next = next /\ s.logs \subseteq s.headers
      /\ blocks' = blocks \cup s.headers /\ canonical' = canonical \cup (s.headers \ blocks)
      /\ logs' = logs \cup s.logs /\ applied' = applied \cup (s.logs \ logs)
  BY DEF CommitRange, chain, Ranging, Acceptable, CursorUnmoved, Continuous
<1>2. /\ head \in Blocks /\ next \in Nat /\ s.to \in Int /\ next <= s.to /\ s.to \in 0..Latest
      /\ CursorSound(s.cursor) /\ s.headers \subseteq LiveBlocks /\ s.logs \subseteq LiveBlocks
      /\ \A b \in s.logs : HasEvent(b) /\ Number(b) \in next..s.to
      /\ \A n \in next..s.to : HasEvent(Live(n)) => Live(n) \in s.logs
      /\ s.cursor = cursor /\ Following(cursor)
      /\ (cursor.hash # NoHash => cursor.hash \in LiveBlocks)
  <2>1. s.cursor = cursor
    BY <1>1, ReadingFacts
  <2>2. QED
    BY <1>1, <2>1, ReadingFacts
<1>3. /\ \A b \in s.headers : Number(b) \in StartBlock..s.to
      /\ \A n \in {next, s.to, RetainedFloor(next, s.to)} : n \in 0..Latest /\ Live(n) \in s.headers
  <2>1. /\ s \in ScanType /\ \A b \in s.headers : Number(b) \in ProofBlocks(s)
        /\ \A n \in ProofBlocks(s) : \E b \in s.headers : Number(b) = n
    BY <1>1, WorkerShape DEF WorkerSound
  <2>2. /\ ProofBlocks(s) \subseteq StartBlock..s.to
        /\ {next, s.to, RetainedFloor(next, s.to)} \subseteq ProofBlocks(s)
    BY <1>1, <1>2, <2>1, ProofRange DEF CursorSound
  <2>3. \A b \in s.headers : b = Live(Number(b))
    BY <1>2, LiveBlock DEF LiveBlocks
  <2>4. StartBlock \in Nat /\ Latest \in Nat
    BY HeadShape, OptionAssumption
  <2>5. QED
    BY <1>2, <2>1, <2>2, <2>3, <2>4
<1>4. /\ cursor'.next = s.to + 1 /\ cursor'.hash = last /\ last \in s.headers
      /\ last \in Blocks /\ Number(last) = s.to
  <2>1. last \in s.headers /\ last \in Blocks /\ Number(last) = s.to
    BY <1>2, <1>3, LiveBlock
  <2>2. \A b \in s.headers : Number(b) = s.to => b = last
    BY <1>2, LiveBlock DEF LiveBlocks
  <2>3. QED
    BY <2>1, <2>2 DEF CommitRange
<1> HIDE DEF last
<1>5. s.headers \subseteq canonical'
  BY <1>1, <1>2, LiveIsCanonical DEF History
<1>6. Settled'
  <2>1. LiveBlocks' = LiveBlocks
    BY <1>1 DEF LiveBlocks
  <2>2. QED
    BY <1>1, <1>2, <2>1 DEF History, Settled
<1>7. \A b : b \in Fronts(last) <=> b \in LiveBlocks /\ Number(b) <= s.to
  BY <1>2, LiveFronts DEF last
<1>8. cursor.hash # NoHash => \A b : b \in Fronts(cursor.hash) <=> b \in LiveBlocks /\ Number(b) <= next - 1
  <2>1. SUFFICES ASSUME cursor.hash # NoHash
                 PROVE  \A b : b \in Fronts(cursor.hash) <=> b \in LiveBlocks /\ Number(b) <= next - 1
    OBVIOUS
  <2>2. Number(cursor.hash) = next - 1 /\ cursor.hash \in LiveBlocks
    BY <1>1, <1>2, <2>1 DEF History, Tables
  <2>3. next - 1 \in 0..Latest /\ cursor.hash = Live(next - 1)
    BY <1>2, <2>2, LiveBlock DEF LiveBlocks
  <2>4. QED
    BY <1>2, <2>3, LiveFronts
<1>9. canonical' \subseteq Fronts(cursor'.hash)
  <2>1. ASSUME NEW b \in canonical PROVE b \in Fronts(last)
    <3>1. b \in Fronts(cursor.hash)
      BY DEF History, Tables
    <3>2. cursor.hash # NoHash
      BY <3>1 DEF Fronts, NoHash
    <3>3. b \in LiveBlocks /\ Number(b) <= next - 1
      BY <1>8, <3>1, <3>2
    <3>4. Number(b) \in Int
      BY <1>2, <3>3, LiveBlock DEF LiveBlocks
    <3>5. QED
      BY <1>2, <1>7, <3>3, <3>4
  <2>2. ASSUME NEW b \in s.headers PROVE b \in Fronts(last)
    BY <1>2, <1>3, <1>7
  <2>3. QED
    BY <1>1, <1>4, <2>1, <2>2
<1>10. applied' = logs' \cap canonical' /\ logs' \subseteq blocks' /\ blocks' \ canonical' \subseteq removed'
       /\ \A b \in applied' : HasEvent(b)
  <2>1. /\ logs \subseteq blocks /\ applied = logs \cap canonical
        /\ blocks \ canonical \subseteq removed /\ \A b \in applied : HasEvent(b)
    BY DEF History, Tables
  <2>2. QED
    BY <1>1, <1>2, <1>5, <2>1
<1>11. \A b \in Processed' : HasEvent(b) => b \in applied'
  <2>1. ASSUME NEW b \in Processed', HasEvent(b) PROVE b \in applied'
    <3>1. b \in LiveBlocks /\ Number(b) >= StartBlock /\ Number(b) <= s.to
      <4>1. PICK h \in Blocks : h = last
        BY <1>4
      <4>2. b \in Fronts(h) /\ Number(b) >= StartBlock
        BY <1>4, <4>1, FrontsFrom, OptionAssumption DEF Processed
      <4>3. QED
        BY <1>7, <4>1, <4>2
    <3>2. Number(b) \in Nat /\ b = Live(Number(b)) /\ StartBlock \in Nat
      BY <1>2, <3>1, LiveBlock, OptionAssumption DEF LiveBlocks
    <3>3. CASE Number(b) >= next
      <4>1. b \in s.logs
        BY <1>2, <2>1, <3>1, <3>2, <3>3
      <4>2. CASE b \in logs
        BY <1>1, <1>2, <4>1, <4>2, LiveIsCanonical DEF History, Tables
      <4>3. QED
        BY <1>1, <4>1, <4>2
    <3>4. CASE Number(b) < next
      <4>1. cursor.hash # NoHash
        BY <1>1, <3>1, <3>2, <3>4 DEF History, Tables
      <4>2. b \in Fronts(cursor.hash)
        BY <1>2, <1>8, <3>1, <3>2, <3>4, <4>1
      <4>3. b \in Processed
        <5>1. PICK h \in Blocks : h = cursor.hash
          BY <1>2, <4>1, LiveBlock DEF LiveBlocks
        <5>2. QED
          BY <3>1, <3>2, <4>2, <5>1, FrontsFrom DEF Processed
      <4>4. QED
        BY <1>1, <2>1, <4>1, <4>3 DEF History, Tables
    <3>5. QED
      BY <1>2, <3>2, <3>3, <3>4
  <2>2. QED
    BY <2>1
<1>12. Tables'
  <2>1. /\ cursor'.hash # NoHash /\ cursor'.hash \in canonical' /\ Number(cursor'.hash) = cursor'.next - 1
    BY <1>2, <1>4, <1>5, BlockShape
  <2>2. QED
    BY <1>9, <1>10, <1>11, <2>1 DEF Tables
<1>13. Anchor'
  <2> DEFINE n == RetainedFloor(next, s.to)
  <2>1. n \in 0..Latest /\ Live(n) \in canonical'
    BY <1>3, <1>5
  <2>2. Latest \in Nat /\ StartBlock \in Nat /\ ReorgWindow \in Nat /\ StartBlock <= next
    BY <1>2, HeadShape, OptionAssumption DEF CursorSound
  <2>3. n \in RewindFloor(s.to)..s.to
    BY <1>2, <2>2 DEF RetainedFloor, RewindFloor, Greatest
  <2>4. n <= StartBlock \/ n <= Latest - ReorgWindow
    <3>1. s.to - ReorgWindow <= Latest - ReorgWindow
      BY <1>2, <2>2
    <3>2. QED
      BY <1>2, <2>2, <3>1 DEF RetainedFloor, Greatest
  <2>5. n <= Greatest(StartBlock, Latest - ReorgWindow)
    <3>1. n \in Int /\ StartBlock \in Int /\ Latest - ReorgWindow \in Int
      BY <2>1, <2>2
    <3>2. QED
      BY <2>4, <3>1, BelowGreatest
  <2>6. cursor'.next - 1 = s.to
    BY <1>2, <1>4
  <2> HIDE DEF n
  <2>7. QED
    BY <1>1, <2>1, <2>3, <2>5, <2>6 DEF Anchor, Live, Latest, Number
<1>14. Following(cursor)'
  BY <1>1, <1>2, <1>4 DEF Following, Live, last
<1>15. cursor'.next > cursor.next
  BY <1>1, <1>2, <1>4
<1>16. ASSUME NEW v \in Workers PROVE Abreast(scan[v])'
  <2>1. CASE v = w
    <3>1. scan'[v].at = "release"
      BY <1>1, <2>1, Moved DEF ScanStates
    <3>2. QED
      BY <3>1 DEF Abreast, Ranging
  <2>2. CASE v # w
    <3>1. MaxReorgs = 0
      BY <2>2 DEF Steady, Alone
    <3>2. scan'[v] = scan[v] /\ Abreast(scan[v]) /\ scan[v].cursor.next \in Nat /\ cursor.next \in Nat
      BY <1>1, <1>2, <2>2, Moved, WorkerShape DEF ScanStates, History
    <3>3. scan[v].at \notin {"stopped", "release"} => scan[v].cursor.next < cursor'.next
      <4>1. PICK a \in Nat, b \in Nat, k \in Nat :
              a = scan[v].cursor.next /\ b = cursor.next /\ k = cursor'.next /\ k > b
        BY <1>2, <1>4, <1>15, <3>2
      <4>2. scan[v].at \notin {"stopped", "release"} => a <= b
        BY <3>2, <4>1 DEF Abreast
      <4>3. QED
        BY <4>1, <4>2
    <3>4. LiveBlocks' = LiveBlocks /\ \A k : Live(k)' = Live(k)
      BY <1>1 DEF LiveBlocks, Live
    <3>5. scan[v].at \notin {"walk", "rewind"}
      BY <3>1, <3>2 DEF Abreast
    <3>6. scan[v].at \notin {"stopped", "release"} => Following(scan[v].cursor)'
      BY <3>2, <3>4 DEF Abreast, Following
    <3>7. QED
      BY <3>1, <3>2, <3>3, <3>4, <3>5, <3>6 DEF Abreast, Ranging, Covered
  <2>3. QED
    BY <2>1, <2>2
<1>17. QED
  BY <1>6, <1>12, <1>13, <1>14, <1>15, <1>16 DEF History

LEMMA StopHistory ==
  ASSUME Bounds, History, NEW w \in Workers, scan' = [scan EXCEPT ![w] = Stopped],
         UNCHANGED <<store, chain>>
  PROVE  History'
<1>1. (\A v \in Workers \ {w} : scan'[v] = scan[v]) /\ scan'[w] = Stopped
  BY WorkerShape
<1>2. Abreast(scan[w])'
  BY <1>1, StoppedShape DEF Abreast, Ranging
<1>3. QED
  BY <1>1, <1>2, SameHistory

\* The scans, the tables and the chain are as they were.
LEMMA IdleHistory ==
  ASSUME History, UNCHANGED <<store, chain, scan>>
  PROVE  History'
<1>1. /\ head' = head /\ removed' = removed /\ cursor' = cursor /\ blocks' = blocks
      /\ canonical' = canonical /\ logs' = logs /\ applied' = applied /\ scan' = scan
  BY DEF store, chain
<1>2. Settled' /\ Tables' /\ Anchor' /\ Following(cursor)'
  BY <1>1 DEF History, Settled, LiveBlocks, Tables, Processed, Anchor, Live, Latest, Number, Following
<1>3. \A w \in Workers : Abreast(scan[w])'
  BY <1>1 DEF History, Abreast, Following, LiveBlocks, Live, Covered, Number
<1>4. QED
  BY <1>2, <1>3 DEF History

LEMMA ScanHistory ==
  ASSUME Steady, Bounds, History, NEW w \in Workers, Scan(w)
  PROVE  History'
<1>1. CASE TryAcquireLease(w)
  BY <1>1, GotoHistory DEF TryAcquireLease
<1>2. CASE RejectRange(w)
  BY <1>2, GotoHistory DEF RejectRange
<1>3. CASE ReleaseLease(w)
  BY <1>3, StopHistory DEF ReleaseLease
<1>4. QED
  BY <1>1, <1>2, <1>3, LoadCursorHistory, LatestHistory, DetectHistory, WalkHistory, RewindHistory,
     GetLogsHistory, LoadHeaderHistory, CommitHistory DEF Scan

LEMMA HistoryStep ==
  ASSUME Steady
  PROVE  Bounds /\ History /\ [Next]_vars => History'
<1> SUFFICES ASSUME Bounds, History, [Next]_vars PROVE History'
  OBVIOUS
<1>1. ASSUME NEW w \in Workers, Fault(w) PROVE History'
  BY <1>1, StopHistory, RefuseHistory DEF Fault, Crash
<1>2. CASE LeaseExpires
  BY <1>2, IdleHistory DEF LeaseExpires
<1>3. CASE UNCHANGED vars
  BY <1>3, IdleHistory DEF vars
<1>4. QED
  BY <1>1, <1>2, <1>3, MineHistory, ReorganiseHistory, ScanHistory DEF Next, ChainStep

LEMMA HistoryHolds ==
  ASSUME Steady
  PROVE  Spec => [](Bounds /\ History)
BY HistoryInit, HistoryStep, BoundsHold, PTL DEF Spec

-----------------------------------------------------------------------------
LEMMA HistoryIsApplied ==
  ASSUME Bounds, History
  PROVE  AppliedIsHistory
<1>1. /\ cursor \in Cursor /\ canonical \subseteq Fronts(cursor.hash)
      /\ canonical \subseteq {b \in Blocks : Number(b) >= StartBlock}
      /\ applied = logs \cap canonical /\ \A b \in applied : HasEvent(b)
      /\ cursor.hash # NoHash =>
           /\ cursor.hash \in Blocks /\ cursor.hash \in canonical
           /\ Number(cursor.hash) = cursor.next - 1
           /\ \A b \in Processed : HasEvent(b) => b \in applied
  BY DEF Bounds, TypeOK, History, Tables, Cursor
<1>2. cursor.hash = NoHash => canonical = {}
  BY <1>1 DEF Fronts, NoHash
<1>3. StoreConsistent
  <2>1. CASE cursor.hash = NoHash
    BY <1>1, <1>2, <2>1 DEF StoreConsistent
  <2>2. CASE cursor.hash # NoHash
    <3>1. \A b \in canonical : /\ Number(b) \in 0..Number(cursor.hash)
                               /\ b = SubSeq(cursor.hash, 1, Number(b) + 1)
      BY <1>1, <2>2, LiveShape
    <3>2. \A a, b \in canonical : Number(a) = Number(b) => a = b
      BY <3>1
    <3>3. \A b \in canonical : Number(b) < cursor.next
      BY <1>1, <2>2, <3>1 DEF Cursor
    <3>4. QED
      BY <1>1, <3>2, <3>3 DEF StoreConsistent
  <2>3. QED
    BY <2>1, <2>2
<1>4. ASSUME cursor.hash # NoHash PROVE applied = {b \in Processed : HasEvent(b)}
  <2>1. \A b : b \in Processed <=> b \in Fronts(cursor.hash) /\ Number(b) >= StartBlock
    BY <1>1, <1>4, FrontsFrom, OptionAssumption DEF Processed
  <2>2. \A b \in applied : b \in Processed /\ HasEvent(b)
    BY <1>1, <2>1
  <2>3. QED
    BY <1>1, <1>4, <2>2
<1>5. QED
  BY <1>3, <1>4 DEF AppliedIsHistory

\* The events projected are exactly those of the blocks the cursor has passed on
\* its branch, and the block table, the log table and the cursor fit together,
\* whatever is split, refused, rewound or lost in a crash.  commitRange inserts
\* with ON CONFLICT DO NOTHING and rewind only marks rows, so this is where a
\* range, a replay or a rewind that misses an event would show.
THEOREM AppliedHistory ==
  ASSUME Steady
  PROVE  Spec => []AppliedIsHistory
<1>1. Bounds /\ History => AppliedIsHistory
  BY HistoryIsApplied
<1>2. QED
  BY <1>1, HistoryHolds, PTL

\* The walk back always finds its ancestor: a canonical row of the live chain is
\* never deeper below the cursor than the window, so scanOnce never fails with
\* the reorganisation too deep.
THEOREM AncestorsKept ==
  ASSUME Steady
  PROVE  Spec => []AncestorStored
<1>1. Bounds /\ History => AncestorStored
  BY DEF History, Anchor, AncestorStored
<1>2. QED
  BY <1>1, HistoryHolds, PTL

\* Where the chain does not reorganise, no scan of any worker takes the cursor
\* back: a rewind needs a last block that differs from the live one, and a
\* commit needs the cursor it was planned from.
THEOREM CursorNeverBack ==
  ASSUME MaxReorgs = 0
  PROVE  Spec => NeverBackwards
<1>1. Steady
  BY DEF Steady
<1>2. Bounds /\ History /\ [Next]_vars => [cursor'.next >= cursor.next]_cursor
  <2> SUFFICES ASSUME Bounds, History, [Next]_vars, cursor' # cursor
               PROVE  cursor'.next >= cursor.next
    OBVIOUS
  <2>1. cursor.next \in Nat /\ cursor'.next \in Nat
    <3>1. Bounds'
      BY BoundsStep
    <3>2. QED
      BY <3>1 DEF Bounds, TypeOK, Cursor
  <2>2. PICK w \in Workers : CommitRange(w) \/ Rewind(w)
    BY DEF vars, store, Next, ChainStep, Mine, Reorganise, LeaseExpires, Scan, Fault, Crash,
       RefuseLogs, LoadCursor, TryAcquireLease, GetLatestBlock, DetectReorg, WalkBack, GetLogs,
       LoadHeader, RejectRange, ReleaseLease
  <2>3. ~Rewind(w)
    BY DEF History, Abreast, Rewind
  <2>4. QED
    BY <1>1, <2>1, <2>2, <2>3, CommitHistory
<1>3. QED
  BY <1>1, <1>2, HistoryHolds, PTL DEF Spec, NeverBackwards

-----------------------------------------------------------------------------
(* Scans succeed: what stops one is a fault or another worker, not what it *)
(* read                                                                    *)

\* No transaction is in two blocks of the live chain.
NoRepeat == \A m, n \in 1..Len(head) : head[m] = head[n] /\ head[m] # Empty => m = n

LEMMA NoRepeatStep == Bounds /\ NoRepeat /\ [Next]_vars => NoRepeat'
<1> SUFFICES ASSUME Bounds, NoRepeat, [Next]_vars PROVE NoRepeat'
  OBVIOUS
<1>1. head \in Blocks /\ head \in Seq(Contents) /\ Len(head) \in Nat /\ Latest = Len(head) - 1
  BY HeadShape, BlockShape
<1>2. ASSUME NEW c \in Contents, Mine(c) PROVE NoRepeat'
  <2>1. /\ head' = Append(head, c)
        /\ c # Empty => \A n \in 1..Len(head) : head[n] # c
    BY <1>2, NameAssumption DEF Mine, Contents
  <2>2. /\ Len(head') = Len(head) + 1 /\ head'[Len(head) + 1] = c
        /\ \A i \in 1..Len(head) : head'[i] = head[i]
    BY <1>1, <2>1, AppendProperties
  <2>3. \A i \in 1..Len(head') : i \in 1..Len(head) \/ i = Len(head) + 1
    BY <1>1, <2>2
  <2>4. QED
    BY <2>1, <2>2, <2>3 DEF NoRepeat
<1>3. ASSUME NEW keep \in 0..(Latest - 1), NEW c \in Contents, Reorganise(keep, c) PROVE NoRepeat'
  <2>1. c # Empty => \A n \in 1..(keep + 1) : head[n] # c
    BY <1>3, NameAssumption DEF Reorganise, Contents
  <2>2. /\ Len(head') = Len(head)
        /\ \A i \in 1..Len(head) : head'[i] = IF i <= keep + 1 THEN head[i]
                                               ELSE IF i = keep + 2 THEN c ELSE Empty
    BY <1>1, <1>3, Forks
  <2>3. ASSUME NEW m \in 1..Len(head), NEW n \in 1..Len(head),
               head'[m] = head'[n], head'[m] # Empty
        PROVE  m = n
    <3>1. (m <= keep + 1 /\ m \in 1..(keep + 1)) \/ m = keep + 2
      BY <1>1, <2>2, <2>3
    <3>2. (n <= keep + 1 /\ n \in 1..(keep + 1)) \/ n = keep + 2
      BY <1>1, <2>2, <2>3
    <3>3. keep + 2 \in 1..Len(head) /\ ~(keep + 2 <= keep + 1)
      BY <1>1
    <3>4. head'[keep + 2] = c
      BY <2>2, <3>3
    <3>5. CASE m <= keep + 1 /\ n <= keep + 1
      BY <2>2, <2>3, <3>5 DEF NoRepeat
    <3>6. CASE m = keep + 2 /\ n \in 1..(keep + 1) /\ n <= keep + 1
      BY <2>1, <2>2, <2>3, <3>4, <3>6
    <3>7. CASE n = keep + 2 /\ m \in 1..(keep + 1) /\ m <= keep + 1
      BY <2>1, <2>2, <2>3, <3>4, <3>7
    <3>8. QED
      BY <3>1, <3>2, <3>5, <3>6, <3>7
  <2>4. QED
    BY <2>2, <2>3 DEF NoRepeat
<1>4. ASSUME head' = head PROVE NoRepeat'
  BY <1>4 DEF NoRepeat
<1>5. ASSUME NEW w \in Workers, Scan(w) \/ Fault(w) PROVE NoRepeat'
  BY <1>4, <1>5, WorkersLeaveChain
<1>6. CASE LeaseExpires \/ UNCHANGED vars
  BY <1>4, <1>6 DEF LeaseExpires, chain, vars
<1>7. QED
  BY <1>2, <1>3, <1>5, <1>6 DEF Next, ChainStep

\* A scan that walks back does so because its last block has left the live chain.
Turned ==
  \A w \in Workers :
    scan[w].at \in {"walk", "rewind"} => scan[w].cursor.hash \notin LiveBlocks

LEMMA TurnedStep ==
  ASSUME Bounds, History, History', Turned, [Next]_vars
  PROVE  Turned'
<1> SUFFICES ASSUME NEW v \in Workers, scan'[v].at \in {"walk", "rewind"}
             PROVE  scan'[v].cursor.hash \notin LiveBlocks'
  BY DEF Turned
<1>1. removed \subseteq removed'
  <2>1. ASSUME NEW w \in Workers, Scan(w) \/ Fault(w) PROVE removed' = removed
    BY <2>1, WorkersLeaveChain
  <2>2. CASE ChainStep
    BY <2>2 DEF ChainStep, Mine, Reorganise
  <2>3. CASE LeaseExpires \/ UNCHANGED vars
    BY <2>3 DEF LeaseExpires, chain, vars
  <2>4. QED
    BY <2>1, <2>2, <2>3 DEF Next
<1>2. CASE scan[v].at \in {"walk", "rewind"} /\ scan'[v].cursor = scan[v].cursor
  <2>1. /\ Abreast(scan[v]) /\ WorkerSound(scan[v])
    BY WorkerShape DEF History
  <2>2. /\ scan[v].cursor = cursor /\ scan[v].cursor.hash # NoHash
        /\ scan[v].cursor.hash \notin LiveBlocks
    BY <1>2, <2>1 DEF Abreast, WorkerSound, Turned
  <2>3. cursor.hash \in canonical /\ canonical \subseteq blocks
    BY <2>2 DEF History, Tables, Bounds, TypeOK
  <2>4. cursor.hash \in removed
    BY <2>2, <2>3 DEF History, Settled
  <2>5. QED
    BY <1>1, <1>2, <2>2, <2>4 DEF History, Settled
<1>3. CASE DetectReorg(v)
  <2>1. /\ scan'[v].cursor = scan[v].cursor /\ head' = head /\ cursor' = cursor
        /\ Abreast(scan[v])'
    BY <1>3, WorkerShape DEF DetectReorg, Goto, ScanType, chain, store, History
  <2>2. scan[v].cursor = cursor /\ MaxReorgs # 0
    BY <2>1 DEF Abreast
  <2>3. ~(cursor.hash = NoHash \/ Live(cursor.next - 1) = cursor.hash)
    BY <1>3, <2>2, WorkerShape DEF DetectReorg, Goto, ScanType
  <2>4. Number(cursor.hash) = cursor.next - 1
    BY <2>3 DEF History, Tables
  <2>5. cursor.hash \notin LiveBlocks
    BY <2>3, <2>4, HeadShape, LiveBlock DEF LiveBlocks
  <2>6. QED
    BY <2>1, <2>2, <2>5 DEF LiveBlocks
<1>4. CASE scan' = scan
  BY <1>2, <1>4
<1>5. ASSUME NEW w \in Workers, Scan(w) \/ Fault(w), ~DetectReorg(v)
      PROVE  scan[v].at \in {"walk", "rewind"} /\ scan'[v].cursor = scan[v].cursor
  <2>1. scan \in [Workers -> ScanType]
    BY DEF Bounds
  <2>2. CASE w # v
    <3>1. scan'[v] = scan[v]
      BY <1>5, <2>1, <2>2, OthersWait
    <3>2. QED
      BY <3>1
  <2>3. CASE w = v
    <3> DEFINE Goal == scan[v].at \in {"walk", "rewind"} /\ scan'[v].cursor = scan[v].cursor
    <3>0. PICK s \in ScanType : s = scan[v]
      BY <2>1
    <3>1. ASSUME NEW at, Goto(v, at) PROVE scan'[v].at = at /\ scan'[v].cursor = s.cursor
      <4>1. scan' = [scan EXCEPT ![v] = [s EXCEPT !.at = at]]
        BY <2>1, <3>0, <3>1 DEF Goto
      <4>2. scan'[v] = [s EXCEPT !.at = at]
        BY <2>1, <4>1
      <4>3. QED
        BY <4>2 DEF ScanType
    <3>2. CASE WalkBack(v)
      <4>1. s.at = "walk"
        BY <3>0, <3>2 DEF WalkBack
      <4>2. CASE scan' = [scan EXCEPT ![v].candidate = s.candidate - 1]
        <5>1. scan'[v] = [s EXCEPT !.candidate = s.candidate - 1]
          BY <2>1, <3>0, <4>2
        <5>2. QED
          BY <3>0, <4>1, <5>1 DEF ScanType
      <4>3. QED
        BY <3>0, <3>1, <3>2, <4>1, <4>2 DEF WalkBack
    <3>3. CASE Crash(v) \/ ReleaseLease(v)
      <4>1. scan'[v] = Stopped
        BY <2>1, <3>3 DEF Crash, ReleaseLease
      <4>2. QED
        BY <4>1, StoppedShape
    <3>4. CASE LoadCursor(v)
      <4>1. scan'[v] = [Stopped EXCEPT !.at = "lease", !.cursor = cursor]
        BY <2>1, <3>4 DEF LoadCursor
      <4>2. scan'[v].at = "lease"
        BY <4>1 DEF Stopped
      <4>3. QED
        BY <4>2
    <3>5. CASE RefuseLogs(v)
      <4>1. s.at = "logs"
        BY <3>0, <3>5 DEF RefuseLogs
      <4>2. ASSUME NEW ranges, scan' = [scan EXCEPT ![v].ranges = ranges] PROVE scan'[v].at = "logs"
        <5>1. scan'[v] = [s EXCEPT !.ranges = ranges]
          BY <2>1, <3>0, <4>2
        <5>2. QED
          BY <4>1, <5>1 DEF ScanType
      <4>3. scan'[v].at \in {"logs", "release"}
        BY <3>1, <3>5, <4>2 DEF RefuseLogs
      <4>4. QED
        BY <4>3
    <3>6. CASE TryAcquireLease(v)
      BY <3>1, <3>6 DEF TryAcquireLease
    <3>7. CASE GetLatestBlock(v)
      <4>1. PICK to, ranges : scan' = [scan EXCEPT ![v].at = "detect", ![v].to = to, ![v].ranges = ranges]
        BY <3>7 DEF GetLatestBlock
      <4>2. scan'[v] = [s EXCEPT !.at = "detect", !.to = to, !.ranges = ranges]
        BY <2>1, <3>0, <4>1
      <4>3. scan'[v].at = "detect"
        BY <4>2 DEF ScanType
      <4>4. QED
        BY <4>3
    <3>8. CASE Rewind(v) \/ CommitRange(v) \/ RejectRange(v)
      BY <3>1, <3>8 DEF Rewind, CommitRange, RejectRange
    <3>9. CASE GetLogs(v)
      <4>1. PICK found, ranges, at :
              /\ scan' = [scan EXCEPT ![v].logs = @ \cup found, ![v].ranges = ranges, ![v].at = at]
              /\ at \in {"headers", "logs"}
        BY <3>9 DEF GetLogs
      <4>2. scan'[v] = [s EXCEPT !.logs = @ \cup found, !.ranges = ranges, !.at = at]
        BY <2>1, <3>0, <4>1
      <4>3. scan'[v].at = at
        BY <4>2 DEF ScanType
      <4>4. QED
        BY <4>1, <4>3
    <3>10. ASSUME NEW n \in 0..MaxHeight, LoadHeader(v, n) PROVE Goal
      <4>1. PICK headers, at :
              /\ scan' = [scan EXCEPT ![v].headers = headers, ![v].at = at]
              /\ at \in {"commit", "headers"}
        BY <3>10 DEF LoadHeader
      <4>2. scan'[v] = [s EXCEPT !.headers = headers, !.at = at]
        BY <2>1, <3>0, <4>1
      <4>3. scan'[v].at = at
        BY <4>2 DEF ScanType
      <4>4. QED
        BY <4>1, <4>3
    <3>11. QED
      BY <1>5, <2>3, <3>2, <3>3, <3>4, <3>5, <3>6, <3>7, <3>8, <3>9, <3>10 DEF Scan, Fault
  <2>4. QED
    BY <2>2, <2>3
<1>6. QED
  BY <1>2, <1>3, <1>4, <1>5 DEF Next, ChainStep, Mine, Reorganise, LeaseExpires, vars

LEMMA ScansSound ==
  ASSUME Steady
  PROVE  Spec => [](Bounds /\ History /\ NoRepeat /\ Turned)
<1>1. Init => NoRepeat /\ Turned
  <2> SUFFICES ASSUME Init PROVE NoRepeat /\ Turned
    OBVIOUS
  <2>1. 1..Len(head) = {1}
    <3>1. Len(head) = 1
      BY DEF Init
    <3>2. QED
      BY <3>1
  <2>2. \A w \in Workers : scan[w].at = "stopped"
    BY StoppedShape DEF Init
  <2>3. QED
    BY <2>1, <2>2 DEF NoRepeat, Turned
<1>2. Bounds /\ History /\ History' /\ NoRepeat /\ Turned /\ [Next]_vars => NoRepeat' /\ Turned'
  BY NoRepeatStep, TurnedStep
<1>3. QED
  BY <1>1, <1>2, HistoryHolds, PTL DEF Spec

\* The walk reaches the stored ancestor before the floor.
LEMMA WalkReaches ==
  ASSUME Bounds, History, NEW w \in Workers, scan[w].at = "walk"
  PROVE  \/ Live(scan[w].candidate) \in canonical
         \/ scan[w].candidate > RewindFloor(scan[w].cursor.next - 1)
<1> DEFINE s == scan[w]
<1>1. /\ Abreast(s) /\ WorkerSound(s) /\ head \in Blocks /\ Latest \in Nat
  BY WorkerShape DEF History
<1>2. /\ s.cursor = cursor /\ cursor.hash # NoHash /\ cursor \in Cursor /\ CursorSound(cursor)
      /\ \A b \in canonical : Number(b) > s.candidate => b \notin LiveBlocks
  BY <1>1 DEF Abreast, WorkerSound, Bounds, TypeOK
<1>3. PICK n \in RewindFloor(cursor.next - 1)..(cursor.next - 1) : Live(n) \in canonical
  BY <1>2 DEF History, Anchor
<1>4. cursor.next - 1 \in 0..Latest /\ s.candidate \in 0..Latest
  BY <1>2, CursorInside, CandidateInside
<1>5. PICK f \in Int : f = RewindFloor(cursor.next - 1) /\ f >= 0
  BY <1>4, OptionAssumption DEF RewindFloor, Greatest
<1>6. n \in 0..Latest /\ Number(Live(n)) = n /\ Live(n) \in LiveBlocks
  BY <1>1, <1>3, <1>4, <1>5, LiveBlock DEF LiveBlocks
<1>7. n <= s.candidate /\ f <= n
  BY <1>2, <1>3, <1>4, <1>5, <1>6
<1>8. n = s.candidate \/ s.candidate > f
  BY <1>4, <1>5, <1>6, <1>7
<1>9. QED
  BY <1>2, <1>3, <1>5, <1>8

\* The ancestor a rewind goes back to is below the last block.
LEMMA RewindMoves ==
  ASSUME Bounds, History, Turned, NEW w \in Workers, scan[w].at = "rewind"
  PROVE  scan[w].candidate + 1 < scan[w].cursor.next
<1> DEFINE s == scan[w]
<1>1. /\ Abreast(s) /\ WorkerSound(s) /\ head \in Blocks /\ s.cursor.next \in Nat
  BY WorkerShape DEF History
<1>2. /\ s.cursor = cursor /\ cursor.hash # NoHash /\ s.candidate \in 0..(cursor.next - 1)
      /\ Live(s.candidate) \in canonical /\ cursor.hash \notin LiveBlocks /\ cursor \in Cursor
  BY <1>1 DEF Abreast, WorkerSound, Turned, Bounds, TypeOK
<1>3. s.candidate \in 0..Latest
  BY CandidateInside
<1>4. Number(Live(s.candidate)) = s.candidate /\ Live(s.candidate) \in LiveBlocks
  BY <1>1, <1>3, LiveBlock DEF LiveBlocks
<1>5. /\ cursor.hash \in Blocks /\ Number(cursor.hash) = cursor.next - 1
      /\ Live(s.candidate) \in Fronts(cursor.hash)
  BY <1>2 DEF History, Tables, Cursor
<1>6. s.candidate # cursor.next - 1
  <2>1. SUFFICES ASSUME s.candidate = cursor.next - 1 PROVE FALSE
    OBVIOUS
  <2>2. /\ Live(s.candidate) = SubSeq(cursor.hash, 1, Number(cursor.hash) + 1)
        /\ Number(cursor.hash) + 1 = Len(cursor.hash)
    <3>1. Live(s.candidate) = SubSeq(cursor.hash, 1, Number(Live(s.candidate)) + 1)
      BY <1>5, LiveShape
    <3>2. Number(cursor.hash) + 1 = Len(cursor.hash)
      BY <1>5, BlockShape DEF Number
    <3>3. QED
      BY <1>4, <1>5, <2>1, <3>1, <3>2
  <2>3. Live(s.candidate) = cursor.hash
    BY <1>5, <2>2, WholeFront
  <2>4. QED
    BY <1>2, <1>4, <2>3
<1>7. QED
  BY <1>1, <1>2, <1>6

\* The parent of a live block is the live block below it.
LEMMA LiveParent ==
  ASSUME head \in Blocks, NEW b \in LiveBlocks, Number(b) >= 1
  PROVE  Parent(b) = Live(Number(b) - 1)
<1>1. /\ b \in Blocks /\ Number(b) \in 0..Latest /\ b = SubSeq(head, 1, Number(b) + 1)
      /\ Latest = Len(head) - 1 /\ Len(head) \in Nat
  BY LiveBlock, BlockShape DEF LiveBlocks, Latest, Number, Live
<1>2. PICK n \in Nat : n = Number(b) /\ n >= 1 /\ n + 1 \in 1..Len(head)
  BY <1>1
<1>3. Len(b) = n + 1 /\ b = SubSeq(head, 1, n + 1)
  BY <1>1, <1>2, FrontShape
<1>4. SubSeq(b, 1, n) = SubSeq(head, 1, n)
  <2>1. n \in 1..(n + 1)
    BY <1>2
  <2>2. QED
    BY <1>2, <1>3, <2>1, FrontOfFront
<1>5. Len(b) - 1 = n /\ (n - 1) + 1 = n
  BY <1>2, <1>3
<1>6. QED
  BY <1>2, <1>4, <1>5 DEF Parent, Live

\* The last block a scan goes on from, and the canonical blocks, are live.
LEMMA OnTheBranch ==
  ASSUME Bounds, History, NEW w \in Workers, scan[w].at \in Ranging
  PROVE  /\ scan[w].cursor.hash # NoHash => scan[w].cursor.hash = Live(scan[w].cursor.next - 1)
         /\ canonical \subseteq LiveBlocks
<1> DEFINE s == scan[w]
<1>1. /\ head \in Blocks /\ s.cursor \in Cursor /\ CursorSound(s.cursor)
      /\ (s.cursor = cursor \/ MaxReorgs = 0) /\ Following(s.cursor) /\ Following(cursor)
      /\ (s.cursor.hash # NoHash => s.cursor.hash \in LiveBlocks)
      /\ cursor \in Cursor /\ CursorSound(cursor)
  BY ReadingFacts DEF History, Bounds, TypeOK
<1>2. ASSUME cursor.hash # NoHash PROVE cursor.hash \in LiveBlocks
  <2>1. CASE s.cursor = cursor
    BY <1>1, <1>2, <2>1
  <2>2. CASE MaxReorgs = 0
    <3>1. cursor.next - 1 \in 0..Latest
      BY <1>1, <1>2, CursorInside
    <3>2. QED
      BY <1>1, <1>2, <2>2, <3>1, LiveBlock DEF Following, LiveBlocks
  <2>3. QED
    BY <1>1, <2>1, <2>2
<1>3. ASSUME s.cursor.hash # NoHash PROVE s.cursor.hash = Live(s.cursor.next - 1)
  <2>1. CASE MaxReorgs = 0
    BY <1>1, <1>3, <2>1 DEF Following
  <2>2. CASE s.cursor = cursor
    <3>1. Number(cursor.hash) = cursor.next - 1
      BY <1>3, <2>2 DEF History, Tables
    <3>2. QED
      BY <1>1, <1>3, <2>2, <3>1, LiveBlock DEF LiveBlocks
  <2>3. QED
    BY <1>1, <2>1, <2>2
<1>4. ASSUME NEW b \in canonical PROVE b \in LiveBlocks
  <2>1. b \in Fronts(cursor.hash)
    BY DEF History, Tables
  <2>2. cursor.hash # NoHash
    BY <2>1 DEF Fronts, NoHash
  <2>3. cursor.hash \in Fronts(head)
    BY <1>2, <2>2 DEF LiveBlocks
  <2>4. QED
    BY <1>1, <2>1, <2>3, FrontsNest DEF LiveBlocks
<1>5. QED
  BY <1>3, <1>4

\* What a scan has read of the live chain passes all checks but that of the cursor.
LEMMA RangeAccepted ==
  ASSUME Bounds, History, NoRepeat, NEW w \in Workers, scan[w].at = "commit"
  PROVE  Continuous(scan[w]) /\ NoConflict(scan[w])
<1> DEFINE s == scan[w]
<1>1. /\ s.at \in Ranging /\ WorkerSound(s) /\ head \in Blocks
      /\ s.cursor.next \in Nat /\ s.cursor.next >= StartBlock
      /\ s.headers \subseteq LiveBlocks /\ s.logs \subseteq LiveBlocks
      /\ \A b \in s.logs : HasEvent(b)
      /\ canonical \subseteq LiveBlocks
      /\ s.cursor.hash # NoHash => s.cursor.hash = Live(s.cursor.next - 1)
  BY WorkerShape, ReadingFacts, OnTheBranch DEF Ranging, CursorSound
<1>2. \A b \in LiveBlocks : Number(b) \in 0..Latest /\ b = Live(Number(b)) /\ b \in Blocks
  BY <1>1, LiveBlock DEF LiveBlocks
<1>3. \A a, b \in LiveBlocks : Number(a) = Number(b) => a = b
  BY <1>2
<1>4. Latest \in Nat
  BY HeadShape
<1>5. ASSUME NEW b \in s.headers, NEW a \in s.headers, Number(a) + 1 = Number(b) PROVE Parent(b) = a
  <2>1. Number(a) \in 0..Latest /\ a = Live(Number(a)) /\ b \in LiveBlocks /\ Number(b) \in 0..Latest
    BY <1>1, <1>2
  <2>2. Number(b) >= 1 /\ Number(b) - 1 = Number(a)
    BY <1>4, <1>5, <2>1
  <2>3. QED
    BY <1>1, <2>1, <2>2, LiveParent
<1>6. ASSUME NEW b \in s.headers, Number(b) = s.cursor.next, s.cursor.hash # NoHash
      PROVE  Parent(b) = s.cursor.hash
  <2>1. b \in LiveBlocks /\ Number(b) >= 1
    BY <1>1, <1>6, OptionAssumption
  <2>2. QED
    BY <1>1, <1>6, <2>1, LiveParent
<1>7. ASSUME NEW b \in s.logs PROVE b \in s.headers
  <2>1. Number(b) \in ProofBlocks(s)
    BY DEF ProofBlocks
  <2>2. PICK a \in s.headers : Number(a) = Number(b)
    BY <1>1, <2>1 DEF WorkerSound
  <2>3. QED
    BY <1>1, <1>3, <2>2
<1>8. ASSUME NEW b \in s.logs \ logs, NEW c \in applied PROVE TransactionOf(b) # TransactionOf(c)
  <2>1. c \in canonical /\ c \in logs /\ HasEvent(b)
    BY <1>1 DEF History, Tables
  <2>2. b \in LiveBlocks /\ c \in LiveBlocks /\ b # c
    BY <1>1, <2>1
  <2>3. PICK m \in 1..Len(head), n \in 1..Len(head) : b = SubSeq(head, 1, m) /\ c = SubSeq(head, 1, n)
    BY <2>2 DEF LiveBlocks, Fronts
  <2>4. /\ Len(b) = m /\ Len(c) = n /\ b[m] = head[m] /\ c[n] = head[n]
    BY <1>1, <2>3, FrontShape
  <2>5. m # n /\ head[m] # Empty
    BY <2>1, <2>2, <2>3, <2>4 DEF HasEvent
  <2>6. QED
    BY <2>4, <2>5 DEF NoRepeat, TransactionOf
<1>9. \A b \in s.headers, c \in canonical : Number(b) = Number(c) => b = c
  BY <1>1, <1>3
<1>10. Continuous(s)
  BY <1>5, <1>6, <1>7 DEF Continuous
<1>11. NoConflict(s)
  BY <1>8, <1>9 DEF NoConflict
<1>12. QED
  BY <1>10, <1>11

\* No scan fails for what it read: the walk back reaches the stored ancestor at the
\* floor at the latest, the incident a rewind writes has a positive depth, and
\* commitRange finds headers that follow each other, every log in one of
\* them, no other canonical block at their heights and no event that is
\* canonical elsewhere; only a cursor that another worker moved refuses a range.
THEOREM ScansSucceed ==
  ASSUME Steady
  PROVE  Spec => []NeverStuck
<1>1. Bounds /\ History /\ NoRepeat /\ Turned => NeverStuck
  BY WalkReaches, RewindMoves, RangeAccepted DEF NeverStuck
<1>2. QED
  BY <1>1, ScansSound, PTL

-----------------------------------------------------------------------------
(* The indexer is a feed                                                   *)

LEMMA FrontIs ==
  ASSUME NEW h \in Blocks, NEW b \in Blocks
  PROVE  Feeding!IsFrontOf(b, h) <=> b \in Fronts(h)
<1>1. Len(h) \in Nat /\ Len(b) \in Nat /\ Len(b) >= 1
  BY BlockShape
<1>2. ASSUME b \in Fronts(h) PROVE Feeding!IsFrontOf(b, h)
  <2>1. PICK n \in 1..Len(h) : b = SubSeq(h, 1, n)
    BY <1>2 DEF Fronts
  <2>2. Len(b) = n
    BY <2>1, FrontShape
  <2>3. QED
    BY <2>1, <2>2 DEF Feeding!IsFrontOf
<1>3. ASSUME Feeding!IsFrontOf(b, h) PROVE b \in Fronts(h)
  <2>1. PICK n \in Nat : n = Len(b)
    BY <1>1
  <2>2. b = SubSeq(h, 1, n) /\ n \in 1..Len(h)
    BY <1>1, <1>3, <2>1 DEF Feeding!IsFrontOf
  <2>3. QED
    BY <2>2 DEF Fronts
<1>4. QED
  BY <1>2, <1>3

\* Before the first block, what was fed is in front of everything.
LEMMA NothingIsFront ==
  ASSUME NEW h \in Blocks
  PROVE  Feeding!IsFrontOf(NoHash, h) /\ Len(NoHash) = 0
<1>1. h \in Seq(Contents) /\ Len(h) \in Nat
  BY BlockShape
<1>2. SubSeq(h, 1, 0) = <<>>
  BY <1>1
<1>3. QED
  BY <1>1, <1>2 DEF Feeding!IsFrontOf, NoHash

\* A commit delivers the next blocks of the live chain.
LEMMA CommitDelivers ==
  ASSUME Steady, Bounds, History, Bounds', History', NEW w \in Workers, CommitRange(w)
  PROVE  Feeding!Deliver
<1> DEFINE s == scan[w]
<1>1. s.at = "commit" /\ s.at \in Ranging /\ head' = head /\ cursor.next = s.cursor.next
  BY DEF CommitRange, chain, Ranging, Acceptable, CursorUnmoved
<1>2. /\ head \in Blocks /\ s.cursor = cursor /\ cursor.next \in Nat
      /\ (cursor.hash # NoHash => cursor.hash \in LiveBlocks /\ Number(cursor.hash) = cursor.next - 1)
      /\ cursor.next > 0
  <2>1. s.cursor = cursor /\ s.cursor.next \in Nat
    BY <1>1, ReadingFacts
  <2>2. QED
    BY <1>1, <2>1, ReadingFacts, OptionAssumption DEF History, Tables, CursorSound
<1>3. /\ cursor'.next > cursor.next /\ cursor'.next \in Nat /\ cursor' \in Cursor
  <2>1. cursor'.next > cursor.next
    BY CommitHistory
  <2>2. QED
    BY <2>1 DEF Bounds, TypeOK, Cursor
<1>4. cursor'.hash \in LiveBlocks
  <2>1. s.to \in 0..Latest /\ Live(s.to) \in Blocks
    BY <1>1, <1>2, ReadingFacts, LiveBlock
  <2>2. /\ \A n \in ProofBlocks(s) : \E b \in s.headers : Number(b) = n
        /\ s.to \in ProofBlocks(s) /\ s.headers \subseteq LiveBlocks
    BY <1>1, WorkerShape, ReadingFacts DEF WorkerSound, ProofBlocks
  <2>3. cursor'.hash \in s.headers
    BY <2>2 DEF CommitRange
  <2>4. QED
    BY <2>2, <2>3
<1>5. /\ cursor'.hash \in Blocks /\ cursor'.hash # NoHash /\ Number(cursor'.hash) = cursor'.next - 1
  <2>1. cursor'.hash \in Blocks /\ cursor'.hash # NoHash
    BY <1>2, <1>4, LiveBlock, BlockShape DEF LiveBlocks
  <2>2. QED
    BY <2>1 DEF History, Tables
<1>6. Feeding!IsFrontOf(cursor'.hash, head)
  <2>1. PICK h \in Blocks : h = cursor'.hash
    BY <1>5
  <2>2. QED
    BY <1>2, <1>4, <2>1, FrontIs DEF LiveBlocks
<1>7. Feeding!IsFrontOf(cursor.hash, head)
  <2>1. CASE cursor.hash = NoHash
    BY <1>2, <2>1, NothingIsFront
  <2>2. CASE cursor.hash # NoHash
    <3>1. PICK h \in Blocks : h = cursor.hash
      BY <1>2, <2>2, LiveBlock DEF LiveBlocks
    <3>2. QED
      BY <1>2, <2>2, <3>1, FrontIs DEF LiveBlocks
  <2>3. QED
    BY <2>1, <2>2
<1>8. PICK m \in Nat : /\ m = Len(cursor.hash)
                       /\ (cursor.hash = NoHash => m = 0)
                       /\ (cursor.hash # NoHash => m = cursor.next)
  <2>1. CASE cursor.hash = NoHash
    BY <1>2, <2>1, NothingIsFront
  <2>2. CASE cursor.hash # NoHash
    <3>1. PICK h \in Blocks : h = cursor.hash
      BY <1>2, <2>2, LiveBlock DEF LiveBlocks
    <3>2. Len(h) \in Nat /\ Len(h) - 1 = cursor.next - 1
      BY <1>2, <2>2, <3>1, BlockShape DEF Number
    <3>3. QED
      BY <1>2, <2>2, <3>1, <3>2
  <2>3. QED
    BY <2>1, <2>2
<1>9. Len(cursor'.hash) = cursor'.next
  <2>1. PICK h \in Blocks : h = cursor'.hash
    BY <1>5
  <2>2. Len(h) \in Nat /\ Len(h) - 1 = cursor'.next - 1
    BY <1>5, <2>1, BlockShape DEF Number
  <2>3. QED
    BY <1>3, <2>1, <2>2
<1>10. Len(cursor'.hash) > Len(cursor.hash)
  BY <1>2, <1>3, <1>8, <1>9
<1>11. \A b : b \in Feeding!EventsAfter(m, cursor'.hash) <=>
               b \in Processed' /\ HasEvent(b) /\ Len(b) > m
  BY DEF Feeding!EventsAfter, Processed, HasEvent
<1>12. /\ applied \subseteq applied'
       /\ \A b \in Processed' : HasEvent(b) => b \in applied'
  BY <1>5 DEF CommitRange, History, Tables
<1>13. ASSUME NEW b \in applied', b \notin applied
       PROVE  b \in Processed' /\ HasEvent(b) /\ Len(b) > m
  <2>1. /\ b \in s.logs /\ b \notin logs /\ HasEvent(b) /\ b \in Blocks
        /\ Number(b) \in s.cursor.next..s.to
    BY <1>1, <1>13, ReadingFacts DEF CommitRange
  <2>2. b \in canonical' /\ canonical' \subseteq Fronts(cursor'.hash) /\ Number(b) >= StartBlock
    BY <1>13 DEF History, Tables, Bounds, TypeOK
  <2>3. b \in Processed'
    <3>1. PICK h \in Blocks : h = cursor'.hash
      BY <1>5
    <3>2. QED
      BY <2>2, <3>1, FrontsFrom, OptionAssumption DEF Processed
  <2>4. Len(b) - 1 >= cursor.next /\ Len(b) \in Nat /\ s.to \in Int
    <3>1. s.to \in Int
      BY <1>1, ReadingFacts
    <3>2. QED
      BY <1>2, <2>1, <3>1, BlockShape DEF Number
  <2>5. QED
    BY <1>2, <1>8, <2>1, <2>3, <2>4
<1>14. applied' = applied \cup Feeding!EventsAfter(m, cursor'.hash)
  BY <1>11, <1>12, <1>13
<1>15. QED
  BY <1>1, <1>6, <1>7, <1>8, <1>10, <1>14 DEF Feeding!Deliver

\* A rewind takes back what is not live.
LEMMA RewindTakesBack ==
  ASSUME Steady, Bounds, History, Turned, NEW w \in Workers, Rewind(w)
  PROVE  Feeding!TakeBack
<1> DEFINE s == scan[w]
           last == s.candidate
           from == last + 1
           kept == KeptBlocks(from)
<1>1. /\ s.at = "rewind" /\ head' = head /\ Abreast(s) /\ WorkerSound(s) /\ head \in Blocks
  BY WorkerShape DEF Rewind, chain, History
<1>2. /\ s.cursor = cursor /\ cursor.hash # NoHash /\ cursor \in Cursor
      /\ Live(last) \in canonical /\ last \in 0..Latest
      /\ \A b \in canonical : Number(b) > last => b \notin LiveBlocks
      /\ cursor.hash \notin LiveBlocks
  BY <1>1, CandidateInside DEF Abreast, WorkerSound, Turned, Bounds, TypeOK
<1>3. from < s.cursor.next
  BY <1>1, RewindMoves
<1>4. /\ canonical' = kept /\ applied' = KeptLogs(from)
      /\ cursor'.hash = IF \E b \in kept : Number(b) = from - 1
                        THEN CHOOSE b \in kept : Number(b) = from - 1
                        ELSE NoHash
  <2>1. /\ canonical' = kept /\ applied' = KeptLogs(from)
        /\ cursor' = [next |-> from,
                      hash |-> IF \E b \in kept : Number(b) = from - 1
                               THEN CHOOSE b \in kept : Number(b) = from - 1
                               ELSE NoHash]
    BY <1>3, Zenon DEF Rewind
  <2> HIDE DEF kept, from
  <2>2. QED
    BY <2>1
<1>5. /\ Number(Live(last)) = last /\ Live(last) \in LiveBlocks /\ Live(last) \in Blocks
      /\ last \in Nat /\ from \in Nat /\ from - 1 = last
  <2>1. Latest \in Nat
    BY HeadShape
  <2>2. QED
    BY <1>1, <1>2, <2>1, LiveBlock DEF LiveBlocks
<1>6. /\ cursor.hash \in Blocks /\ canonical \subseteq Fronts(cursor.hash)
      /\ \A b \in canonical : b \in Blocks /\ Number(b) \in Nat
      /\ \A b \in canonical : b = SubSeq(cursor.hash, 1, Number(b) + 1)
  <2>1. cursor.hash \in Blocks /\ canonical \subseteq Fronts(cursor.hash)
    BY <1>2 DEF History, Tables, Cursor
  <2>2. QED
    BY <2>1, LiveShape
<1>7. cursor'.hash = Live(last)
  <2>1. Live(last) \in kept
    BY <1>2, <1>5 DEF KeptBlocks
  <2>2. ASSUME NEW b \in kept, Number(b) = last PROVE b = Live(last)
    <3>1. b \in canonical
      BY DEF KeptBlocks
    <3>2. QED
      BY <1>2, <1>5, <1>6, <2>2, <3>1
  <2> HIDE DEF kept, last
  <2>3. QED
    BY <1>4, <1>5, <2>1, <2>2
<1>a. from = last + 1
  OBVIOUS
<1> HIDE DEF last, from
<1>8. ~Feeding!IsFrontOf(cursor.hash, head)
  BY <1>1, <1>2, <1>6, FrontIs DEF LiveBlocks
<1>9. Feeding!IsFrontOf(cursor'.hash, cursor.hash) /\ Feeding!IsFrontOf(cursor'.hash, head)
  BY <1>1, <1>2, <1>5, <1>6, <1>7, FrontIs DEF LiveBlocks
<1>10. ASSUME NEW b \in applied PROVE Number(b) < from <=> Feeding!IsFrontOf(b, head)
  <2>1. b \in canonical
    BY DEF History, Tables
  <2>2. b \in Blocks /\ Number(b) \in Nat /\ b \in Fronts(cursor.hash)
    BY <1>6, <2>1
  <2>3. ASSUME Number(b) < from PROVE b \in LiveBlocks
    <3>1. Number(b) <= Number(Live(last))
      BY <1>5, <1>a, <2>2, <2>3
    <3>2. Live(last) \in Fronts(cursor.hash)
      BY <1>2, <1>6
    <3>3. b \in Fronts(Live(last))
      BY <1>6, <2>2, <3>1, <3>2, FrontsNest
    <3>4. Live(last) \in Fronts(head)
      BY <1>5 DEF LiveBlocks
    <3>5. QED
      BY <1>1, <3>3, <3>4, FrontsNest DEF LiveBlocks
  <2>4. ASSUME ~(Number(b) < from) PROVE b \notin LiveBlocks
    <3>1. Number(b) > last
      BY <1>5, <1>a, <2>2, <2>4
    <3>2. QED
      BY <1>2, <2>1, <3>1
  <2>5. QED
    BY <1>1, <2>2, <2>3, <2>4, FrontIs DEF LiveBlocks
<1>11. applied' = {b \in applied : Feeding!IsFrontOf(b, head)}
  BY <1>4, <1>10 DEF KeptLogs
<1>12. QED
  BY <1>1, <1>8, <1>9, <1>11 DEF Feeding!TakeBack

\* When Steady, and only then (README, section 3, says what happens otherwise), the
\* indexer implements the feed: every commit of any worker delivers the next events
\* of the live chain, every rewind takes back exactly the events that are not live
\* any more, and no other step changes what is projected.
THEOREM IsFeed ==
  ASSUME Steady
  PROVE  Spec => ImplementsFeed
<1>1. Init => Feeding!Init
  BY DEF Init, Feeding!Init, NoHash
<1>2. Bounds /\ History /\ Turned /\ Bounds' /\ History' /\ [Next]_vars
        => [Feeding!Next]_(Feeding!vars)
  <2> SUFFICES ASSUME Bounds, History, Turned, Bounds', History', [Next]_vars
               PROVE  Feeding!Next
    OBVIOUS
  <2>1. ASSUME NEW w \in Workers, CommitRange(w) PROVE Feeding!Next
    BY <2>1, CommitDelivers DEF Feeding!Next
  <2>2. ASSUME NEW w \in Workers, Rewind(w) PROVE Feeding!Next
    BY <2>2, RewindTakesBack DEF Feeding!Next
  <2>3. ASSUME cursor' = cursor, applied' = applied PROVE Feeding!Next
    BY <2>3 DEF Feeding!Next, Feeding!ChainMoves
  <2>4. QED
    BY <2>1, <2>2, <2>3 DEF vars, store, Next, ChainStep, Mine, Reorganise, LeaseExpires, Scan, Fault,
       Crash, RefuseLogs, LoadCursor, TryAcquireLease, GetLatestBlock, DetectReorg, WalkBack,
       GetLogs, LoadHeader, RejectRange, ReleaseLease
<1>3. QED
  BY <1>1, <1>2, ScansSound, PTL DEF Spec, ImplementsFeed, Feeding!Spec

=============================================================================

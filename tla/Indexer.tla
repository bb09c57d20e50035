------------------------------- MODULE Indexer ------------------------------
(***************************************************************************)
(* The event indexer: scanner.ts over the cursor, lease, block and log     *)
(* tables of indexer-store.ts, against a chain that grows and reorganises. *)
(*                                                                         *)
(* A block is identified with its history: the sequence of the contents of *)
(* the blocks from genesis to it.  So equal hashes are equal histories,    *)
(* the parent is the front, and a block that a reorganisation removed can  *)
(* come back.  A block holds one transaction with one contract event, or   *)
(* nothing.                                                                *)
(*                                                                         *)
(* Every RPC call and every database statement or transaction of a scan is *)
(* a step of its own; other workers, the chain and crashes come between.   *)
(***************************************************************************)
EXTENDS Integers, Sequences, FiniteSets

CONSTANTS
  Workers,            \* indexer processes, by LEASE_OWNER
  NoWorker,           \* leaseOwner is null
  Transactions,
  Empty,              \* the content of a block without contract events
  StartBlock, ConfirmationDepth, ReorgWindow, MaxBlockRange

\* What the chain and the machines may do in an instance.
CONSTANTS
  MaxHeight, MaxReorgs, MaxFaults,
  ForksReturn,        \* a removed block may become part of the chain again
  ReorgsDuringScans   \* the chain may reorganise between two calls of a scan

ASSUME NameAssumption ==
  NoWorker \notin Workers /\ Empty \notin Transactions
ASSUME OptionAssumption ==
  /\ StartBlock \in Nat \ {0} /\ ConfirmationDepth \in Nat \ {0}
  /\ ReorgWindow \in Nat \ {0, 1} /\ MaxBlockRange \in Nat \ {0}
ASSUME ChainAssumption ==
  /\ MaxHeight \in Nat /\ MaxReorgs \in Nat /\ MaxFaults \in Nat
  /\ ForksReturn \in BOOLEAN /\ ReorgsDuringScans \in BOOLEAN

VARIABLES
  head,               \* the latest block of the live chain
  removed,            \* blocks that reorganisations removed
  cursor,             \* indexer_cursors: next block, hash of the last processed
  leaseOwner, leaseExpired,
  blocks, canonical,  \* indexed_blocks, and the rows with canonical = true
  logs, applied,      \* canonical_logs, and the rows canonical and projected
  scan,               \* what each worker knows in the scan it is in
  reorgs, faults

store == <<cursor, blocks, canonical, logs, applied>>
lease == <<leaseOwner, leaseExpired>>
chain == <<head, removed, reorgs>>
vars == <<store, lease, chain, scan, faults>>

NoHash == <<>>
Number(b) == Len(b) - 1
Live(n) == SubSeq(head, 1, n + 1)
Latest == Number(head)
HasEvent(b) == b[Len(b)] # Empty
TransactionOf(b) == b[Len(b)]
Least(a, b) == IF a <= b THEN a ELSE b
Greatest(a, b) == IF a >= b THEN a ELSE b

Contents == Transactions \cup {Empty}
Blocks == UNION {[1..n -> Contents] : n \in 1..(MaxHeight + 1)}
Cursor == [next: Nat, hash: Blocks \cup {NoHash}]

Stopped == [at |-> "stopped", cursor |-> [next |-> 0, hash |-> NoHash],
            candidate |-> 0, to |-> 0, ranges |-> <<>>, logs |-> {}, headers |-> {}]

Init ==
  /\ head = <<Empty>> /\ removed = {} /\ reorgs = 0 /\ faults = 0
  /\ cursor = [next |-> StartBlock, hash |-> NoHash]
  /\ leaseOwner = NoWorker /\ leaseExpired = FALSE
  /\ blocks = {} /\ canonical = {} /\ logs = {} /\ applied = {}
  /\ scan = [w \in Workers |-> Stopped]

-----------------------------------------------------------------------------
(* Chain and machines *)

Mine(c) ==
  /\ Latest < MaxHeight
  /\ c \in Transactions => \A n \in 1..Len(head) : head[n] # c
  /\ LET b == Append(head, c) IN
       /\ ForksReturn \/ b \notin removed
       /\ head' = b
  /\ UNCHANGED <<removed, reorgs, store, lease, scan, faults>>

\* A scan that has asked the chain something and not yet written its result.
Reading(w) == scan[w].at \in {"detect", "walk", "rewind", "logs", "headers", "commit"}

\* The blocks after `keep` give way to as many others.  The start block is final,
\* and a reorganisation removes no more blocks than the window.
Reorganise(keep, c) ==
  LET fork == Append(Live(keep), c)
             \o [n \in 1..(Latest - keep - 1) |-> Empty] IN
  /\ reorgs < MaxReorgs
  /\ ReorgsDuringScans \/ \A w \in Workers : ~Reading(w)
  /\ keep >= StartBlock /\ keep >= Latest - ReorgWindow
  /\ c # head[keep + 2]
  /\ c \in Transactions => \A n \in 1..(keep + 1) : head[n] # c
  /\ ForksReturn \/ \A n \in 1..Len(fork) : SubSeq(fork, 1, n) \notin removed
  /\ head' = fork
  /\ removed' = removed \cup {Live(n) : n \in (keep + 1)..Latest}
  /\ reorgs' = reorgs + 1
  /\ UNCHANGED <<store, lease, scan, faults>>

\* leaseTtlMs passes; the owner may be slow or dead.
LeaseExpires ==
  /\ leaseOwner # NoWorker /\ ~leaseExpired
  /\ leaseExpired' = TRUE
  /\ UNCHANGED <<store, leaseOwner, chain, scan, faults>>

Crash(w) ==
  /\ faults < MaxFaults /\ scan[w].at # "stopped"
  /\ scan' = [scan EXCEPT ![w] = Stopped]
  /\ faults' = faults + 1
  /\ UNCHANGED <<store, lease, chain>>

-----------------------------------------------------------------------------
(* One scan of a worker: scanOnce                                            *)

Goto(w, at) == scan' = [scan EXCEPT ![w].at = at]

\* The cursor is read before the lease is asked for.
LoadCursor(w) ==
  /\ scan[w].at = "stopped"
  /\ scan' = [scan EXCEPT ![w] = [Stopped EXCEPT !.at = "lease", !.cursor = cursor]]
  /\ UNCHANGED <<store, lease, chain, faults>>

LeaseFree(w) == leaseOwner \in {NoWorker, w} \/ leaseExpired

TryAcquireLease(w) ==
  /\ scan[w].at = "lease"
  /\ IF LeaseFree(w)
     THEN leaseOwner' = w /\ leaseExpired' = FALSE /\ Goto(w, "latest")
     ELSE UNCHANGED lease /\ Goto(w, "stopped")
  /\ UNCHANGED <<store, chain, faults>>

SafeHead(latest) == IF latest >= ConfirmationDepth THEN latest - ConfirmationDepth + 1 ELSE -1

\* The range this scan will read, up to the safe head of the chain as it is now.
GetLatestBlock(w) ==
  LET next == scan[w].cursor.next
      to == Least(next + MaxBlockRange - 1, SafeHead(Latest)) IN
  /\ scan[w].at = "latest"
  /\ scan' = [scan EXCEPT ![w].at = "detect", ![w].to = to, ![w].ranges = <<<<next, to>>>>]
  /\ UNCHANGED <<store, lease, chain, faults>>

\* Compares the last processed block of the loaded cursor with the live one.
DetectReorg(w) ==
  LET c == scan[w].cursor IN
  /\ scan[w].at = "detect"
  /\ IF c.hash = NoHash \/ Live(c.next - 1) = c.hash
     THEN Goto(w, IF scan[w].to < c.next THEN "release" ELSE "logs")
     ELSE scan' = [scan EXCEPT ![w].at = "walk", ![w].candidate = c.next - 1]
  /\ UNCHANGED <<store, lease, chain, faults>>

RewindFloor_TooHigh(last) == Greatest(last - ReorgWindow + 1, 0)
RewindFloor(last) == Greatest(last - ReorgWindow, 0)

\* One candidate for the common ancestor; past the floor the scan fails.
WalkBack(w) ==
  LET n == scan[w].candidate IN
  /\ scan[w].at = "walk"
  /\ IF Live(n) \in canonical
     THEN Goto(w, "rewind")
     ELSE IF n > RewindFloor(scan[w].cursor.next - 1)
     THEN scan' = [scan EXCEPT ![w].candidate = n - 1]
     ELSE Goto(w, "release")
  /\ UNCHANGED <<store, lease, chain, faults>>

KeptBlocks(from) == {b \in canonical : Number(b) < from}

KeptLogs_All(from) == applied
KeptLogs(from) == {b \in applied : Number(b) < from}

\* The store puts the cursor back to the ancestor, whoever owns the lease now
\* and wherever the cursor is now, and takes back what came after it.  An incident
\* of depth zero violates a constraint of its table and nothing is written.
Rewind(w) ==
  LET from == scan[w].candidate + 1
      kept == KeptBlocks(from) IN
  /\ scan[w].at = "rewind"
  /\ IF from < scan[w].cursor.next
     THEN /\ canonical' = kept
          /\ applied' = KeptLogs(from)
          /\ cursor' = [next |-> from,
                        hash |-> IF \E b \in kept : Number(b) = from - 1
                                 THEN CHOOSE b \in kept : Number(b) = from - 1
                                 ELSE NoHash]
     ELSE UNCHANGED <<cursor, canonical, applied>>
  /\ Goto(w, "release")
  /\ UNCHANGED <<blocks, logs, lease, chain, faults>>

\* getLogsAdaptive: the next range to ask for.
GetLogs(w) ==
  LET range == Head(scan[w].ranges)
      rest == Tail(scan[w].ranges)
      found == {b \in {Live(n) : n \in range[1]..range[2]} : HasEvent(b)} IN
  /\ scan[w].at = "logs"
  /\ scan' = [scan EXCEPT ![w].logs = @ \cup found, ![w].ranges = rest,
                          ![w].at = IF rest = <<>> THEN "headers" ELSE "logs"]
  /\ UNCHANGED <<store, lease, chain, faults>>

\* A refused range is split; one block that is refused ends the scan.
RefuseLogs(w) ==
  LET range == Head(scan[w].ranges)
      middle == range[1] + (range[2] - range[1]) \div 2 IN
  /\ scan[w].at = "logs" /\ faults < MaxFaults
  /\ faults' = faults + 1
  /\ IF range[1] < range[2]
     THEN scan' = [scan EXCEPT ![w].ranges =
            <<<<range[1], middle>>, <<middle + 1, range[2]>>>> \o Tail(@)]
     ELSE Goto(w, "release")
  /\ UNCHANGED <<store, lease, chain>>

RetainedFloor_Omitted(from, to) == from
RetainedFloor_BelowStart(from, to) == Greatest(to - ReorgWindow, 0)
RetainedFloor(from, to) == Greatest(StartBlock, Greatest(to - ReorgWindow, 0))

ProofBlocks(s) ==
  {RetainedFloor(s.cursor.next, s.to), s.cursor.next, s.to} \cup {Number(b) : b \in s.logs}

\* One header; the headers are asked for concurrently, so they come in any order.
LoadHeader(w, n) ==
  LET headers == scan[w].headers \cup {Live(n)} IN
  /\ scan[w].at = "headers"
  /\ n \in ProofBlocks(scan[w]) /\ \A b \in scan[w].headers : Number(b) # n
  /\ scan' = [scan EXCEPT ![w].headers = headers,
       ![w].at = IF Cardinality(headers) = Cardinality(ProofBlocks(scan[w]))
                 THEN "commit" ELSE "headers"]
  /\ UNCHANGED <<store, lease, chain, faults>>

Parent(b) == SubSeq(b, 1, Len(b) - 1)

\* Neighbouring headers are parent and child, the first of the range follows
\* the last processed block, and every log is in a loaded block.
Continuous(s) ==
  /\ \A b \in s.headers :
       /\ \A a \in s.headers : Number(a) + 1 = Number(b) => Parent(b) = a
       /\ Number(b) = s.cursor.next /\ s.cursor.hash # NoHash => Parent(b) = s.cursor.hash
  /\ s.logs \subseteq s.headers

CursorUnmoved_Unchecked(s) == TRUE
CursorUnmoved(s) == cursor.next = s.cursor.next

\* What commitRange refuses: another canonical block at a height, and an event
\* that is canonical in another block already.
NoConflict(s) ==
  /\ \A b \in s.headers, c \in canonical : Number(b) = Number(c) => b = c
  /\ \A b \in s.logs \ logs, c \in applied : TransactionOf(b) # TransactionOf(c)

Acceptable(s) == Continuous(s) /\ CursorUnmoved(s) /\ NoConflict(s)

\* Rows that are there already, canonical or not, are left as they are.
CommitRange(w) ==
  LET s == scan[w] IN
  /\ s.at = "commit" /\ Acceptable(s)
  /\ blocks' = blocks \cup s.headers
  /\ canonical' = canonical \cup (s.headers \ blocks)
  /\ logs' = logs \cup s.logs
  /\ applied' = applied \cup (s.logs \ logs)
  /\ cursor' = [next |-> s.to + 1,
                hash |-> CHOOSE b \in s.headers : Number(b) = s.to]
  /\ Goto(w, "release")
  /\ UNCHANGED <<lease, chain, faults>>

RejectRange(w) ==
  /\ scan[w].at = "commit" /\ ~Acceptable(scan[w])
  /\ Goto(w, "release")
  /\ UNCHANGED <<store, lease, chain, faults>>

ReleaseLease(w) ==
  /\ scan[w].at = "release"
  /\ IF leaseOwner = w
     THEN leaseOwner' = NoWorker /\ leaseExpired' = FALSE
     ELSE UNCHANGED lease
  /\ scan' = [scan EXCEPT ![w] = Stopped]
  /\ UNCHANGED <<store, chain, faults>>

Scan(w) ==
  \/ LoadCursor(w) \/ TryAcquireLease(w) \/ GetLatestBlock(w) \/ DetectReorg(w)
  \/ WalkBack(w) \/ Rewind(w) \/ GetLogs(w)
  \/ \E n \in 0..MaxHeight : LoadHeader(w, n)
  \/ CommitRange(w) \/ RejectRange(w) \/ ReleaseLease(w)

Fault(w) == Crash(w) \/ RefuseLogs(w)

ChainStep ==
  \/ \E c \in Contents : Mine(c)
  \/ \E keep \in 0..(Latest - 1), c \in Contents : Reorganise(keep, c)

Next == ChainStep \/ LeaseExpires \/ \E w \in Workers : Scan(w) \/ Fault(w)

Spec == Init /\ [][Next]_vars

\* The run loop starts scans for ever, and time passes; the chain owes nothing.
Fairness == WF_vars(LeaseExpires) /\ \A w \in Workers : WF_vars(Scan(w))

FairSpec == Spec /\ Fairness

-----------------------------------------------------------------------------
(* Properties *)

ScanStates == {"stopped", "lease", "latest", "detect", "walk", "rewind", "logs",
               "headers", "commit", "release"}

\* Every variable has its type, and no stored block is older than the contracts.
TypeOK ==
  /\ head \in Blocks /\ removed \subseteq Blocks
  /\ cursor \in Cursor
  /\ leaseOwner \in Workers \cup {NoWorker} /\ leaseExpired \in BOOLEAN
  /\ blocks \subseteq {b \in Blocks : Number(b) >= StartBlock}
  /\ canonical \subseteq blocks
  /\ logs \subseteq Blocks /\ applied \subseteq logs
  /\ \A w \in Workers : /\ scan[w].at \in ScanStates /\ scan[w].cursor \in Cursor
                         /\ scan[w].logs \subseteq Blocks /\ scan[w].headers \subseteq Blocks
  /\ reorgs \in 0..MaxReorgs /\ faults \in 0..MaxFaults

Processed == {SubSeq(cursor.hash, 1, n) : n \in (StartBlock + 1)..Len(cursor.hash)}

\* The tables fit together: one canonical block per height, none at or after the
\* next one, the last processed among them, and every applied event in one.
StoreConsistent ==
  /\ \A a, b \in canonical : Number(a) = Number(b) => a = b
  /\ \A b \in canonical : Number(b) < cursor.next
  /\ cursor.hash # NoHash => /\ cursor.hash \in canonical
                             /\ Number(cursor.hash) = cursor.next - 1
  /\ applied \subseteq canonical

\* What is projected is what happened: the events applied are exactly those of
\* the blocks the cursor has passed, on the branch it is on.  Like ImplementsFeed
\* this is so when Steady.
AppliedIsHistory ==
  /\ StoreConsistent
  /\ cursor.hash # NoHash => applied = {b \in Processed : HasEvent(b)}

\* What was applied, read as a feed of the live chain.
Feeding == INSTANCE Feed WITH
  First <- StartBlock + 1, Quiet <- Empty, live <- head, seen <- cursor.hash, fed <- applied

\* Where the indexer keeps its promises: the chain never reorganises, or one
\* worker scans alone, no reorganisation falls between the first read of a scan and
\* its write, and no removed block comes back.
Alone == \A v, w \in Workers : v = w
Steady == MaxReorgs = 0 \/ (~ForksReturn /\ ~ReorgsDuringScans /\ Alone)

\* In an instance that is Steady, the indexer keeps the promise of the feed: a
\* commit applies the next events of the live chain, a rewind takes back those that
\* are not on it, at whatever depth and however far the scans lag behind; nothing
\* else changes what is applied.  Without Steady it does not: a range whose logs
\* and headers are of two branches leaves an event of the new branch out.
ImplementsFeed == Feeding!Spec

\* A common ancestor is stored for every reorganisation the window covers, as the
\* comment at scanner.ts:403 says; it is not when removed blocks come back.
AncestorStored ==
  cursor.hash # NoHash =>
    \E n \in RewindFloor(cursor.next - 1)..(cursor.next - 1) : Live(n) \in canonical

\* A scan never fails for what it read: a walk back finds its ancestor before it
\* passes the floor, a rewind always takes something back (an incident has a positive
\* depth), and a range is refused only because the cursor moved meanwhile.
NeverStuck ==
  \A w \in Workers : LET s == scan[w] IN
    /\ s.at = "walk" => \/ Live(s.candidate) \in canonical
                        \/ s.candidate > RewindFloor(s.cursor.next - 1)
    /\ s.at = "rewind" => s.candidate + 1 < s.cursor.next
    /\ s.at = "commit" => Continuous(s) /\ NoConflict(s)

\* Without reorganisations the cursor never goes back.
NeverBackwards == [][cursor'.next >= cursor.next]_cursor

\* Once the chain stops changing, the indexer has processed all of it that is
\* confirmed, and stays so.
CaughtUp == cursor.next > SafeHead(Latest)
            /\ (cursor.hash # NoHash => cursor.hash = Live(cursor.next - 1))
EventuallyCaughtUp == <>[]CaughtUp
=============================================================================

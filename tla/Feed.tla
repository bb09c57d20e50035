-------------------------------- MODULE Feed --------------------------------
(***************************************************************************)
(* What a consumer of a chain that reorganises is promised, without how    *)
(* the chain is read: it is fed the events of the live chain in order,     *)
(* each once and none left out; when the chain turns away from what was    *)
(* fed, exactly the events that are no longer on it are taken back, down   *)
(* to a block of both branches, and no other event ever is.                *)
(* A block is its history, the sequence of contents from genesis to it.    *)
(* Indexer implements it (Indexer!ImplementsFeed).                         *)
(***************************************************************************)
EXTENDS Integers, Sequences

CONSTANTS
  First,  \* how long the history of the first block of interest is
  Quiet   \* the content of a block without events

VARIABLES
  live,   \* the latest block of the chain
  seen,   \* the block up to which the consumer was fed; <<>> before the first
  fed     \* the blocks whose events the consumer has now

vars == <<live, seen, fed>>

IsFrontOf(b, h) == Len(b) <= Len(h) /\ b = SubSeq(h, 1, Len(b))

\* The events of a block and its ancestors that come after the first n blocks.
EventsAfter(n, h) ==
  {b \in {SubSeq(h, 1, k) : k \in First..Len(h)} : Len(b) > n /\ b[Len(b)] # Quiet}

Init == seen = <<>> /\ fed = {}

\* The chain grows or reorganises; the consumer does not notice yet.
ChainMoves == UNCHANGED <<seen, fed>>

\* The next blocks of the live chain.
Deliver ==
  /\ IsFrontOf(seen, live) /\ IsFrontOf(seen', live)
  /\ Len(seen') > Len(seen)
  /\ fed' = fed \cup EventsAfter(Len(seen), seen')
  /\ UNCHANGED live

\* Back to a block of both branches, once what was fed last is not live.
TakeBack ==
  /\ ~IsFrontOf(seen, live)
  /\ IsFrontOf(seen', seen) /\ IsFrontOf(seen', live)
  /\ fed' = {b \in fed : IsFrontOf(b, live)}
  /\ UNCHANGED live

Next == ChainMoves \/ Deliver \/ TakeBack

Spec == Init /\ [][Next]_vars
=============================================================================

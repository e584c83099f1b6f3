---------------------------- MODULE IndexCursor ----------------------------
(***************************************************************************)
(* What the chain indexers of all workers promise together, for one chain: *)
(* the cursor lastIndexedBlock advances only over blocks that were handed  *)
(* to the queues for every subscription that was there before the block.   *)
(* ChainIndexer is the implementation; ContractEvents builds on this one.  *)
(***************************************************************************)
EXTENDS Integers

CONSTANTS
  Subs,      \* subscription ids, each created and deleted at most once
  Wants      \* Wants[s]: what s processes, a non-empty subset of Kinds

Kinds == {"logs", "receipts"}

ASSUME CursorAssumption == Wants \in [Subs -> (SUBSET Kinds) \ {{}}]

NoRow == -1   \* the chain has no row in chain_indexers

VARIABLES
  head,    \* the chain: its latest block
  row,     \* chain_indexers.lastIndexedBlock, or NoRow
  live,    \* contract_subscriptions with deletedAt = null
  born,    \* the head when the subscription was created (history)
  handed   \* block ranges added to the queues, with their filters (history)

cursorVars == <<head, row, live, born, handed>>

BlockRange(k, f, t, S) == [kind |-> k, from |-> f, to |-> t, subs |-> S]

\* Block b was handed to the queue of kind k with a filter for subscription s.
Covered(k, s, b) ==
  \E r \in handed : r.kind = k /\ s \in r.subs /\ r.from <= b /\ b <= r.to

CursorInit ==
  /\ head = 0 /\ row = NoRow
  /\ live = {} /\ born = [s \in Subs |-> 0]
  /\ handed = {}

NewBlock ==
  /\ head' = head + 1
  /\ UNCHANGED <<row, live, born, handed>>

Subscribe(s) ==
  /\ s \notin live
  /\ live' = live \cup {s}
  /\ born' = [born EXCEPT ![s] = head]
  /\ UNCHANGED <<head, row, handed>>

Unsubscribe(s) ==
  /\ s \in live
  /\ live' = live \ {s}
  /\ UNCHANGED <<head, row, born, handed>>

\* Existing blocks f..t go to the queue of kind k for the subscriptions S: everyone
\* who wants that kind and was there before the last of these blocks.
Hand(k, f, t, S) ==
  /\ f < t /\ t <= head
  /\ \A s \in live : k \in Wants[s] /\ born[s] < t => s \in S
  /\ \A s \in S : k \in Wants[s]
  /\ handed' = handed \cup {BlockRange(k, f, t, S)}
  /\ UNCHANGED <<head, row, live, born>>

\* The cursor passes blocks that everyone they concern was handed.
Advance(t) ==
  /\ row # NoRow /\ row < t /\ t <= head
  /\ \A s \in live : \A k \in Wants[s] : \A b \in (row + 1)..t :
       born[s] < b => Covered(k, s, b)
  /\ row' = t
  /\ UNCHANGED <<head, live, born, handed>>

\* While nobody is subscribed the cursor may be put anywhere on the chain.
Restart(h) ==
  /\ live = {} /\ h \in 0..head
  /\ row' = h
  /\ UNCHANGED <<head, live, born, handed>>

CursorNext ==
  \/ NewBlock
  \/ \E s \in Subs : Subscribe(s) \/ Unsubscribe(s)
  \/ \E k \in Kinds, f \in 0..head, t \in 0..head, S \in SUBSET Subs : Hand(k, f, t, S)
  \/ \E t \in 0..head : Advance(t)
  \/ \E h \in 0..head : Restart(h)

CursorSpec == CursorInit /\ [][CursorNext]_cursorVars

\* No block is skipped: every block up to lastIndexedBlock that was produced after
\* a live subscription was created has been handed over for that subscription.
NoGap ==
  \A s \in live : \A k \in Wants[s] : \A b \in 0..head :
    born[s] < b /\ b <= row => Covered(k, s, b)
=============================================================================

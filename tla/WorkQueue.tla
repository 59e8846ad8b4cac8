------------------------------ MODULE WorkQueue ------------------------------
(***************************************************************************)
(* The rate-limited work queue of client-go, as the pod controller uses    *)
(* it (three of them, pod.go:68-70 and 221-223).  The library is not part  *)
(* of the repository; what is here is what its callers rely on.            *)
(*                                                                         *)
(* A queue is a record of                                                  *)
(*   waiting     keys added with a delay that has not elapsed,             *)
(*   dirty       keys that need processing,                                *)
(*   processing  keys a worker has taken and not yet handed back,          *)
(*   failures    the rate limiter's count per key, which NumRequeues reads.*)
(* A key that is dirty and being processed is handed out again only after  *)
(* Done: two workers never hold one key.  The order of the keys and the    *)
(* length of the delays are left out.  The library's count has no limit;   *)
(* here it stays at MaxRequeues, as its only reader asks whether it is     *)
(* below that, and Forget sets it to 0.                                    *)
(***************************************************************************)
EXTENDS Naturals

CONSTANTS Keys,         \* the keys that can be queued
          MaxRequeues   \* handleQueueItem's limit on retries, a natural number

Queue == [waiting    : SUBSET Keys,
          dirty      : SUBSET Keys,
          processing : SUBSET Keys,
          failures   : [Keys -> 0..MaxRequeues]]

EmptyQueue == [waiting    |-> {},
               dirty      |-> {},
               processing |-> {},
               failures   |-> [k \in Keys |-> 0]]

Add(q, k) == [q EXCEPT !.dirty = @ \cup {k}]

AddAfter(q, k) == [q EXCEPT !.waiting = @ \cup {k}]

\* The delay of a waiting key has elapsed: the delaying queue Adds it.
DelayElapsed(q, k) == [Add(q, k) EXCEPT !.waiting = @ \ {k}]

NumRequeues(q, k) == q.failures[k]

\* Every rate limiter delays the key by a positive time and counts the call.
AddRateLimited(q, k) ==
    [AddAfter(q, k) EXCEPT !.failures[k] = IF @ < MaxRequeues THEN @ + 1 ELSE @]

\* Resets the count only: a key that waits or is dirty stays so.
Forget(q, k) == [q EXCEPT !.failures[k] = 0]

CanGet(q, k) == k \in q.dirty \ q.processing

Get(q, k) == [q EXCEPT !.dirty = @ \ {k}, !.processing = @ \cup {k}]

Done(q, k) == [q EXCEPT !.processing = @ \ {k}]

\* Some worker will be handed k without anybody adding it again.
Pending(q, k) == k \in q.waiting \cup q.dirty
==============================================================================

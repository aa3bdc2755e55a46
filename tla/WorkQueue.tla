----------------------------- MODULE WorkQueue ------------------------------
(***************************************************************************)
(* internal/queue/queue.go: keys planned for a start time, workers that    *)
(* hand them to a handler, keys asked for again while they are handled,    *)
(* retries of a handler that failed, and Forget.                           *)
(*                                                                         *)
(* What the code does with q.lock held is one step.  Time is in ticks.     *)
(***************************************************************************)
EXTENDS Integers, SequencesExt

CONSTANTS
    Keys, Workers,
    Delays,       \* delays callers ask for
    Backoffs,     \* delays the rate limiter may impose (external)
    MaxRetries,   \* queue.go:35
    MaxTime,      \* bound: the time after which nothing is enqueued any more
    None

ASSUME WorkQueueAssumption == /\ Delays \subseteq Nat /\ Backoffs \subseteq Nat
                              /\ MaxRetries \in Nat \ {0} /\ MaxTime \in Nat
                              /\ None \notin Nat \cup Keys \cup {"enqueued", "forgotten"}

VARIABLES
    now,
    items,       \* q.items, in order; q.itemsInQueue has the same items by key
    processing,  \* processing[k]: the item of k in q.itemsBeingProcessed, or None
    worker,      \* worker[w]: where it is, the key it handles, the timer it waits for
    wakeup,      \* there is a token in q.wakeupCh
    cancelled,   \* the context of Run is done
    last         \* history: what happened to the key last

vars == <<now, items, processing, worker, wakeup, cancelled, last>>
queueVars == <<items, processing, wakeup, last>>

Items == [key : Keys, at : Nat, requeues : 0..(MaxRetries - 1)]
Processed == [requeues : 0..(MaxRetries - 1), redirtiedAt : Nat \cup {None}, forget : BOOLEAN]
ASSUME NoneIsNotProcessed == None \notin Processed
Pcs == {"off", "acquire", "check", "wait", "handle"}

TypeOK == /\ now \in 0..MaxTime
          /\ items \in Seq(Items)
          /\ processing \in [Keys -> Processed \cup {None}]
          /\ worker \in [Workers -> [pc : Pcs, key : Keys \cup {None}, timer : Nat \cup {None}]]
          /\ wakeup \in BOOLEAN /\ cancelled \in BOOLEAN
          /\ last \in [Keys -> {"enqueued", "forgotten", "started", None}]

Init == /\ now = 0
        /\ items = <<>>
        /\ processing = [k \in Keys |-> None]
        /\ worker = [w \in Workers |-> [pc |-> "off", key |-> None, timer |-> None]]
        /\ wakeup = FALSE
        /\ cancelled = FALSE
        /\ last = [k \in Keys |-> None]

-----------------------------------------------------------------------------
(* The list of items. *)

Queued == {items[i].key : i \in DOMAIN items}

(* The last of the first n items that starts before t; 0 when there is none. *)
Before(s, n, t) == Max({0} \cup {i \in 1..n : s[i].at < t})

(* Mutant: a new item goes to the back whatever its start time. *)
InsertAtBack(s, item) == Append(s, item)

Insert(s, item) == InsertAt(s, Before(s, Len(s), item.at) + 1, item)

AdjustPosition(s, i, when) ==
    IF when > s[i].at THEN s
    ELSE InsertAt(RemoveAt(s, i), Before(s, i - 1, when) + 1, [s[i] EXCEPT !.at = when])

IndexOf(k) == CHOOSE i \in DOMAIN items : items[i].key = k

-----------------------------------------------------------------------------
(* The callers. *)

(* Mutant: a Forget that came before the key was asked for again still counts. *)
RedirtiedButForgotten(item, when) ==
    [item EXCEPT !.redirtiedAt = IF @ = None \/ when < @ THEN when ELSE @]

Redirtied(item, when) ==
    [item EXCEPT !.redirtiedAt = IF @ = None \/ when < @ THEN when ELSE @,
                 !.forget = FALSE]

(* insert: a key in progress is redirtied, a queued one is brought forward,   *)
(* any other is planned for its first start.                                  *)
Add(k, first, when) ==
    /\ now < MaxTime /\ first <= MaxTime
    /\ wakeup' = TRUE
    /\ last' = [last EXCEPT ![k] = "enqueued"]
    /\ \/ /\ processing[k] # None
          /\ processing' = [processing EXCEPT ![k] = Redirtied(@, when)]
          /\ UNCHANGED items
       \/ /\ processing[k] = None /\ k \in Queued
          /\ items' = AdjustPosition(items, IndexOf(k), when)
          /\ UNCHANGED processing
       \/ /\ processing[k] = None /\ k \notin Queued
          /\ items' = Insert(items, [key |-> k, at |-> first, requeues |-> 0])
          /\ UNCHANGED processing
    /\ UNCHANGED <<now, worker, cancelled>>

(* The rate limiter delays a key that is neither queued nor in progress, and  *)
(* no other.                                                                  *)
Enqueue(k) == \E backoff \in Backoffs : Add(k, now + backoff, now)

(* With delay 0 this is EnqueueWithoutRateLimit. *)
EnqueueWithoutRateLimitWithDelay(k, after) == Add(k, now + after, now + after)

(* Mutant: a key in progress is taken off the books. *)
ForgetInProgress(k) ==
    /\ last' = [last EXCEPT ![k] = "forgotten"]
    /\ items' = IF k \in Queued THEN RemoveAt(items, IndexOf(k)) ELSE items
    /\ processing' = [processing EXCEPT ![k] = None]
    /\ UNCHANGED <<now, worker, wakeup, cancelled>>

Forget(k) ==
    /\ last' = [last EXCEPT ![k] = "forgotten"]
    /\ \/ /\ k \in Queued
          /\ items' = RemoveAt(items, IndexOf(k))
          /\ UNCHANGED processing
       \/ /\ k \notin Queued /\ processing[k] # None
          /\ processing' = [processing EXCEPT ![k].forget = TRUE]
          /\ UNCHANGED items
       \/ /\ k \notin Queued /\ processing[k] = None
          /\ UNCHANGED <<items, processing>>
    /\ UNCHANGED <<now, worker, wakeup, cancelled>>

Run == /\ ~cancelled
       /\ \A w \in Workers : worker[w].pc = "off"
       /\ worker' = [w \in Workers |-> [worker[w] EXCEPT !.pc = "acquire"]]
       /\ UNCHANGED <<now, cancelled, queueVars>>

Cancel == /\ ~cancelled
          /\ cancelled' = TRUE
          /\ UNCHANGED <<now, worker, queueVars>>

Tick == /\ now < MaxTime
        /\ now' = now + 1
        /\ UNCHANGED <<worker, cancelled, queueVars>>

-----------------------------------------------------------------------------
(* The workers. *)

At(w, pc) == worker[w].pc = pc
Becomes(w, pc, key, timer) ==
    worker' = [worker EXCEPT ![w] = [pc |-> pc, key |-> key, timer |-> timer]]

(* waitForNextItemSemaphore is held in getNextItem. *)
Acquire(w) == /\ At(w, "acquire") /\ ~cancelled
              /\ \A v \in Workers : worker[v].pc \notin {"check", "wait"}
              /\ Becomes(w, "check", None, None)
              /\ UNCHANGED <<now, cancelled, queueVars>>

Due == items # <<>> /\ Head(items).at <= now

(* The first item's time has come: it is taken, and the handler called. *)
Take(w) ==
    /\ At(w, "check")
    /\ Due
    /\ LET item == Head(items)
       IN  /\ processing' = [processing EXCEPT ![item.key] =
                 [requeues |-> item.requeues, redirtiedAt |-> None, forget |-> FALSE]]
           /\ last' = [last EXCEPT ![item.key] = "started"]
           /\ Becomes(w, "handle", item.key, None)
    /\ items' = Tail(items)
    /\ UNCHANGED <<now, wakeup, cancelled>>

(* Mutant: only a token ends the wait. *)
WaitForToken(w) ==
    /\ At(w, "check")
    /\ ~Due
    /\ Becomes(w, "wait", None, None)
    /\ UNCHANGED <<now, cancelled, queueVars>>

(* There is nothing to do yet: the worker waits for a token, or for a timer. *)
Wait(w) ==
    /\ At(w, "check")
    /\ ~Due
    /\ Becomes(w, "wait", None, IF items = <<>> THEN None ELSE Head(items).at)
    /\ UNCHANGED <<now, cancelled, queueVars>>

WakeUp(w) ==
    /\ At(w, "wait")
    /\ \/ wakeup /\ wakeup' = FALSE
       \/ worker[w].timer # None /\ worker[w].timer <= now /\ UNCHANGED wakeup
    /\ Becomes(w, "check", None, None)
    /\ UNCHANGED <<now, items, processing, cancelled, last>>

(* Mutant: a worker that waits does not look at the context. *)
StopBeforeWait(w) == /\ At(w, "acquire")
                     /\ cancelled
                     /\ Becomes(w, "off", None, None)
                     /\ UNCHANGED <<now, cancelled, queueVars>>

Stop(w) == /\ At(w, "acquire") \/ At(w, "wait")
           /\ cancelled
           /\ Becomes(w, "off", None, None)
           /\ UNCHANGED <<now, cancelled, queueVars>>

(* Mutant: one retry too many. *)
RetryOnceMore(item) == item.requeues + 1 <= MaxRetries

(* DefaultRetryFunc *)
ShouldRetry(item) == item.requeues + 1 < MaxRetries

(* Mutant: a requeued item wakes nobody up. *)
RequeueQuietly(item) == /\ items' = Insert(items, item)
                        /\ UNCHANGED wakeup

(* The handler has returned: the key is no longer in progress, nor is it      *)
(* queued, and insert plans it anew.                                          *)
Requeue(item) == /\ items' = Insert(items, item)
                 /\ wakeup' = TRUE

Handled(w, failed) ==
    LET k == worker[w].key
        item == processing[k]
        retry == failed /\ ShouldRetry(item)
    IN  /\ At(w, "handle")
        /\ processing' = [processing EXCEPT ![k] = None]
        /\ \/ /\ item.forget \/ (~retry /\ item.redirtiedAt = None)
              /\ UNCHANGED <<items, wakeup>>
           \/ /\ ~item.forget /\ retry
              /\ \E backoff \in Backoffs :
                    /\ now + backoff <= MaxTime
                    /\ Requeue([key |-> k, at |-> now + backoff,
                                requeues |-> item.requeues + 1])
           \/ /\ ~item.forget /\ ~retry /\ item.redirtiedAt # None
              /\ Requeue([key |-> k, at |-> item.redirtiedAt, requeues |-> 0])
        /\ Becomes(w, "acquire", None, None)
        /\ UNCHANGED <<now, cancelled, last>>

Work(w) == Acquire(w) \/ Take(w) \/ Wait(w) \/ WakeUp(w) \/ Stop(w) \/ Handled(w, FALSE)

Next == \/ \E k \in Keys : \/ Enqueue(k) \/ Forget(k)
                           \/ \E d \in Delays : EnqueueWithoutRateLimitWithDelay(k, d)
        \/ \E w \in Workers : Work(w) \/ Handled(w, TRUE)
        \/ Run \/ Cancel \/ Tick

Spec == Init /\ [][Next]_vars

(* Fairness: time passes, Run is called, the workers run and handlers return. *)
Fairness == WF_vars(Tick) /\ WF_vars(Run) /\ \A w \in Workers : WF_vars(Work(w))

FairSpec == Spec /\ Fairness

-----------------------------------------------------------------------------
(* Properties. *)

(* Items are in order of their start time, each key at most once: only the    *)
(* first is ever looked at.                                                   *)
Ordered == \A i, j \in DOMAIN items :
               i < j => items[i].at <= items[j].at /\ items[i].key # items[j].key

(* No key is handled by two workers, none is queued while it is handled, and  *)
(* what is marked as being processed is what a worker handles.                *)
OneAtATime ==
    /\ \A v, w \in Workers : v # w /\ At(v, "handle") /\ At(w, "handle")
                                => worker[v].key # worker[w].key
    /\ \A k \in Keys : processing[k] # None <=>
                           \E w \in Workers : At(w, "handle") /\ worker[w].key = k
    /\ \A k \in Queued : processing[k] = None

(* A key that was enqueued and not started since is planned: redirtied, it    *)
(* survives success, failure and the last retry of the run in progress.       *)
NoWishLost == \A k \in Keys : last[k] = "enqueued" =>
    \/ k \in Queued
    \/ processing[k] # None /\ processing[k].redirtiedAt # None /\ ~processing[k].forget

(* A key that was forgotten and not enqueued since is not planned, and the    *)
(* run in progress will not plan it, even if it fails.                        *)
ForgottenIsGone == \A k \in Keys : last[k] = "forgotten" =>
    k \notin Queued /\ (processing[k] # None => processing[k].forget)

(* The last of Enqueue and Forget wins, however they alternate with the run   *)
(* of a worker.                                                               *)
LastWishWins == NoWishLost /\ ForgottenIsGone

(* No wake-up is lost: a worker that waits looks again when the first item is *)
(* due at the latest, whatever was enqueued, requeued or forgotten meanwhile. *)
LooksInTime == \A w \in Workers : At(w, "wait") /\ items # <<>> =>
    wakeup \/ (worker[w].timer # None /\ worker[w].timer <= Head(items).at)

(* A key that was enqueued is handled, unless it is forgotten or Run is over. *)
EnqueuedIsHandled == \A k \in Keys :
    last[k] = "enqueued" ~> last[k] # "enqueued" \/ cancelled

(* When the context is cancelled every worker stops, and Run returns.         *)
RunReturns == cancelled ~> \A w \in Workers : worker[w].pc = "off"
=============================================================================

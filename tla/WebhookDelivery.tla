--------------------------- MODULE WebhookDelivery ---------------------------
(***************************************************************************)
(* The webhook queue of src/portal/webhooks/worker.py: rows of             *)
(* webhook_deliveries that a polling worker claims in batches, posts to    *)
(* the subscriber's URL and settles, and the endpoints that create and     *)
(* delete the subscriptions meanwhile.                                     *)
(*                                                                         *)
(* A batch is ONE database transaction: claim, every post and every result *)
(* commit together or not at all, while the posts themselves cannot be     *)
(* taken back.  `work', `seen' and `wrote' are what the transaction holds  *)
(* and nobody else can see.                                                *)
(***************************************************************************)
EXTENDS Naturals, FiniteSets

CONSTANTS Subs,          \* ids of webhook_subscriptions rows, in the order of creation
          Urls,          \* target_url values
          Deliveries,    \* ids of webhook_deliveries rows
          MaxAttempts,   \* 4: posts before a delivery is dead
          TripAfter,     \* 5: dead deliveries in a row that deactivate
          BatchSize,     \* 10: rows claimed at once
          MaxSubs,       \* settings.max_webhook_subscriptions
          MaxRollbacks   \* bound on transactions that are lost

ASSUME WebhookAssumption ==
  /\ Subs \subseteq Nat \ {0}
  /\ {MaxAttempts, TripAfter, BatchSize, MaxSubs} \subseteq Nat \ {0}
  /\ MaxRollbacks \in Nat
  /\ IsFiniteSet(Deliveries) /\ "none" \notin Urls

VARIABLES
  sub,        \* [Subs -> subscription row]
  delivery,   \* [Deliveries -> delivery row]
  due,        \* the deliveries whose next_attempt_at has come
  work,       \* the claimed rows as the worker's transaction has them
  settled,    \* the claimed rows process_delivery is done with
  current,    \* the delivery that was posted and is not settled yet
  seen,       \* the subscriptions in the session's identity map
  wrote,      \* its changes to subscriptions
  held,       \* the subscriptions whose change was flushed: their rows are locked
  taken,      \* how often each delivery's receiver accepted it
  unsure,     \* how often the worker did not learn of that
  rollbacks   \* transactions lost so far

committed == <<sub, delivery, due>>
txn == <<work, settled, current, seen, wrote, held>>
receiver == <<taken, unsure>>
webhookVars == <<sub, delivery, due, work, settled, current, seen, wrote, held,
                 taken, unsure, rollbacks>>

NoSub == [url |-> "none", active |-> FALSE, failures |-> 0]
Absent == [sub |-> 0, status |-> "absent", attempts |-> 0]
Idle == [id |-> "none", answer |-> "none"]
Nothing == [d \in {} |-> Absent]
Exists(s) == sub[s] # NoSub
Open == {"pending", "failed"}
Settled == {"succeeded", "dead", "deleted"}

SubRow == {NoSub} \cup [url : Urls, active : BOOLEAN, failures : 0..TripAfter]
DeliveryRow == [sub : Subs \cup {0}, attempts : 0..MaxAttempts,
                status : Open \cup Settled \cup {"absent"}]

\* Rows from before create_webhook reused a URL's subscription: two may share a URL.
WebhookInit ==
  /\ sub \in [Subs -> {NoSub} \cup [url : Urls, active : {TRUE}, failures : {0}]]
  /\ delivery = [d \in Deliveries |-> Absent]
  /\ due = {}
  /\ work = Nothing /\ settled = {} /\ current = Idle
  /\ seen = Nothing /\ wrote = Nothing /\ held = {}
  /\ taken = [d \in Deliveries |-> 0] /\ unsure = [d \in Deliveries |-> 0]
  /\ rollbacks = 0

-----------------------------------------------------------------------------
(* Requests: each is one short transaction, which waits for rows that the  *)
(* worker's transaction has changed.                                       *)

OfSub(s) == {d \in Deliveries : delivery[d].sub = s}
Claimed(s) == OfSub(s) \cap DOMAIN work # {}

\* enqueue_webhook: one pending row per active subscription, due at once.
Enqueue(fresh) ==
  LET active == {s \in Subs : sub[s].active} IN
  /\ \A d \in DOMAIN fresh : delivery[d] = Absent
  /\ {fresh[d] : d \in DOMAIN fresh} = active
  /\ Cardinality(DOMAIN fresh) = Cardinality(active)
  /\ active # {}
  /\ delivery' = [d \in Deliveries |-> IF d \in DOMAIN fresh
                    THEN [sub |-> fresh[d], status |-> "pending", attempts |-> 0]
                    ELSE delivery[d]]
  /\ due' = due \cup DOMAIN fresh
  /\ UNCHANGED <<sub, txn, receiver, rollbacks>>

ActiveSubs == {s \in Subs : sub[s].active}

\* A new subscription, within the quota of active ones.
CreateNew(s, url) ==
  /\ ~ Exists(s) /\ \A o \in Subs : sub[o].url # url
  /\ Cardinality(ActiveSubs) < MaxSubs
  /\ sub' = [sub EXCEPT ![s] = [url |-> url, active |-> TRUE, failures |-> 0]]
  /\ UNCHANGED <<delivery, due, txn, receiver, rollbacks>>

\* Registering a known URL again: its oldest row survives, is reactivated with a
\* clean record and inherits the deliveries of the duplicates.
CreateAgain(s) ==
  LET same == {o \in Subs : Exists(o) /\ sub[o].url = sub[s].url}
      extra == same \ {s}
      others == Cardinality(ActiveSubs \ same) IN
  /\ Exists(s) /\ \A o \in same : s <= o
  /\ same \cap held = {} /\ \A o \in extra : ~ Claimed(o)
  /\ sub[s].active \/ others + 1 <= MaxSubs
  /\ sub' = [o \in Subs |-> IF o = s THEN [sub[s] EXCEPT !.active = TRUE, !.failures = 0]
                            ELSE IF o \in extra THEN NoSub ELSE sub[o]]
  /\ delivery' = [d \in Deliveries |-> IF delivery[d].sub \in extra
                    THEN [delivery[d] EXCEPT !.sub = s] ELSE delivery[d]]
  /\ UNCHANGED <<due, txn, receiver, rollbacks>>

\* Deleting a subscription takes its deliveries with it (ON DELETE CASCADE).
DeleteSub(s) ==
  /\ Exists(s) /\ s \notin held /\ ~ Claimed(s)
  /\ sub' = [sub EXCEPT ![s] = NoSub]
  /\ delivery' = [d \in Deliveries |-> IF delivery[d].sub = s
                    THEN [delivery[d] EXCEPT !.sub = 0, !.status = "deleted"] ELSE delivery[d]]
  /\ due' = due \ OfSub(s)
  /\ UNCHANGED <<txn, receiver, rollbacks>>

-----------------------------------------------------------------------------
(* The worker: webhook_worker_loop and process_delivery.                   *)

Ready == {d \in due : delivery[d].status \in Open}

\* The claim: up to a batch of due rows, marked "delivering" in the transaction.
Claim(batch) ==
  /\ work = Nothing /\ batch \subseteq Ready /\ batch # {}
  /\ Cardinality(batch) = BatchSize \/ (batch = Ready /\ Cardinality(batch) < BatchSize)
  /\ work' = [d \in batch |-> [delivery[d] EXCEPT !.status = "delivering"]]
  /\ UNCHANGED <<committed, settled, current, seen, wrote, held, receiver, rollbacks>>

\* A claimed row or a changed subscription is written out before the next statement.
Flushed == held = DOMAIN wrote
Flush ==
  /\ ~ Flushed
  /\ held' = DOMAIN wrote
  /\ UNCHANGED <<committed, work, settled, current, seen, wrote, receiver, rollbacks>>

\* What the session returns for a subscription: the object it already has, else the row.
Loaded(s) == IF s \in DOMAIN seen THEN seen[s] ELSE sub[s]
With(f, k, v) == [x \in DOMAIN f \cup {k} |-> IF x = k THEN v ELSE f[x]]
Settle(d, status) == /\ work' = [work EXCEPT ![d].status = status]
                     /\ settled' = settled \cup {d}

Unsettled(d) == d \in DOMAIN work \ settled /\ current = Idle /\ Flushed

\* The subscription is inactive, or (for any URL, at any time) validate_ssrf refuses
\* the address it resolves to now.
Abandon(d) ==
  /\ Unsettled(d)
  /\ Settle(d, "dead")
  /\ seen' = With(seen, work[d].sub, Loaded(work[d].sub))
  /\ UNCHANGED <<committed, current, wrote, held, receiver, rollbacks>>

\* The post.  The receiver may take it and the answer still be lost.
Post(d, accepted, answer) ==
  /\ Unsettled(d) /\ Loaded(work[d].sub).active
  /\ answer = "ok" => accepted
  /\ work' = [work EXCEPT ![d].attempts = @ + 1]
  /\ taken' = IF accepted THEN [taken EXCEPT ![d] = @ + 1] ELSE taken
  /\ unsure' = IF accepted /\ answer # "ok" THEN [unsure EXCEPT ![d] = @ + 1] ELSE unsure
  /\ seen' = With(seen, work[d].sub, Loaded(work[d].sub))
  /\ current' = [id |-> d, answer |-> answer]
  /\ UNCHANGED <<committed, settled, wrote, held, rollbacks>>

\* The transaction's change to a subscription touches only the columns it changed.
Applied(row, change) == [row EXCEPT !.failures = change.failures,
                                    !.active = @ /\ ~ change.tripped]
\* db.refresh(sub): the committed row, with the transaction's own change to it.
Refreshed(s) == IF s \in DOMAIN wrote THEN Applied(sub[s], wrote[s]) ELSE sub[s]

Changes(s, change) == /\ seen' = With(seen, s, Applied(Refreshed(s), change))
                      /\ wrote' = With(wrote, s, change)
                      /\ held' = held \ {s}

Succeed(d) ==
  LET s == work[d].sub IN
  /\ current = [id |-> d, answer |-> "ok"]
  /\ Settle(d, "succeeded")
  /\ IF Refreshed(s).failures > 0
       THEN Changes(s, [failures |-> 0, tripped |-> FALSE])
       ELSE seen' = With(seen, s, Refreshed(s)) /\ UNCHANGED <<wrote, held>>
  /\ current' = Idle
  /\ UNCHANGED <<committed, receiver, rollbacks>>

\* The fourth failure: the delivery is dead and counts against its subscription,
\* which the fifth such delivery in a row deactivates.
Exhausted(row) == row.attempts >= MaxAttempts
Counted(row) == [failures |-> row.failures + 1, tripped |-> row.failures + 1 >= TripAfter]

GiveUp(d) ==
  LET s == work[d].sub IN
  /\ current = [id |-> d, answer |-> "error"] /\ Exhausted(work[d])
  /\ Settle(d, "dead")
  /\ Changes(s, Counted(Refreshed(s)))
  /\ current' = Idle
  /\ UNCHANGED <<committed, receiver, rollbacks>>

Retry(d) ==
  /\ current = [id |-> d, answer |-> "error"] /\ ~ Exhausted(work[d])
  /\ Settle(d, "failed")
  /\ current' = Idle
  /\ UNCHANGED <<committed, seen, wrote, held, receiver, rollbacks>>

\* The end of the transaction, with next_attempt_at moved on for what failed.
Closed == /\ work' = Nothing /\ settled' = {} /\ current' = Idle
          /\ seen' = Nothing /\ wrote' = Nothing /\ held' = {}

(* slip: what became of the deliveries is not written *)
CommitLosesRows ==
  /\ work # Nothing /\ settled = DOMAIN work /\ Flushed
  /\ sub' = [s \in Subs |-> IF s \in DOMAIN wrote THEN Applied(sub[s], wrote[s]) ELSE sub[s]]
  /\ Closed
  /\ UNCHANGED <<delivery, due, receiver, rollbacks>>

Commit ==
  /\ work # Nothing /\ settled = DOMAIN work /\ Flushed
  /\ delivery' = [d \in Deliveries |-> IF d \in DOMAIN work THEN work[d] ELSE delivery[d]]
  /\ sub' = [s \in Subs |-> IF s \in DOMAIN wrote THEN Applied(sub[s], wrote[s]) ELSE sub[s]]
  /\ due' = due \ DOMAIN work
  /\ Closed
  /\ UNCHANGED <<receiver, rollbacks>>

\* A shutdown, a crash or a database error inside the block.
Rollback ==
  /\ work # Nothing /\ rollbacks < MaxRollbacks
  /\ rollbacks' = rollbacks + 1
  /\ Closed
  /\ UNCHANGED <<committed, receiver>>

\* next_attempt_at passes.
BackoffOver(d) ==
  /\ d \notin due /\ delivery[d].status \in Open
  /\ due' = due \cup {d}
  /\ UNCHANGED <<sub, delivery, txn, receiver, rollbacks>>

-----------------------------------------------------------------------------
Worker ==
  \/ \E batch \in SUBSET Deliveries : Claim(batch)
  \/ \E d \in Deliveries :
       \/ Abandon(d) \/ Succeed(d) \/ GiveUp(d) \/ Retry(d) \/ BackoffOver(d)
       \/ \E accepted \in BOOLEAN, answer \in {"ok", "error"} : Post(d, accepted, answer)
  \/ Flush
  \/ Commit

Fresh == UNION {[ds -> Subs] : ds \in SUBSET Deliveries}

Requests ==
  \/ \E fresh \in Fresh : Enqueue(fresh)
  \/ \E s \in Subs : CreateAgain(s) \/ DeleteSub(s)
  \/ \E s \in Subs, url \in Urls : CreateNew(s, url)

WebhookNext == Worker \/ Requests \/ Rollback

\* The worker loop runs while the process does; the bound on rollbacks makes them finite.
WebhookFairness == WF_webhookVars(Worker)
WebhookSpec == WebhookInit /\ [][WebhookNext]_webhookVars /\ WebhookFairness

-----------------------------------------------------------------------------
WebhookTypeOK ==
  /\ sub \in [Subs -> SubRow] /\ delivery \in [Deliveries -> DeliveryRow]
  /\ due \subseteq Deliveries /\ settled \subseteq DOMAIN work
  /\ DOMAIN work \subseteq Deliveries /\ held \subseteq DOMAIN wrote
  /\ DOMAIN wrote \subseteq DOMAIN seen /\ DOMAIN seen \subseteq Subs

\* A receiver gets a delivery it accepted again only for an answer that was lost on
\* the way or a transaction that was: everything else is remembered.
RedeliveryExplained == \A d \in Deliveries : taken[d] <= 1 + unsure[d] + rollbacks

\* A delivery recorded as succeeded was accepted by its receiver, whatever rolled back.
SucceededWasTaken == \A d \in Deliveries : delivery[d].status = "succeeded" => taken[d] > 0

\* consecutive_failures never runs ahead of the deliveries that really failed for good:
\* a batch that is rolled back and run again, or duplicates pruned under it, count once.
ExhaustedOf(s) == {d \in OfSub(s) : delivery[d].status = "dead" /\ Exhausted(delivery[d])}
NoPhantomFailures == \A s \in Subs : sub[s].failures <= Cardinality(ExhaustedOf(s))

\* Every delivery is settled, or deleted with its subscription: none stays open because
\* its batch was lost.
EveryDeliverySettles ==
  \A d \in Deliveries : delivery[d].status \in Open ~> delivery[d].status \in Settled

\* What the rows, the receivers and the worker know of each other.
WebhookInv ==
  /\ WebhookTypeOK
  /\ RedeliveryExplained
  /\ SucceededWasTaken
  /\ NoPhantomFailures
=============================================================================

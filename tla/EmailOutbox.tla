----------------------------- MODULE EmailOutbox -----------------------------
(***************************************************************************)
(* The e-mail outbox of src/portal/notifications.py: rows that requests    *)
(* queue in their own transaction and one worker claims, sends over SMTP   *)
(* and records, each in a transaction of its own.  Between two of them the *)
(* process may die, the database may fail, a token may be used, and time   *)
(* passes: a retry comes due, a lease runs out, a message expires, its     *)
(* retention ends.  Each of these is a flag of the message here.           *)
(***************************************************************************)
EXTENDS Naturals

CONSTANTS Messages,      \* email_deliveries rows, one per trigger (its idempotency key)
          Linked,        \* those that link to an AuthToken
          Expiring,      \* those with an expires_at
          MaxSends,   \* 4: _max_attempts
          MaxLosses      \* bound on crashes and on results that are not recorded

ASSUME OutboxAssumption ==
  Linked \cup Expiring \subseteq Messages /\ MaxSends \in Nat \ {0} /\ MaxLosses \in Nat

VARIABLES
  mail,       \* [Messages -> email_deliveries row]
  ripe,        \* scheduled_at has come
  leased,     \* claim_until lies ahead
  expired,    \* expires_at has passed
  old,        \* created_at lies before the retention period
  spent,      \* the linked AuthToken is used, expired or deleted
  job,        \* the message the worker is at, the step it is at, what SMTP said
  smtp,       \* whether an SMTP host is configured
  mailed,      \* mailHistory: how often the mail server took the message
  unrecorded,     \* mailHistory: how often the worker could not record that
  lateUse,    \* mailHistory: the messages whose token was spent while they waited
  losses      \* crashes and lost records so far

queueRow == <<mail, ripe, leased>>
clocks == <<expired, old>>
mailHistory == <<mailed, unrecorded, lateUse>>
outboxVars == <<mail, ripe, leased, expired, old, spent, job, smtp,
                mailed, unrecorded, lateUse, losses>>

Finished == {"accepted", "failed", "expired", "suppressed", "disabled"}
Statuses == Finished \cup {"absent", "pending", "sending"}
NoMail == [status |-> "absent", attempts |-> 0, content |-> FALSE]
NoJob == [id |-> "none", at |-> "idle", answer |-> "none"]
At(m, step) == job.id = m /\ job.at = step

OutboxInit ==
  /\ mail = [m \in Messages |-> NoMail]
  /\ ripe = {} /\ leased = {} /\ expired = {} /\ old = {} /\ spent = {}
  /\ job = NoJob /\ smtp \in BOOLEAN
  /\ mailed = [m \in Messages |-> 0] /\ unrecorded = [m \in Messages |-> 0]
  /\ lateUse = {} /\ losses = 0

Stored(m) == mail[m].status # "absent"

\* queue_notification: rendered and stored with its trigger.  A trigger that comes
\* again finds its idempotency key and adds nothing.
Queue(m) ==
  /\ ~ Stored(m)
  /\ mail' = [mail EXCEPT ![m] = [status |-> "pending", attempts |-> 0, content |-> TRUE]]
  /\ ripe' \in {ripe, ripe \cup {m}}     \* a welcome mail waits a quarter of an hour
  /\ UNCHANGED <<leased, clocks, spent, job, smtp, mailHistory, losses>>

-----------------------------------------------------------------------------
(* _claim_delivery: one transaction.                                       *)

(* slip: a message that was being sent is not put back *)
ReclaimedNever(m) == FALSE

\* A lease that ran out puts its message back in the queue.
Reclaimed(m) == mail[m].status = "sending" /\ m \notin leased
\* Then what has passed its expiry is mailed out of it.
Waits(m) == mail[m].status = "pending" \/ Reclaimed(m)
Swept == [m \in Messages |->
            IF Waits(m) /\ m \in expired THEN [mail[m] EXCEPT !.status = "expired"]
            ELSE IF Reclaimed(m) THEN [mail[m] EXCEPT !.status = "pending"]
            ELSE mail[m]]
Claimable == {m \in ripe : Swept[m].status = "pending"}

ClaimMail(m) ==
  /\ job = NoJob /\ m \in Claimable
  /\ mail' = [Swept EXCEPT ![m].status = "sending", ![m].attempts = @ + 1]
  /\ leased' = leased \cup {m}
  /\ job' = [id |-> m, at |-> "look", answer |-> "none"]
  /\ UNCHANGED <<ripe, clocks, spent, smtp, mailHistory, losses>>

ClaimNothing ==
  /\ job = NoJob /\ Claimable = {} /\ Swept # mail
  /\ mail' = Swept
  /\ UNCHANGED <<ripe, leased, clocks, spent, job, smtp, mailHistory, losses>>

-----------------------------------------------------------------------------
(* _send_delivery: a look at the row, the SMTP session, the record.        *)

Ends(m, status) ==
  /\ mail' = [mail EXCEPT ![m].status = status]
  /\ leased' = leased \ {m}
  /\ job' = NoJob

(* slip: the token is checked when the message is claimed for the first time only *)
LookFirstTime(m) ==
  /\ At(m, "look") /\ mail[m].status = "sending" /\ mail[m].content
  /\ mail[m].attempts = 1 => m \notin spent
  /\ job' = [job EXCEPT !.at = IF smtp THEN "send" ELSE "disable"]
  /\ UNCHANGED <<queueRow, clocks, spent, smtp, mailHistory, losses>>

\* Reads the row once more, and its token; nothing is locked after it.
LookStops(m, status) ==
  /\ At(m, "look") /\ mail[m].status = "sending"
  /\ \/ status = "suppressed" /\ m \in spent
     \/ status = "failed" /\ m \notin spent   \* undecipherable, or erased
  /\ Ends(m, status)
  /\ UNCHANGED <<ripe, clocks, spent, smtp, mailHistory, losses>>

Look(m) ==
  /\ At(m, "look") /\ mail[m].status = "sending"
  /\ m \notin spent /\ mail[m].content
  /\ job' = [job EXCEPT !.at = IF smtp THEN "send" ELSE "disable"]
  /\ UNCHANGED <<queueRow, clocks, spent, smtp, mailHistory, losses>>

\* An error of the database is treated as one of the mail server.
LookFails(m) ==
  /\ At(m, "look") \/ At(m, "disable")
  /\ job' = [job EXCEPT !.at = "record", !.answer = "error"]
  /\ UNCHANGED <<queueRow, clocks, spent, smtp, mailHistory, losses>>

\* Without SMTP the message is kept; its lease is left as it is.
Disable(m) ==
  /\ At(m, "disable") /\ mail[m].status = "sending"
  /\ mail' = [mail EXCEPT ![m].status = "disabled"]
  /\ job' = NoJob
  /\ UNCHANGED <<ripe, leased, clocks, spent, smtp, mailHistory, losses>>

\* The server may take the message and the answer still be an error.
Send(m, accepts, answer) ==
  /\ At(m, "send")
  /\ answer = "ok" => accepts
  /\ mailed' = IF accepts THEN [mailed EXCEPT ![m] = @ + 1] ELSE mailed
  /\ unrecorded' = IF accepts /\ answer # "ok" THEN [unrecorded EXCEPT ![m] = @ + 1] ELSE unrecorded
  /\ job' = [job EXCEPT !.at = "record", !.answer = answer]
  /\ UNCHANGED <<queueRow, clocks, spent, smtp, lateUse, losses>>

(* slip: the acceptance is recorded without its status *)
RecordAcceptedLeaseOnly(m) ==
  /\ At(m, "record") /\ job.answer = "ok"
  /\ leased' = leased \ {m} /\ job' = NoJob
  /\ UNCHANGED <<mail, ripe, clocks, spent, smtp, mailHistory, losses>>

RecordAccepted(m) ==
  /\ At(m, "record") /\ job.answer = "ok"
  /\ IF mail[m].status = "sending" THEN Ends(m, "accepted")
     ELSE job' = NoJob /\ UNCHANGED <<mail, leased>>
  /\ UNCHANGED <<ripe, clocks, spent, smtp, mailHistory, losses>>

\* _record_failure: the fourth attempt is the last, an earlier one waits its delay.
RecordFailure(m) ==
  /\ At(m, "record") /\ job.answer = "error"
  /\ IF mail[m].status # "sending" THEN job' = NoJob /\ UNCHANGED queueRow
     ELSE IF mail[m].attempts >= MaxSends THEN Ends(m, "failed") /\ UNCHANGED ripe
     ELSE Ends(m, "pending") /\ ripe' = ripe \ {m}
  /\ UNCHANGED <<clocks, spent, smtp, mailHistory, losses>>

-----------------------------------------------------------------------------
(* What goes wrong, and time.                                              *)

\* The step the worker was at is not committed.  Either the process died, or the
\* database failed it and the loop went on after its pause.
Interrupted ==
  /\ job # NoJob /\ losses < MaxLosses
  /\ losses' = losses + 1
  /\ unrecorded' = IF job.at = "record" /\ job.answer = "ok"
                 THEN [unrecorded EXCEPT ![job.id] = @ + 1] ELSE unrecorded
  /\ job' = NoJob
  /\ UNCHANGED <<queueRow, clocks, spent, smtp, mailed, lateUse>>

\* The token is used, or deleted, or expires.
SpendToken(m) ==
  /\ Stored(m) /\ m \in Linked \ spent
  /\ spent' = spent \cup {m}
  /\ lateUse' = IF job.id = m /\ job.at = "send" THEN lateUse ELSE lateUse \cup {m}
  /\ UNCHANGED <<queueRow, clocks, job, smtp, mailed, unrecorded, losses>>

\* A retry comes due, or a lease ends: what the worker waits for.
WaitEnds(m) ==
  /\ \/ Stored(m) /\ m \notin ripe /\ ripe' = ripe \cup {m} /\ UNCHANGED leased
     \/ m \in leased /\ leased' = leased \ {m} /\ UNCHANGED ripe
  /\ UNCHANGED <<mail, clocks, spent, job, smtp, mailHistory, losses>>

\* The message expires, or, long after that and after its token, its retention ends.
Ages(m) ==
  /\ Stored(m)
  /\ \/ m \in Expiring \ expired /\ expired' = expired \cup {m} /\ UNCHANGED old
     \/ /\ m \notin old /\ (m \in Expiring => m \in expired) /\ (m \in Linked => m \in spent)
        /\ old' = old \cup {m} /\ UNCHANGED expired
  /\ UNCHANGED <<queueRow, spent, job, smtp, mailHistory, losses>>

\* purge_old_content: the content of what finished long ago is erased, its row stays.
Purge ==
  LET over == {m \in old : mail[m].status \in Finished /\ mail[m].content} IN
  /\ job = NoJob /\ over # {}
  /\ mail' = [m \in Messages |-> IF m \in over THEN [mail[m] EXCEPT !.content = FALSE] ELSE mail[m]]
  /\ UNCHANGED <<ripe, leased, clocks, spent, job, smtp, mailHistory, losses>>

MailStep(m) ==
  \/ ClaimMail(m) \/ Look(m) \/ LookFails(m) \/ Disable(m) \/ RecordAccepted(m) \/ RecordFailure(m)
  \/ \E status \in {"suppressed", "failed"} : LookStops(m, status)
  \/ \E accepts \in BOOLEAN, answer \in {"ok", "error"} : Send(m, accepts, answer)

Mailer == ClaimNothing \/ \E m \in Messages : MailStep(m)

OutboxNext ==
  \/ Mailer
  \/ \E m \in Messages : Queue(m) \/ WaitEnds(m) \/ Ages(m) \/ SpendToken(m)
  \/ Purge \/ Interrupted

\* The loop polls for ever and time goes on: as long as either has something to do, one
\* of them does it.
OutboxFairness == WF_outboxVars(Mailer \/ \E m \in Messages : WaitEnds(m))
OutboxSpec == OutboxInit /\ [][OutboxNext]_outboxVars /\ OutboxFairness

-----------------------------------------------------------------------------
OutboxTypeOK ==
  /\ mail \in [Messages -> [status : Statuses, attempts : 0..(MaxSends + MaxLosses),
                        content : BOOLEAN]]
  /\ ripe \cup leased \cup expired \cup old \cup spent \cup lateUse \subseteq Messages
  /\ job = NoJob \/ (job.id \in Messages /\ job.at \in {"look", "disable", "send", "record"})
  /\ losses \in 0..MaxLosses

\* The server takes a message again only if the worker could not know, or not record,
\* that it had mailed it: a crash between acceptance and commit, or a lost answer.
DuplicateExplained == \A m \in Messages : mailed[m] <= 1 + unrecorded[m]

\* A message is recorded as accepted only if the server took it, whatever was retried.
AcceptedWasTaken == \A m \in Messages : mail[m].status = "accepted" => mailed[m] > 0

\* A sign-in link whose token was spent before its sending began is never mailed,
\* however often the message was leased and put back.
NoSpentLinkSent == \A m \in Messages : mailed'[m] > mailed[m] => m \notin lateUse

\* A message that is over stays over, and only then is its content gone: neither a lease
\* that ends late nor a retry brings it back.
FinishedStays == \A m \in Messages : mail[m].status \in Finished => mail'[m].status = mail[m].status
KeptWhileOpen == \A m \in Messages : mail[m].status \in {"pending", "sending"} => mail[m].content

\* Every message that is queued is over one day, whatever the worker was doing when it
\* was interrupted.
EveryMessageEnds ==
  \A m \in Messages : mail[m].status \in {"pending", "sending"} ~> mail[m].status \in Finished

\* What is over, a message or the token it links to, is over for the worker too.
OverIsOver == [][NoSpentLinkSent /\ FinishedStays]_outboxVars

\* What the rows and the mail server know of each other.
OutboxInv ==
  /\ OutboxTypeOK
  /\ DuplicateExplained
  /\ AcceptedWasTaken
  /\ KeptWhileOpen
=============================================================================

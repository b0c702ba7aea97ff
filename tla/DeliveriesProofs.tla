-------------------------- MODULE DeliveriesProofs --------------------------
(***************************************************************************)
(* What the two delivery workers promise, for any number of subscriptions, *)
(* deliveries and messages, any limits and any number of losses:           *)
(* OutboxInv and OverIsOver of the e-mail outbox, WebhookInv of the        *)
(* webhook deliveries.                                                     *)
(***************************************************************************)
EXTENDS WebhookDelivery, EmailOutbox, FiniteSetTheorems, TLAPS

------------------------------------------------------------------------------
(* The outbox.                                                             *)
MailRow == [status : Statuses, attempts : Nat, content : BOOLEAN]
MailJob == [id : Messages, at : {"look", "disable", "send", "record"}, answer : {"none", "ok", "error"}]

MailTypes ==
  /\ mail \in [Messages -> MailRow]
  /\ ripe \subseteq Messages /\ leased \subseteq Messages /\ expired \subseteq Messages
  /\ old \subseteq Messages /\ spent \subseteq Messages /\ lateUse \subseteq Messages
  /\ job = NoJob \/ job \in MailJob
  /\ mailed \in [Messages -> Nat] /\ unrecorded \in [Messages -> Nat]
  /\ losses \in 0..MaxLosses

Working(m) == job # NoJob /\ job.id = m
Taken(m) == At(m, "record") /\ job.answer = "ok"

(* What the worker is at is marked as being sent.  A message is tried once *)
(* more than MaxSends only after its attempt was lost.  Until a message is *)
(* recorded, the server has taken it only as often as that went unknown,   *)
(* but for what the worker is about to record.                             *)
MailOK(m) ==
  /\ Working(m) => mail[m].status = "sending"
  /\ mail[m].attempts <= MaxSends + losses
  /\ mail[m].status \in {"absent", "pending", "sending"} /\ ~Working(m) => mail[m].attempts < MaxSends + losses
  /\ mailed[m] <= 1 + unrecorded[m]
  /\ mail[m].status \in {"absent", "pending", "sending"} /\ ~Taken(m) => mailed[m] <= unrecorded[m]
  /\ Taken(m) \/ mail[m].status = "accepted" => mailed[m] > 0
  /\ mail[m].status \in {"pending", "sending"} => mail[m].content
  /\ m \in lateUse => m \in spent /\ ~At(m, "send")

OutboxIInv == MailTypes /\ \A m \in Messages : MailOK(m)

LEMMA OutboxSuffices == OutboxIInv => OutboxInv
<1> SUFFICES ASSUME OutboxIInv PROVE OutboxInv
  OBVIOUS
<1> USE OutboxAssumption DEF OutboxIInv, MailTypes
<1>1. OutboxTypeOK
  <2>1. mail \in [Messages -> [status : Statuses, attempts : 0..(MaxSends + MaxLosses), content : BOOLEAN]]
    <3> SUFFICES ASSUME NEW m \in Messages
                 PROVE mail[m] \in [status : Statuses, attempts : 0..(MaxSends + MaxLosses), content : BOOLEAN]
      OBVIOUS
    <3>1. mail[m] \in MailRow /\ mail[m].attempts <= MaxSends + losses
      BY DEF MailOK
    <3> QED BY <3>1 DEF MailRow
  <2>2. job = NoJob \/ (job.id \in Messages /\ job.at \in {"look", "disable", "send", "record"})
    BY DEF MailJob
  <2> QED BY <2>1, <2>2 DEF OutboxTypeOK
<1>2. DuplicateExplained /\ AcceptedWasTaken /\ KeptWhileOpen
  BY DEF DuplicateExplained, AcceptedWasTaken, KeptWhileOpen, MailOK
<1> QED BY <1>1, <1>2 DEF OutboxInv

LEMMA OutboxStarts == OutboxInit => OutboxIInv
<1> SUFFICES ASSUME OutboxInit PROVE OutboxIInv
  OBVIOUS
<1> USE OutboxAssumption DEF OutboxInit
<1>1. MailTypes
  BY DEF MailTypes, MailRow, NoMail, Statuses
<1>2. \A m \in Messages : MailOK(m)
  BY DEF MailOK, Working, Taken, At, NoJob, NoMail
<1> QED BY <1>1, <1>2 DEF OutboxIInv

LEMMA MailQueue ==
  ASSUME OutboxIInv, NEW q \in Messages, Queue(q) PROVE OutboxIInv'
<1> USE OutboxAssumption DEF OutboxIInv, At, Queue, Stored, queueRow, clocks, mailHistory
<1>1. MailTypes'
  BY DEF MailTypes, MailRow, MailJob, Statuses, Finished, NoJob
<1>2. ASSUME NEW m \in Messages PROVE MailOK(m)'
  <2>1. MailOK(m) /\ mail[m] \in MailRow
    BY DEF MailTypes
  <2> QED BY <2>1 DEF MailTypes, MailOK, MailRow, MailJob, Working, Taken, NoJob, Statuses, Finished
<1> QED BY <1>1, <1>2

LEMMA MailLookStops ==
  ASSUME OutboxIInv, NEW q \in Messages, NEW s \in {"suppressed", "failed"}, LookStops(q, s) PROVE OutboxIInv'
<1> USE OutboxAssumption DEF OutboxIInv, At, LookStops, Ends, clocks, mailHistory
<1>1. MailTypes'
  BY DEF MailTypes, MailRow, MailJob, Statuses, Finished, NoJob
<1>2. ASSUME NEW m \in Messages PROVE MailOK(m)'
  <2>1. MailOK(m) /\ mail[m] \in MailRow
    BY DEF MailTypes
  <2> QED BY <2>1 DEF MailTypes, MailOK, MailRow, MailJob, Working, Taken, NoJob, Statuses, Finished
<1> QED BY <1>1, <1>2

LEMMA MailLook ==
  ASSUME OutboxIInv, NEW q \in Messages, Look(q) PROVE OutboxIInv'
<1> USE OutboxAssumption DEF OutboxIInv, At, Look, queueRow, clocks, mailHistory
<1>1. MailTypes'
  BY DEF MailTypes, MailRow, MailJob, Statuses, Finished, NoJob
<1>2. ASSUME NEW m \in Messages PROVE MailOK(m)'
  <2>1. MailOK(m) /\ mail[m] \in MailRow
    BY DEF MailTypes
  <2> QED BY <2>1 DEF MailTypes, MailOK, MailRow, MailJob, Working, Taken, NoJob, Statuses, Finished
<1> QED BY <1>1, <1>2

LEMMA MailLookFails ==
  ASSUME OutboxIInv, NEW q \in Messages, LookFails(q) PROVE OutboxIInv'
<1> USE OutboxAssumption DEF OutboxIInv, At, LookFails, queueRow, clocks, mailHistory
<1>1. job \in MailJob /\ job # NoJob /\ job.id = q /\ job.at \in {"look", "disable", "send"}
  BY DEF MailTypes, MailJob, NoJob
<1>2. /\ job' \in MailJob /\ job' # NoJob
      /\ job'.id = q /\ job'.at = "record" /\ job'.answer = "error"
  BY <1>1 DEF MailJob, NoJob
<1>3. MailTypes'
  BY <1>2 DEF MailTypes
<1>4. ASSUME NEW m \in Messages PROVE MailOK(m)'
  <2>1. MailOK(m) /\ mail[m] \in MailRow /\ mailed[m] \in Nat /\ unrecorded[m] \in Nat /\ losses \in Nat
    BY DEF MailTypes
  <2>2. mail' = mail /\ losses' = losses /\ lateUse' = lateUse /\ spent' = spent
    OBVIOUS
  <2>3. /\ mailed'[m] = mailed[m] \/ (m = q /\ mailed'[m] = mailed[m] + 1 /\ (unrecorded'[m] = unrecorded[m] + 1 \/ job'.answer = "ok"))
        /\ unrecorded'[m] = unrecorded[m] \/ unrecorded'[m] = unrecorded[m] + 1
        /\ m = q /\ job'.answer = "ok" => mailed'[m] = mailed[m] + 1
    BY <1>2 DEF MailTypes
  <2>4. (Working(m)' <=> Working(m)) /\ ~Taken(m) /\ (Taken(m)' <=> m = q /\ job'.answer = "ok")
    BY <1>1, <1>2 DEF Working, Taken, At
  <2>5. ~(job'.id = m /\ job'.at = "send")
    BY <1>2
  <2> QED BY <2>1, <2>2, <2>3, <2>4, <2>5 DEF MailOK, MailRow
<1> QED BY <1>3, <1>4

LEMMA MailDisable ==
  ASSUME OutboxIInv, NEW q \in Messages, Disable(q) PROVE OutboxIInv'
<1> USE OutboxAssumption DEF OutboxIInv, At, Disable, clocks, mailHistory
<1>1. MailTypes'
  BY DEF MailTypes, MailRow, MailJob, Statuses, Finished, NoJob
<1>2. ASSUME NEW m \in Messages PROVE MailOK(m)'
  <2>1. MailOK(m) /\ mail[m] \in MailRow
    BY DEF MailTypes
  <2> QED BY <2>1 DEF MailTypes, MailOK, MailRow, MailJob, Working, Taken, NoJob, Statuses, Finished
<1> QED BY <1>1, <1>2

LEMMA MailSend ==
  ASSUME OutboxIInv, NEW q \in Messages, NEW a \in BOOLEAN, NEW r \in {"ok", "error"}, Send(q, a, r) PROVE OutboxIInv'
<1> USE OutboxAssumption DEF OutboxIInv, At, Send, queueRow, clocks, mailHistory
<1>1. job \in MailJob /\ job # NoJob /\ job.id = q /\ job.at \in {"look", "disable", "send"}
  BY DEF MailTypes, MailJob, NoJob
<1>2. /\ job' \in MailJob /\ job' # NoJob
      /\ job'.id = q /\ job'.at = "record" /\ job'.answer = r
  BY <1>1 DEF MailJob, NoJob
<1>3. MailTypes'
  BY <1>2 DEF MailTypes
<1>4. ASSUME NEW m \in Messages PROVE MailOK(m)'
  <2>1. MailOK(m) /\ mail[m] \in MailRow /\ mailed[m] \in Nat /\ unrecorded[m] \in Nat /\ losses \in Nat
    BY DEF MailTypes
  <2>2. mail' = mail /\ losses' = losses /\ lateUse' = lateUse /\ spent' = spent
    OBVIOUS
  <2>3. /\ mailed'[m] = mailed[m] \/ (m = q /\ mailed'[m] = mailed[m] + 1 /\ (unrecorded'[m] = unrecorded[m] + 1 \/ job'.answer = "ok"))
        /\ unrecorded'[m] = unrecorded[m] \/ unrecorded'[m] = unrecorded[m] + 1
        /\ m = q /\ job'.answer = "ok" => mailed'[m] = mailed[m] + 1
    <3>1. mailed \in [Messages -> Nat] /\ unrecorded \in [Messages -> Nat]
      BY DEF MailTypes
    <3>2. CASE ~a
      BY <1>2, <3>1, <3>2
    <3>3. CASE a
      <4>1. mailed' = [mailed EXCEPT ![q] = @ + 1]
        BY <3>3
      <4>2. unrecorded' = IF r # "ok" THEN [unrecorded EXCEPT ![q] = @ + 1] ELSE unrecorded
        BY <3>3
      <4> QED BY <1>2, <3>1, <4>1, <4>2
    <3> QED BY <3>2, <3>3
  <2>4. (Working(m)' <=> Working(m)) /\ ~Taken(m) /\ (Taken(m)' <=> m = q /\ job'.answer = "ok")
    BY <1>1, <1>2 DEF Working, Taken, At
  <2>5. ~(job'.id = m /\ job'.at = "send")
    BY <1>2
  <2>6. m # q => ~(job'.id = m)
    BY <1>2
  <2> HIDE DEF Send
  <2>7. CASE m # q
    BY <2>1, <2>2, <2>3, <2>4, <2>5, <2>7 DEF MailOK, MailRow
  <2>8. CASE m = q
    <3>1. mailed[m] <= unrecorded[m] /\ mail[m].status = "sending" /\ Working(m)'
      BY <1>1, <1>2, <2>1, <2>4, <2>8 DEF MailOK, Working
    <3> QED BY <2>1, <2>2, <2>3, <2>4, <2>5, <2>8, <3>1 DEF MailOK, MailRow
  <2> QED BY <2>7, <2>8
<1> QED BY <1>3, <1>4

LEMMA MailRecordAccepted ==
  ASSUME OutboxIInv, NEW q \in Messages, RecordAccepted(q) PROVE OutboxIInv'
<1> USE OutboxAssumption DEF OutboxIInv, At, RecordAccepted, Ends, clocks, mailHistory
<1>1. MailTypes'
  BY DEF MailTypes, MailRow, MailJob, Statuses, Finished, NoJob
<1>2. ASSUME NEW m \in Messages PROVE MailOK(m)'
  <2>1. MailOK(m) /\ mail[m] \in MailRow
    BY DEF MailTypes
  <2> QED BY <2>1 DEF MailTypes, MailOK, MailRow, MailJob, Working, Taken, NoJob, Statuses, Finished
<1> QED BY <1>1, <1>2

LEMMA MailRecordFailure ==
  ASSUME OutboxIInv, NEW q \in Messages, RecordFailure(q) PROVE OutboxIInv'
<1> USE OutboxAssumption DEF OutboxIInv, At, RecordFailure, Ends, queueRow, clocks, mailHistory
<1>1. MailTypes'
  BY DEF MailTypes, MailRow, MailJob, Statuses, Finished, NoJob
<1>2. ASSUME NEW m \in Messages PROVE MailOK(m)'
  <2>1. MailOK(m) /\ mail[m] \in MailRow
    BY DEF MailTypes
  <2> QED BY <2>1 DEF MailTypes, MailOK, MailRow, MailJob, Working, Taken, NoJob, Statuses, Finished
<1> QED BY <1>1, <1>2

LEMMA MailInterrupted ==
  ASSUME OutboxIInv, Interrupted PROVE OutboxIInv'
<1> USE OutboxAssumption DEF OutboxIInv, At, Interrupted, queueRow, clocks, mailHistory
<1>1. MailTypes'
  BY DEF MailTypes, MailRow, MailJob, Statuses, Finished, NoJob
<1>2. ASSUME NEW m \in Messages PROVE MailOK(m)'
  <2>1. MailOK(m) /\ mail[m] \in MailRow
    BY DEF MailTypes
  <2> QED BY <2>1 DEF MailTypes, MailOK, MailRow, MailJob, Working, Taken, NoJob, Statuses, Finished
<1> QED BY <1>1, <1>2

LEMMA MailSpendToken ==
  ASSUME OutboxIInv, NEW q \in Messages, SpendToken(q) PROVE OutboxIInv'
<1> USE OutboxAssumption DEF OutboxIInv, At, SpendToken, queueRow, clocks, mailHistory
<1>1. MailTypes'
  BY DEF MailTypes, MailRow, MailJob, Statuses, Finished, NoJob
<1>2. ASSUME NEW m \in Messages PROVE MailOK(m)'
  <2>1. MailOK(m) /\ mail[m] \in MailRow
    BY DEF MailTypes
  <2> QED BY <2>1 DEF MailTypes, MailOK, MailRow, MailJob, Working, Taken, NoJob, Statuses, Finished
<1> QED BY <1>1, <1>2

LEMMA MailWaitEnds ==
  ASSUME OutboxIInv, NEW q \in Messages, WaitEnds(q) PROVE OutboxIInv'
<1> USE OutboxAssumption DEF OutboxIInv, At, WaitEnds, clocks, mailHistory
<1>1. MailTypes'
  BY DEF MailTypes, MailRow, MailJob, Statuses, Finished, NoJob
<1>2. ASSUME NEW m \in Messages PROVE MailOK(m)'
  <2>1. MailOK(m) /\ mail[m] \in MailRow
    BY DEF MailTypes
  <2> QED BY <2>1 DEF MailTypes, MailOK, MailRow, MailJob, Working, Taken, NoJob, Statuses, Finished
<1> QED BY <1>1, <1>2

LEMMA MailAges ==
  ASSUME OutboxIInv, NEW q \in Messages, Ages(q) PROVE OutboxIInv'
<1> USE OutboxAssumption DEF OutboxIInv, At, Ages, queueRow, clocks, mailHistory
<1>1. MailTypes'
  BY DEF MailTypes, MailRow, MailJob, Statuses, Finished, NoJob
<1>2. ASSUME NEW m \in Messages PROVE MailOK(m)'
  <2>1. MailOK(m) /\ mail[m] \in MailRow
    BY DEF MailTypes
  <2> QED BY <2>1 DEF MailTypes, MailOK, MailRow, MailJob, Working, Taken, NoJob, Statuses, Finished
<1> QED BY <1>1, <1>2

(* The claim puts back what a lease left and takes out what expired, but   *)
(* not what the worker is at: there is nothing it is at.                   *)
LEMMA SweptRows ==
  ASSUME OutboxIInv, job = NoJob
  PROVE  /\ Swept \in [Messages -> MailRow]
         /\ \A m \in Messages :
              /\ Swept[m].attempts = mail[m].attempts /\ Swept[m].content = mail[m].content
              /\ Swept[m].status # mail[m].status =>
                   mail[m].status \in {"pending", "sending"} /\ Swept[m].status \in {"pending", "expired"}
<1> SUFFICES ASSUME NEW m \in Messages
             PROVE /\ Swept[m] \in MailRow
                   /\ Swept[m].attempts = mail[m].attempts /\ Swept[m].content = mail[m].content
                   /\ Swept[m].status # mail[m].status =>
                        mail[m].status \in {"pending", "sending"} /\ Swept[m].status \in {"pending", "expired"}
  BY DEF Swept
<1>1. mail[m] \in MailRow
  BY DEF OutboxIInv, MailTypes
<1>2. \/ Swept[m] = mail[m]
      \/ Swept[m] = [mail[m] EXCEPT !.status = "expired"] /\ Waits(m)
      \/ Swept[m] = [mail[m] EXCEPT !.status = "pending"] /\ Waits(m)
  BY DEF Swept, Waits
<1>3. Waits(m) => mail[m].status \in {"pending", "sending"}
  BY DEF Waits, Reclaimed
<1> DEFINE r(s) == [mail[m] EXCEPT !.status = s]
<1>4. ASSUME NEW s \in {"expired", "pending"}
      PROVE  r(s) \in MailRow /\ r(s).status = s /\ r(s).attempts = mail[m].attempts /\ r(s).content = mail[m].content
  BY <1>1 DEF MailRow, Statuses, Finished
<1>5. Swept[m] = mail[m] \/ (Waits(m) /\ \E s \in {"expired", "pending"} : Swept[m] = r(s))
  BY <1>2
<1> HIDE DEF r
<1>6. CASE Swept[m] = mail[m]
  BY <1>1, <1>6
<1>7. ASSUME NEW s \in {"expired", "pending"}, Swept[m] = r(s), Waits(m)
      PROVE  /\ Swept[m] \in MailRow /\ Swept[m].status \in {"pending", "expired"}
             /\ Swept[m].attempts = mail[m].attempts /\ Swept[m].content = mail[m].content
  BY <1>4, <1>7
<1> QED BY <1>3, <1>5, <1>6, <1>7

LEMMA MailClaimNothing ==
  ASSUME OutboxIInv, ClaimNothing PROVE OutboxIInv'
<1> USE OutboxAssumption DEF OutboxIInv, At, ClaimNothing, clocks, mailHistory
<1>1. mail' \in [Messages -> MailRow] /\ job' = NoJob
  BY SweptRows
<1>2. MailTypes'
  BY <1>1 DEF MailTypes
<1>3. ASSUME NEW m \in Messages PROVE MailOK(m)'
  <2>1. MailOK(m) /\ mail[m] \in MailRow /\ mail'[m] \in MailRow /\ ~Taken(m)
    BY <1>1 DEF MailTypes, Taken, NoJob
  <2>2. /\ mail'[m].attempts = mail[m].attempts /\ mail'[m].content = mail[m].content
        /\ mail'[m].status # mail[m].status =>
             mail[m].status \in {"pending", "sending"} /\ mail'[m].status \in {"pending", "expired"}
    BY SweptRows
  <2> QED BY <1>1, <2>1, <2>2 DEF MailOK, MailRow, Working, Taken, NoJob
<1> QED BY <1>2, <1>3

LEMMA MailClaim ==
  ASSUME OutboxIInv, NEW q \in Messages, ClaimMail(q) PROVE OutboxIInv'
<1> USE OutboxAssumption DEF OutboxIInv, At, ClaimMail, clocks, mailHistory
<1>1. /\ Swept \in [Messages -> MailRow] /\ Swept[q].status = "pending"
      /\ \A m \in Messages :
              /\ Swept[m].attempts = mail[m].attempts /\ Swept[m].content = mail[m].content
              /\ Swept[m].status # mail[m].status =>
                   mail[m].status \in {"pending", "sending"} /\ Swept[m].status \in {"pending", "expired"}
  BY SweptRows DEF Claimable
<1>2. /\ mail' = [Swept EXCEPT ![q] = [[Swept[q] EXCEPT !.status = "sending"] EXCEPT !.attempts = Swept[q].attempts + 1]]
      /\ job' = [id |-> q, at |-> "look", answer |-> "none"]
  OBVIOUS
<1> HIDE DEF ClaimMail
<1> DEFINE r1 == [Swept[q] EXCEPT !.status = "sending"]
           r2 == [r1 EXCEPT !.attempts = Swept[q].attempts + 1]
<1>3. r1 \in MailRow /\ r1.status = "sending" /\ r1.content = Swept[q].content
  BY <1>1 DEF MailRow, Statuses
<1> HIDE DEF r1
<1>4. r2 \in MailRow /\ r2.status = "sending" /\ r2.content = Swept[q].content
      /\ r2.attempts = mail[q].attempts + 1
  BY <1>1, <1>3 DEF MailRow
<1>5. mail' = [Swept EXCEPT ![q] = r2]
  BY <1>2 DEF r1
<1> HIDE DEF r2
<1>6. mail' \in [Messages -> MailRow]
  BY <1>1, <1>4, <1>5
<1>7. MailTypes'
  BY <1>2, <1>6 DEF MailTypes, MailJob, ClaimMail
<1>8. ASSUME NEW m \in Messages PROVE MailOK(m)'
  <2>1. MailOK(m) /\ mail[m] \in MailRow /\ mail'[m] \in MailRow /\ losses \in Nat /\ ~Taken(m) /\ ~Working(m)
    BY <1>6 DEF MailTypes, Taken, Working, NoJob, ClaimMail
  <2>2. job' # NoJob /\ job'.id = q /\ job'.at = "look"
    BY <1>2 DEF NoJob
  <2>3. (Working(m)' <=> m = q) /\ ~Taken(m)'
    BY <2>2 DEF Working, Taken
  <2>4. UNCHANGED <<mailed, unrecorded, lateUse, losses, spent>>
    BY DEF ClaimMail
  <2>5. CASE m = q
    <3>1. mail'[m] = r2 /\ mail[m].status \in {"pending", "sending"}
      BY <1>1, <1>5, <2>5
    <3> QED BY <1>1, <1>4, <2>1, <2>2, <2>3, <2>4, <2>5, <3>1 DEF MailOK, MailRow
  <2>6. CASE m # q
    <3>1. mail'[m] = Swept[m]
      BY <1>1, <1>5, <2>6
    <3> QED BY <1>1, <2>1, <2>2, <2>3, <2>4, <2>6, <3>1 DEF MailOK, MailRow
  <2> QED BY <2>5, <2>6
<1> QED BY <1>7, <1>8

LEMMA MailPurge ==
  ASSUME OutboxIInv, Purge PROVE OutboxIInv'
<1> USE OutboxAssumption DEF OutboxIInv, At, Purge, clocks, mailHistory
<1>1. ASSUME NEW m \in Messages
      PROVE /\ mail'[m] \in MailRow
            /\ mail'[m].status = mail[m].status /\ mail'[m].attempts = mail[m].attempts
            /\ mail'[m].content = mail[m].content \/ mail[m].status \in Finished
  <2>1. mail[m] \in MailRow
    <3> HIDE DEF Purge
    <3> QED BY DEF MailTypes
  <2>2. mail'[m] = mail[m] \/ (mail'[m] = [mail[m] EXCEPT !.content = FALSE] /\ mail[m].status \in Finished)
    <3>1. mail' = [x \in Messages |-> IF x \in {y \in old : mail[y].status \in Finished /\ mail[y].content}
                                     THEN [mail[x] EXCEPT !.content = FALSE] ELSE mail[x]]
      BY Zenon
    <3> HIDE DEF Purge
    <3> QED BY <3>1
  <2> QED BY <2>1, <2>2 DEF MailRow
<1>2. MailTypes'
  BY <1>1 DEF MailTypes
<1>3. ASSUME NEW m \in Messages PROVE MailOK(m)'
  <2>1. MailOK(m) /\ mail[m] \in MailRow
    BY DEF MailTypes
  <2> QED BY <1>1, <2>1 DEF MailOK, MailRow, Working, Taken, Finished
<1> QED BY <1>2, <1>3

LEMMA OutboxStep == OutboxIInv /\ [OutboxNext]_outboxVars => OutboxIInv'
<1> SUFFICES ASSUME OutboxIInv, [OutboxNext]_outboxVars PROVE OutboxIInv'
  OBVIOUS
<1>1. CASE UNCHANGED outboxVars
  BY <1>1 DEF OutboxIInv, outboxVars, MailTypes, MailOK, Working, Taken, At
<1>2. ASSUME NEW m \in Messages, MailStep(m) PROVE OutboxIInv'
  BY <1>2, MailClaim, MailLook, MailLookFails, MailDisable, MailRecordAccepted, MailRecordFailure,
     MailLookStops, MailSend DEF MailStep
<1>3. ASSUME NEW m \in Messages, Queue(m) \/ WaitEnds(m) \/ Ages(m) \/ SpendToken(m) PROVE OutboxIInv'
  BY <1>3, MailQueue, MailWaitEnds, MailAges, MailSpendToken
<1>4. CASE ClaimNothing \/ Purge \/ Interrupted
  BY <1>4, MailClaimNothing, MailPurge, MailInterrupted
<1> QED BY <1>1, <1>2, <1>3, <1>4 DEF OutboxNext, Mailer

(* OutboxInv: _claim_delivery, _send_delivery and _record_failure hand a   *)
(* message to the server again only after an acceptance the worker could   *)
(* not learn of or not record; what is recorded as accepted was taken;     *)
(* what is open can still be sent.                                         *)
THEOREM OutboxHolds == OutboxSpec => []OutboxInv
<1>1. OutboxIInv /\ [OutboxNext]_outboxVars => OutboxIInv'
  BY OutboxStep
<1> QED BY <1>1, OutboxStarts, OutboxSuffices, PTL DEF OutboxSpec

(* One step: nobody but Send hands a message over, and Look did not let it *)
(* come to that with a spent token; nobody opens what is finished.         *)
LEMMA OverStep ==
  ASSUME OutboxIInv, [OutboxNext]_outboxVars
  PROVE  [NoSpentLinkSent /\ FinishedStays]_outboxVars
<1> SUFFICES ASSUME OutboxNext, NEW m \in Messages
             PROVE /\ mailed'[m] > mailed[m] => m \notin lateUse
                   /\ mail[m].status \in Finished => mail'[m].status = mail[m].status
  BY DEF NoSpentLinkSent, FinishedStays
<1>1. /\ MailOK(m) /\ mail \in [Messages -> MailRow] /\ mailed \in [Messages -> Nat] /\ mail[m] \in MailRow
      /\ job = NoJob \/ job \in MailJob
  BY DEF OutboxIInv, MailTypes
<1>2. mail[m].status \in Finished => mail[m].status \notin {"absent", "pending", "sending"} /\ ~Working(m)
  BY <1>1 DEF MailOK, Finished
<1>3. ASSUME NEW q \in Messages, NEW a \in BOOLEAN, NEW r \in {"ok", "error"}, Send(q, a, r)
      PROVE  m \in lateUse => mailed'[m] = mailed[m]
  <2>1. m \in lateUse => m # q
    BY <1>1, <1>3 DEF Send, MailOK
  <2> QED BY <1>1, <1>3, <2>1 DEF Send
<1>4. mailed'[m] > mailed[m] => m \notin lateUse
  <2>1. \/ mailed' = mailed
        \/ \E q \in Messages, a \in BOOLEAN, r \in {"ok", "error"} : Send(q, a, r)
    BY DEF OutboxNext, Mailer, MailStep, ClaimNothing, ClaimMail, Look, LookFails, Disable, RecordAccepted,
           RecordFailure, LookStops, Queue, WaitEnds, Ages, SpendToken, Purge, Interrupted, mailHistory
  <2> QED BY <1>1, <1>3, <2>1
<1>5. ASSUME mail[m].status \in Finished PROVE mail'[m].status = mail[m].status
  <2> mail[m].status \notin {"absent", "pending", "sending"} /\ ~Working(m) /\ mail \in [Messages -> MailRow]
    BY <1>1, <1>2, <1>5
  <2>1. ASSUME job = NoJob PROVE Swept[m] = mail[m]
    BY DEF Swept, Waits, Reclaimed
  <2>2. ASSUME NEW q \in Messages, ClaimMail(q) PROVE mail'[m] = mail[m]
    <3>1. Swept \in [Messages -> MailRow] /\ Swept[m] = mail[m] /\ m # q
      BY <2>1, <2>2, SweptRows DEF ClaimMail, Claimable
    <3> QED BY <2>2, <3>1 DEF ClaimMail
  <2>3. ASSUME ClaimNothing PROVE mail'[m] = mail[m]
    BY <2>1, <2>3 DEF ClaimNothing
  <2>4. ASSUME NEW q \in Messages, NEW s \in {"suppressed", "failed"},
               Queue(q) \/ Disable(q) \/ LookStops(q, s) \/ RecordAccepted(q) \/ RecordFailure(q)
        PROVE  mail'[m] = mail[m]
    <3>1. m = q => ~(job # NoJob /\ job.id = q) /\ mail[q].status # "absent"
      BY DEF Working
    <3>2. At(q, "disable") \/ At(q, "look") \/ At(q, "record") => job # NoJob /\ job.id = q
      BY DEF At, NoJob
    <3> QED BY <2>4, <3>1, <3>2 DEF Queue, Disable, LookStops, Ends, RecordAccepted, RecordFailure, queueRow, Stored
  <2>5. ASSUME Purge PROVE mail'[m].status = mail[m].status
    <3>1. mail' = [x \in Messages |-> IF x \in {y \in old : mail[y].status \in Finished /\ mail[y].content}
                                     THEN [mail[x] EXCEPT !.content = FALSE] ELSE mail[x]]
      BY <2>5, Zenon DEF Purge
    <3>2. mail'[m] = mail[m] \/ mail'[m] = [mail[m] EXCEPT !.content = FALSE]
      BY <3>1
    <3> QED BY <1>1, <3>2 DEF MailRow
  <2>6. \/ mail' = mail \/ ClaimNothing \/ Purge
        \/ \E q \in Messages : ClaimMail(q)
        \/ \E q \in Messages, s \in {"suppressed", "failed"} :
              Queue(q) \/ Disable(q) \/ LookStops(q, s) \/ RecordAccepted(q) \/ RecordFailure(q)
    BY DEF OutboxNext, Mailer, MailStep, Look, LookFails, Send, WaitEnds, Ages, SpendToken, Interrupted, queueRow
  <2> QED BY <2>2, <2>3, <2>4, <2>5, <2>6
<1> QED BY <1>4, <1>5

(* OverIsOver: a link whose token was spent while its message waited is    *)
(* not mailed by _send_delivery, and no lease that ends late and no retry  *)
(* reopens a message _claim_delivery has found finished.                   *)
THEOREM OverStaysOver == OutboxSpec => OverIsOver
<1>1. OutboxIInv /\ [OutboxNext]_outboxVars => OutboxIInv'
  BY OutboxStep
<1>2. OutboxIInv /\ [OutboxNext]_outboxVars => [NoSpentLinkSent /\ FinishedStays]_outboxVars
  BY OverStep
<1> QED BY <1>1, <1>2, OutboxStarts, PTL DEF OutboxSpec, OverIsOver

------------------------------------------------------------------------------
(* The webhook queue.                                                      *)
WorkRow == [sub : Subs, attempts : 0..MaxAttempts, status : {"delivering", "succeeded", "failed", "dead"}]
Change == [failures : 0..TripAfter, tripped : BOOLEAN]
Posted == [id : Deliveries, answer : {"ok", "error"}]

QueueTypes ==
  /\ sub \in [Subs -> SubRow] /\ delivery \in [Deliveries -> DeliveryRow]
  /\ due \subseteq Deliveries
  /\ DOMAIN work \subseteq Deliveries /\ work \in [DOMAIN work -> WorkRow]
  /\ settled \subseteq DOMAIN work
  /\ current = Idle \/ current \in Posted
  /\ DOMAIN seen \subseteq Subs /\ seen \in [DOMAIN seen -> SubRow]
  /\ DOMAIN wrote \subseteq DOMAIN seen /\ wrote \in [DOMAIN wrote -> Change]
  /\ held \subseteq DOMAIN wrote
  /\ taken \in [Deliveries -> Nat] /\ unsure \in [Deliveries -> Nat]
  /\ rollbacks \in Nat

IsPosted(d) == current # Idle /\ current.id = d
Known(d) == work[d].status = "succeeded" \/ current = [id |-> d, answer |-> "ok"]

(* A subscription that tripped is inactive, in the table and in the        *)
(* session; what the session has was claimed with it.                      *)
SubOK(s) ==
  /\ sub[s].active => sub[s].failures < TripAfter
  /\ s \in DOMAIN seen => \E d \in DOMAIN work : work[d].sub = s
  /\ s \in DOMAIN seen /\ seen[s].active => Refreshed(s).failures < TripAfter
  /\ s \in DOMAIN wrote => (wrote[s].failures >= TripAfter <=> wrote[s].tripped)

(* A row that can still be sent has a subscription and an attempt left,    *)
(* and its receiver has taken it only as often as that was lost.           *)
RowOK(d) ==
  /\ delivery[d].sub \in Subs => Exists(delivery[d].sub)
  /\ delivery[d].status \in Open => delivery[d].sub \in Subs /\ delivery[d].attempts < MaxAttempts
  /\ taken[d] <= 1 + unsure[d] + rollbacks
  /\ delivery[d].status \in Open \cup {"absent"} /\ d \notin DOMAIN work => taken[d] <= unsure[d] + rollbacks
  /\ delivery[d].status = "succeeded" => taken[d] > 0

(* The same of a claimed row, whose subscription stays while it is.        *)
ClaimOK(d) ==
  /\ delivery[d].status \in Open /\ work[d].sub = delivery[d].sub
  /\ d \in settled <=> work[d].status # "delivering"
  /\ (d \notin settled /\ ~IsPosted(d)) \/ work[d].status = "failed" => work[d].attempts < MaxAttempts
  /\ ~Known(d) => taken[d] <= unsure[d] + rollbacks
  /\ Known(d) => taken[d] > 0
  /\ IsPosted(d) => work[d].sub \in DOMAIN seen /\ seen[work[d].sub].active

PostOK == current # Idle => current.id \in DOMAIN work \ settled

(* What is counted against a subscription is a dead delivery of the table  *)
(* or one the transaction will write.                                      *)
NewlyExhausted(s) == {d \in DOMAIN work : work[d].sub = s /\ work[d].status = "dead" /\ Exhausted(work[d])}
CountOK(s) ==
  /\ sub[s].failures <= Cardinality(ExhaustedOf(s))
  /\ s \in DOMAIN wrote => wrote[s].failures <= Cardinality(ExhaustedOf(s)) + Cardinality(NewlyExhausted(s))

QueueIInv ==
  /\ QueueTypes /\ PostOK
  /\ \A s \in Subs : SubOK(s) /\ CountOK(s)
  /\ \A d \in Deliveries : RowOK(d)
  /\ \A d \in DOMAIN work : ClaimOK(d)

(* The deliveries of a count are some of finitely many.                    *)
LEMMA SomeDeliveries ==
  ASSUME NEW A \in SUBSET Deliveries PROVE IsFiniteSet(A) /\ Cardinality(A) \in Nat
BY FS_Subset, FS_CardinalityType, WebhookAssumption

LEMMA FewerDeliveries ==
  ASSUME NEW B \in SUBSET Deliveries, NEW A \in SUBSET B PROVE Cardinality(A) <= Cardinality(B)
BY FS_Subset, SomeDeliveries

(* Settle and Applied, field by field.                                     *)
LEMMA SettleOne ==
  ASSUME QueueTypes, NEW d \in DOMAIN work, NEW t \in {"succeeded", "failed", "dead"}, Settle(d, t)
  PROVE  /\ DOMAIN work' = DOMAIN work /\ work' \in [DOMAIN work -> WorkRow]
         /\ work'[d].status = t /\ work'[d].sub = work[d].sub /\ work'[d].attempts = work[d].attempts
         /\ \A e \in DOMAIN work : e # d => work'[e] = work[e]
<1>1. work' = [work EXCEPT ![d].status = t] /\ work \in [DOMAIN work -> WorkRow] /\ work[d] \in WorkRow
  BY DEF Settle, QueueTypes
<1> QED BY <1>1 DEF WorkRow

LEMMA AppliedOne ==
  ASSUME NEW row \in SubRow, row # NoSub, NEW change \in Change
  PROVE  /\ Applied(row, change) \in SubRow /\ Applied(row, change) # NoSub
         /\ Applied(row, change).failures = change.failures
         /\ Applied(row, change).active <=> row.active /\ ~change.tripped
<1> USE WebhookAssumption
<1>1. row \in [url : Urls, active : BOOLEAN, failures : 0..TripAfter]
  BY DEF SubRow
<1> DEFINE r1 == [row EXCEPT !.failures = change.failures]
           r2 == [r1 EXCEPT !.active = row.active /\ ~change.tripped]
<1>2. /\ r1 \in [url : Urls, active : BOOLEAN, failures : 0..TripAfter]
      /\ r1.failures = change.failures /\ r1.active = row.active
  BY <1>1 DEF Change
<1>3. Applied(row, change) = r2
  BY <1>2 DEF Applied
<1> HIDE DEF r1
<1>4. /\ r2 \in [url : Urls, active : BOOLEAN, failures : 0..TripAfter]
      /\ r2.failures = change.failures /\ (r2.active <=> row.active /\ ~change.tripped)
  BY <1>2
<1>5. r2.url # "none"
  BY <1>4
<1> HIDE DEF r2
<1>6. r2 # NoSub
  BY <1>5 DEF NoSub
<1> QED BY <1>3, <1>4, <1>6 DEF SubRow

LEMMA RefreshedOne ==
  ASSUME QueueTypes, NEW s \in Subs, Exists(s)
  PROVE  /\ Refreshed(s) \in SubRow /\ Refreshed(s) # NoSub
         /\ s \notin DOMAIN wrote => Refreshed(s) = sub[s]
         /\ s \in DOMAIN wrote => Refreshed(s).failures = wrote[s].failures
<1>1. sub[s] \in SubRow /\ sub[s] # NoSub
  BY DEF QueueTypes, Exists
<1>2. s \in DOMAIN wrote => wrote[s] \in Change
  BY DEF QueueTypes
<1> QED BY <1>1, <1>2, AppliedOne DEF Refreshed

LEMMA QueueSuffices == QueueIInv => WebhookInv
<1> SUFFICES ASSUME QueueIInv PROVE WebhookInv
  OBVIOUS
<1>1. WebhookTypeOK
  BY DEF WebhookTypeOK, QueueIInv, QueueTypes
<1>2. RedeliveryExplained /\ SucceededWasTaken /\ NoPhantomFailures
  BY DEF QueueIInv, RedeliveryExplained, SucceededWasTaken, NoPhantomFailures, RowOK, CountOK
<1> QED BY <1>1, <1>2 DEF WebhookInv

LEMMA QueueStarts == WebhookInit => QueueIInv
<1> SUFFICES ASSUME WebhookInit PROVE QueueIInv
  OBVIOUS
<1> USE WebhookAssumption DEF WebhookInit
<1>0. ASSUME NEW s \in Subs PROVE sub[s] \in SubRow /\ sub[s].failures = 0
  <2>1. CASE sub[s] = NoSub
    BY <2>1 DEF SubRow, NoSub
  <2>2. CASE sub[s] \in [url : Urls, active : {TRUE}, failures : {0}]
    <3> HIDE DEF WebhookInit
    <3>1. TripAfter \in Nat /\ {TRUE} \subseteq BOOLEAN
      OBVIOUS
    <3>2. {0} \subseteq 0..TripAfter
      BY <3>1
    <3> HIDE WebhookAssumption
    <3>3. sub[s] \in [url : Urls, active : BOOLEAN, failures : 0..TripAfter] /\ sub[s].failures = 0
      BY <2>2, <3>1, <3>2
    <3> QED BY <3>3 DEF SubRow
  <2> QED BY <2>1, <2>2
<1>1. QueueTypes
  <2>1. sub \in [Subs -> SubRow]
    BY <1>0
  <2>2. delivery \in [Deliveries -> DeliveryRow]
    BY DEF DeliveryRow, Absent
  <2>3. DOMAIN work = {} /\ DOMAIN seen = {} /\ DOMAIN wrote = {}
    BY DEF Nothing
  <2> QED BY <2>1, <2>2, <2>3 DEF QueueTypes, Nothing
<1>2. PostOK /\ \A d \in DOMAIN work : ClaimOK(d)
  BY DEF PostOK, Nothing
<1>3. ASSUME NEW d \in Deliveries PROVE RowOK(d)
  BY DEF RowOK, Absent, Open
<1>4. ASSUME NEW s \in Subs PROVE SubOK(s) /\ CountOK(s)
  <2>1. sub[s].failures = 0 /\ TripAfter \in Nat \ {0}
    BY <1>0
  <2>2. s \notin DOMAIN seen /\ s \notin DOMAIN wrote
    BY DEF Nothing
  <2>3. Cardinality(ExhaustedOf(s)) \in Nat
    BY SomeDeliveries DEF ExhaustedOf, OfSub
  <2> QED BY <2>1, <2>2, <2>3 DEF SubOK, CountOK
<1> QED BY <1>1, <1>2, <1>3, <1>4 DEF QueueIInv

(* What a step that touches no subscription and no claimed row keeps.      *)
LEMMA QueueFlush ==
  ASSUME QueueIInv, Flush PROVE QueueIInv'
<1> USE DEF QueueIInv, Flush, committed, receiver
<1>1. QueueTypes' /\ PostOK'
  BY DEF QueueTypes, PostOK
<1>2. ASSUME NEW s \in Subs PROVE SubOK(s)' /\ CountOK(s)'
  BY DEF SubOK, CountOK, Refreshed, ExhaustedOf, OfSub, NewlyExhausted
<1>3. ASSUME NEW d \in Deliveries PROVE RowOK(d)'
  BY DEF RowOK, Exists
<1>4. ASSUME NEW d \in DOMAIN work PROVE ClaimOK(d)'
  BY DEF ClaimOK, IsPosted, Known
<1> QED BY <1>1, <1>2, <1>3, <1>4

LEMMA QueueBackoff ==
  ASSUME QueueIInv, NEW q \in Deliveries, BackoffOver(q) PROVE QueueIInv'
<1> USE DEF QueueIInv, BackoffOver, txn, receiver
<1>1. QueueTypes' /\ PostOK'
  BY DEF QueueTypes, PostOK
<1>2. ASSUME NEW s \in Subs PROVE SubOK(s)' /\ CountOK(s)'
  BY DEF SubOK, CountOK, Refreshed, ExhaustedOf, OfSub, NewlyExhausted
<1>3. ASSUME NEW d \in Deliveries PROVE RowOK(d)'
  BY DEF RowOK, Exists
<1>4. ASSUME NEW d \in DOMAIN work PROVE ClaimOK(d)'
  BY DEF ClaimOK, IsPosted, Known
<1> QED BY <1>1, <1>2, <1>3, <1>4

(* A lost transaction leaves the table as it was: what it counted is       *)
(* forgotten, and what its receivers took is explained by it.              *)
LEMMA QueueRollback ==
  ASSUME QueueIInv, Rollback PROVE QueueIInv'
<1> USE DEF QueueIInv, Rollback, Closed, committed, receiver
<1>1. DOMAIN work' = {} /\ DOMAIN seen' = {} /\ DOMAIN wrote' = {}
  BY DEF Nothing
<1>2. QueueTypes' /\ PostOK'
  BY <1>1 DEF QueueTypes, PostOK
<1>3. ASSUME NEW s \in Subs PROVE SubOK(s)' /\ CountOK(s)'
  BY <1>1 DEF SubOK, CountOK, ExhaustedOf, OfSub
<1>4. ASSUME NEW d \in Deliveries PROVE RowOK(d)'
  <2>1. RowOK(d) /\ taken[d] \in Nat /\ unsure[d] \in Nat /\ rollbacks \in Nat
    BY DEF QueueTypes
  <2>2. taken[d] <= unsure[d] + rollbacks'
    BY <2>1 DEF RowOK
  <2>3. UNCHANGED <<sub, delivery, taken, unsure>> /\ rollbacks' \in Nat
    BY <2>1
  <2> HIDE DEF Rollback
  <2> QED BY <2>1, <2>2, <2>3 DEF RowOK, Exists
<1> QED BY <1>1, <1>2, <1>3, <1>4

LEMMA QueueClaim ==
  ASSUME QueueIInv, NEW batch \in SUBSET Deliveries, Claim(batch) PROVE QueueIInv'
<1> USE DEF QueueIInv, Claim, committed, receiver
<1>1. DOMAIN work = {} /\ DOMAIN work' = batch
  BY DEF Nothing
<1>2. settled = {} /\ current = Idle /\ DOMAIN seen = {} /\ DOMAIN wrote = {}
  <2>1. current = Idle
    BY <1>1 DEF PostOK
  <2>2. DOMAIN seen = {}
    BY <1>1 DEF QueueTypes, SubOK
  <2> QED BY <1>1, <2>1, <2>2 DEF QueueTypes
<1>3. ASSUME NEW d \in batch
      PROVE /\ work'[d] \in WorkRow /\ work'[d].status = "delivering" /\ work'[d].sub = delivery[d].sub
            /\ work'[d].attempts = delivery[d].attempts
            /\ delivery[d].status \in Open /\ delivery[d].attempts < MaxAttempts
  <2>1. delivery[d] \in DeliveryRow /\ delivery[d].status \in Open /\ d \in Deliveries
    BY DEF QueueTypes, Ready
  <2>2. delivery[d].sub \in Subs /\ delivery[d].attempts < MaxAttempts
    BY <2>1 DEF RowOK
  <2>3. work'[d] = [delivery[d] EXCEPT !.status = "delivering"]
    OBVIOUS
  <2> QED BY <2>1, <2>2, <2>3 DEF DeliveryRow, WorkRow
<1>4. work' \in [DOMAIN work' -> WorkRow]
  BY <1>1, <1>3
<1>5. QueueTypes' /\ PostOK'
  BY <1>1, <1>2, <1>4 DEF QueueTypes, PostOK
<1>6. ASSUME NEW s \in Subs PROVE SubOK(s)' /\ CountOK(s)'
  BY <1>2 DEF SubOK, CountOK, ExhaustedOf, OfSub
<1>7. ASSUME NEW d \in Deliveries PROVE RowOK(d)'
  BY <1>1 DEF RowOK, Exists
<1>8. ASSUME NEW d \in batch PROVE ClaimOK(d)'
  <2>1. taken[d] <= unsure[d] + rollbacks
    BY <1>1, <1>3 DEF RowOK
  <2> QED BY <1>2, <1>3, <2>1 DEF ClaimOK, IsPosted, Known, Idle
<1> QED BY <1>1, <1>5, <1>6, <1>7, <1>8

(* Requests do not touch what the transaction has claimed.                 *)
LEMMA QueueEnqueue ==
  ASSUME QueueIInv, NEW fresh \in Fresh, Enqueue(fresh) PROVE QueueIInv'
<1> USE DEF QueueIInv, txn, receiver
<1>0. /\ UNCHANGED <<sub, txn, receiver, rollbacks>> /\ due' = due \cup DOMAIN fresh
      /\ DOMAIN fresh \subseteq Deliveries
      /\ \A d \in Deliveries : delivery'[d] = IF d \in DOMAIN fresh
           THEN [sub |-> fresh[d], status |-> "pending", attempts |-> 0] ELSE delivery[d]
  BY DEF Enqueue, Fresh
<1>1. ASSUME NEW d \in DOMAIN fresh
      PROVE /\ delivery'[d] = [sub |-> fresh[d], status |-> "pending", attempts |-> 0]
            /\ fresh[d] \in Subs /\ Exists(fresh[d]) /\ delivery[d] = Absent /\ d \notin DOMAIN work
  <2>1. fresh[d] \in Subs /\ sub[fresh[d]].active /\ delivery[d] = Absent
    BY DEF Enqueue
  <2>2. Exists(fresh[d])
    BY <2>1 DEF Exists, NoSub
  <2>3. d \in DOMAIN work => delivery[d].status \in Open
    BY DEF ClaimOK
  <2> QED BY <1>0, <2>1, <2>2, <2>3 DEF Absent, Open
<1>2. delivery' = [d \in Deliveries |-> IF d \in DOMAIN fresh
                    THEN [sub |-> fresh[d], status |-> "pending", attempts |-> 0] ELSE delivery[d]]
  BY DEF Enqueue
<1>3. delivery' \in [Deliveries -> DeliveryRow]
  <2>1. ASSUME NEW d \in Deliveries PROVE delivery'[d] \in DeliveryRow
    <3>1. delivery[d] \in DeliveryRow /\ 0 \in 0..MaxAttempts
      BY WebhookAssumption DEF QueueTypes
    <3>2. CASE d \in DOMAIN fresh
      <4>1. fresh[d] \in Subs \cup {0} /\ "pending" \in Open \cup Settled \cup {"absent"}
        BY <1>1, <3>2 DEF Open
      <4>2. delivery'[d] = [sub |-> fresh[d], status |-> "pending", attempts |-> 0]
        BY <1>1, <3>2
      <4> QED BY <3>1, <4>1, <4>2 DEF DeliveryRow
    <3>3. CASE d \notin DOMAIN fresh
      BY <1>0, <3>1, <3>3
    <3> QED BY <3>2, <3>3
  <2> QED BY <1>2, <2>1
<1>4. QueueTypes' /\ PostOK'
  BY <1>0, <1>3 DEF QueueTypes, PostOK
<1>5. ASSUME NEW s \in Subs PROVE SubOK(s)' /\ CountOK(s)'
  <2>1. ExhaustedOf(s)' = ExhaustedOf(s)
    <3>1. ASSUME NEW d \in Deliveries
          PROVE  delivery'[d] = delivery[d] \/ (delivery'[d].status # "dead" /\ delivery[d].status # "dead")
      <4>1. CASE d \in DOMAIN fresh
        <5>1. delivery'[d].status = "pending" /\ delivery[d].status = "absent"
          <6> HIDE DEF QueueIInv
          <6>1. delivery[d] = Absent /\ delivery'[d] = [sub |-> fresh[d], status |-> "pending", attempts |-> 0]
            BY <1>1, <4>1
          <6> QED BY <6>1 DEF Absent
        <5> QED BY <5>1
      <4> QED BY <1>0, <4>1
    <3> QED BY <3>1 DEF ExhaustedOf, OfSub, Exhausted
  <2>2. NewlyExhausted(s)' = NewlyExhausted(s) /\ Refreshed(s)' = Refreshed(s)
    BY <1>0 DEF NewlyExhausted, Refreshed
  <2> QED BY <1>0, <2>1, <2>2 DEF SubOK, CountOK
<1>6. ASSUME NEW d \in Deliveries PROVE RowOK(d)'
  <2>1. CASE d \in DOMAIN fresh
    <3>1. delivery[d].status = "absent" /\ d \notin DOMAIN work /\ fresh[d] \in Subs /\ Exists(fresh[d])
      <4> HIDE DEF QueueIInv
      <4>1. delivery[d] = Absent /\ d \notin DOMAIN work /\ fresh[d] \in Subs /\ Exists(fresh[d])
        BY <1>1, <2>1
      <4> QED BY <4>1 DEF Absent
    <3>2. taken[d] <= unsure[d] + rollbacks /\ taken[d] \in Nat /\ unsure[d] \in Nat /\ rollbacks \in Nat
      BY <3>1 DEF RowOK, QueueTypes
    <3>3. delivery'[d].sub = fresh[d] /\ delivery'[d].status = "pending" /\ delivery'[d].attempts = 0 /\ 0 < MaxAttempts
      <4> HIDE DEF QueueIInv
      <4>1. delivery'[d] = [sub |-> fresh[d], status |-> "pending", attempts |-> 0]
        BY <1>1, <2>1
      <4> QED BY <4>1, WebhookAssumption
    <3>4. Exists(fresh[d])' /\ UNCHANGED <<work, taken, unsure, rollbacks>>
      BY <1>0, <3>1 DEF Exists
    <3> QED BY <3>1, <3>2, <3>3, <3>4 DEF RowOK
  <2>2. CASE d \notin DOMAIN fresh
    BY <1>0, <2>2 DEF RowOK, Exists
  <2> QED BY <2>1, <2>2
<1>7. ASSUME NEW d \in DOMAIN work PROVE ClaimOK(d)'
  <2>1. delivery'[d] = delivery[d] /\ d \in Deliveries
    BY <1>0, <1>1 DEF QueueTypes
  <2> QED BY <1>0, <2>1 DEF ClaimOK, IsPosted, Known
<1> QED BY <1>0, <1>4, <1>5, <1>6, <1>7

LEMMA QueueCreateNew ==
  ASSUME QueueIInv, NEW n \in Subs, NEW url \in Urls, CreateNew(n, url) PROVE QueueIInv'
<1> USE DEF QueueIInv, CreateNew, txn, receiver
<1> DEFINE row == [url |-> url, active |-> TRUE, failures |-> 0]
<1>1. row \in SubRow /\ row # NoSub /\ row.active /\ row.failures = 0 /\ TripAfter \in Nat \ {0}
  BY WebhookAssumption DEF SubRow, NoSub
<1>2. sub' = [sub EXCEPT ![n] = row]
  OBVIOUS
<1> HIDE DEF row
<1>3. QueueTypes' /\ PostOK'
  BY <1>1, <1>2 DEF QueueTypes, PostOK
<1>4. n \notin DOMAIN seen /\ n \notin DOMAIN wrote
  <2>1. ASSUME NEW d \in DOMAIN work, work[d].sub = n PROVE FALSE
    BY <2>1 DEF ClaimOK, RowOK, QueueTypes
  <2> QED BY <2>1 DEF SubOK, QueueTypes
<1>5. ASSUME NEW s \in Subs PROVE SubOK(s)' /\ CountOK(s)'
  <2>1. ExhaustedOf(s)' = ExhaustedOf(s) /\ NewlyExhausted(s)' = NewlyExhausted(s)
        /\ Cardinality(ExhaustedOf(s)) \in Nat
    BY SomeDeliveries DEF ExhaustedOf, OfSub, NewlyExhausted
  <2>2. CASE s = n
    BY <1>1, <1>2, <1>4, <2>1, <2>2 DEF SubOK, CountOK, QueueTypes
  <2>3. CASE s # n
    <3>1. sub'[s] = sub[s] /\ Refreshed(s)' = Refreshed(s)
      BY <1>2, <2>3 DEF QueueTypes, Refreshed
    <3> QED BY <2>1, <3>1 DEF SubOK, CountOK
  <2> QED BY <2>2, <2>3
<1>6. ASSUME NEW d \in Deliveries PROVE RowOK(d)'
  BY <1>1, <1>2 DEF RowOK, Exists, QueueTypes
<1>7. ASSUME NEW d \in DOMAIN work PROVE ClaimOK(d)'
  BY DEF ClaimOK, IsPosted, Known
<1> QED BY <1>3, <1>5, <1>6, <1>7

(* Nobody who is claimed is deleted: neither the transaction's copy nor    *)
(* its change is of such a subscription.                                   *)
LEMMA UnclaimedUnseen ==
  ASSUME QueueIInv, NEW s \in Subs, ~Claimed(s)
  PROVE  s \notin DOMAIN seen /\ s \notin DOMAIN wrote /\ \A d \in DOMAIN work : delivery[d].sub # s
<1>1. ASSUME NEW d \in DOMAIN work PROVE delivery[d].sub # s /\ work[d].sub = delivery[d].sub
  BY DEF QueueIInv, QueueTypes, ClaimOK, Claimed, OfSub
<1> QED BY <1>1 DEF QueueIInv, QueueTypes, SubOK

LEMMA QueueCreateAgain ==
  ASSUME QueueIInv, NEW n \in Subs, CreateAgain(n) PROVE QueueIInv'
<1> DEFINE same == {o \in Subs : Exists(o) /\ sub[o].url = sub[n].url}
           extra == same \ {n}
           r1 == [sub[n] EXCEPT !.active = TRUE]
           row == [r1 EXCEPT !.failures = 0]
<1>1. /\ Exists(n) /\ \A o \in extra : ~Claimed(o)
      /\ sub' = [o \in Subs |-> IF o = n THEN [sub[n] EXCEPT !.active = TRUE, !.failures = 0]
                                ELSE IF o \in extra THEN NoSub ELSE sub[o]]
      /\ delivery' = [d \in Deliveries |-> IF delivery[d].sub \in extra
                        THEN [delivery[d] EXCEPT !.sub = n] ELSE delivery[d]]
      /\ UNCHANGED <<due, txn, receiver, rollbacks>>
  BY DEF CreateAgain
<1>2. extra \subseteq Subs /\ n \notin extra
  OBVIOUS
<1> HIDE DEF extra
<1>3. TripAfter \in Nat \ {0} /\ QueueTypes
  BY WebhookAssumption DEF QueueIInv
<1>4. sub'[n] = row
  BY <1>1
<1>5. row \in SubRow /\ row # NoSub /\ row.active = TRUE /\ row.failures = 0
  <2>1. sub[n] \in [url : Urls, active : BOOLEAN, failures : 0..TripAfter]
    BY <1>1, <1>3 DEF QueueTypes, Exists, SubRow
  <2>2. r1 \in [url : Urls, active : BOOLEAN, failures : 0..TripAfter] /\ r1.active = TRUE
    BY <2>1
  <2> HIDE DEF r1
  <2>3. row \in [url : Urls, active : BOOLEAN, failures : 0..TripAfter] /\ row.active = TRUE /\ row.failures = 0
    BY <1>3, <2>2
  <2> HIDE DEF row
  <2> QED BY <2>3 DEF SubRow, NoSub
<1> HIDE DEF row
<1>6. ASSUME NEW o \in Subs PROVE sub'[o] = IF o = n THEN row ELSE IF o \in extra THEN NoSub ELSE sub[o]
  BY <1>1, <1>4
<1>7. ASSUME NEW d \in Deliveries
      PROVE  /\ delivery'[d] \in DeliveryRow
             /\ delivery'[d].status = delivery[d].status /\ delivery'[d].attempts = delivery[d].attempts
             /\ delivery'[d].sub = IF delivery[d].sub \in extra THEN n ELSE delivery[d].sub
  <2>1. delivery[d] \in DeliveryRow
    BY <1>3 DEF QueueTypes
  <2>2. delivery'[d] = IF delivery[d].sub \in extra THEN [delivery[d] EXCEPT !.sub = n] ELSE delivery[d]
    BY <1>1
  <2> QED BY <2>1, <2>2 DEF DeliveryRow
<1>8. /\ UNCHANGED <<due, work, settled, current, seen, wrote, held, taken, unsure, rollbacks>>
      /\ sub' \in [Subs -> SubRow] /\ delivery' \in [Deliveries -> DeliveryRow]
  <2>1. NoSub \in SubRow
    BY DEF SubRow
  <2>2. \A o \in Subs : sub'[o] \in SubRow
    BY <1>3, <1>5, <1>6, <2>1 DEF QueueTypes
  <2> QED BY <1>1, <1>7, <2>2 DEF txn, receiver
<1>9. QueueTypes' /\ PostOK'
  BY <1>3, <1>8 DEF QueueTypes, PostOK, QueueIInv
<1>10. ASSUME NEW o \in extra
       PROVE  o \notin DOMAIN seen /\ o \notin DOMAIN wrote /\ \A d \in DOMAIN work : delivery[d].sub # o
  BY <1>1, <1>2, UnclaimedUnseen
<1>11. ASSUME NEW s \in Subs PROVE SubOK(s)' /\ CountOK(s)'
  <2>1. NewlyExhausted(s)' = NewlyExhausted(s) /\ SubOK(s) /\ CountOK(s)
    BY <1>8 DEF NewlyExhausted, QueueIInv
  <2>2. ExhaustedOf(s) \in SUBSET Deliveries /\ ExhaustedOf(s)' \in SUBSET Deliveries /\ NewlyExhausted(s) \in SUBSET Deliveries
    BY <1>3 DEF ExhaustedOf, OfSub, NewlyExhausted, QueueTypes
  <2>3. s \notin extra => ExhaustedOf(s) \subseteq ExhaustedOf(s)'
    BY <1>2, <1>7 DEF ExhaustedOf, OfSub, Exhausted
  <2>4. /\ Cardinality(ExhaustedOf(s)) \in Nat /\ Cardinality(ExhaustedOf(s)') \in Nat
        /\ Cardinality(NewlyExhausted(s)) \in Nat
        /\ s \notin extra => Cardinality(ExhaustedOf(s)) <= Cardinality(ExhaustedOf(s)')
    BY <2>2, <2>3, SomeDeliveries, FewerDeliveries
  <2>5. s \in DOMAIN wrote => wrote[s].failures \in Nat /\ wrote[s].failures \in 0..TripAfter
    BY <1>3 DEF QueueTypes, Change
  <2>6. sub[s].failures \in Nat
    BY <1>3 DEF QueueTypes, SubRow, NoSub
  <2>7. CASE s \in extra
    <3>1. s \notin DOMAIN seen /\ s \notin DOMAIN wrote /\ sub'[s].active = FALSE /\ sub'[s].failures = 0
      BY <1>2, <1>6, <1>10, <2>7 DEF NoSub
    <3> QED BY <1>8, <2>4, <3>1 DEF SubOK, CountOK
  <2>8. CASE s = n
    <3>1. s \notin extra /\ sub'[s].failures = 0
      BY <1>2, <1>4, <1>5, <2>8
    <3>2. (s \notin DOMAIN wrote => Refreshed(s)'.failures = 0)
          /\ (s \in DOMAIN wrote => Refreshed(s)'.failures = wrote[s].failures /\ Refreshed(s).failures = wrote[s].failures)
      <4>1. Exists(s)' /\ Exists(s)
        BY <1>1, <1>4, <1>5, <2>8 DEF Exists
      <4>2. s \in DOMAIN wrote => wrote[s] \in Change
        BY <1>3 DEF QueueTypes
      <4>3. s \in DOMAIN wrote => Applied(sub'[s], wrote[s]).failures = wrote[s].failures
        BY <1>4, <1>5, <2>8, <4>2, AppliedOne
      <4>4. Refreshed(s)' = IF s \in DOMAIN wrote THEN Applied(sub'[s], wrote[s]) ELSE sub'[s]
        BY <1>8 DEF Refreshed, Applied
      <4> QED BY <1>3, <3>1, <4>1, <4>3, <4>4, RefreshedOne
    <3>3. SubOK(s)'
      BY <1>3, <1>8, <2>1, <3>1, <3>2 DEF SubOK
    <3>4. CountOK(s)'
      BY <1>8, <2>1, <2>4, <2>5, <3>1 DEF CountOK
    <3> QED BY <3>3, <3>4
  <2>9. CASE s # n /\ s \notin extra
    <3>1. sub'[s] = sub[s] /\ Refreshed(s)' = Refreshed(s)
      BY <1>6, <1>8, <2>9 DEF Refreshed
    <3>2. SubOK(s)'
      BY <1>8, <2>1, <3>1 DEF SubOK
    <3>3. CountOK(s)'
      BY <1>8, <2>1, <2>4, <2>5, <2>6, <2>9, <3>1 DEF CountOK
    <3> QED BY <3>2, <3>3
  <2> QED BY <2>7, <2>8, <2>9
<1>12. ASSUME NEW d \in Deliveries PROVE RowOK(d)'
  <2>1. RowOK(d)
    BY DEF QueueIInv
  <2>2. delivery[d].sub \in Subs => sub[delivery[d].sub] # NoSub
    BY <2>1 DEF RowOK, Exists
  <2>3. delivery'[d].sub \in Subs => sub'[delivery'[d].sub] # NoSub
    <3>1. CASE delivery[d].sub \in extra
      BY <1>4, <1>5, <1>7, <3>1
    <3>2. CASE delivery[d].sub \notin extra
      BY <1>4, <1>5, <1>6, <1>7, <2>2, <3>2
    <3> QED BY <3>1, <3>2
  <2>4. delivery[d].status \in Open => delivery'[d].sub \in Subs /\ delivery[d].attempts < MaxAttempts
    BY <1>7, <2>1 DEF RowOK
  <2> QED BY <1>7, <1>8, <2>1, <2>3, <2>4 DEF RowOK, Exists
<1>13. ASSUME NEW d \in DOMAIN work PROVE ClaimOK(d)'
  <2>1. ClaimOK(d) /\ d \in Deliveries /\ delivery[d].sub \notin extra
    BY <1>3, <1>10 DEF QueueIInv, QueueTypes
  <2> QED BY <1>7, <1>8, <2>1 DEF ClaimOK, IsPosted, Known
<1> QED BY <1>8, <1>9, <1>11, <1>12, <1>13 DEF QueueIInv

LEMMA QueueDeleteSub ==
  ASSUME QueueIInv, NEW n \in Subs, DeleteSub(n) PROVE QueueIInv'
<1>1. /\ ~Claimed(n) /\ sub' = [sub EXCEPT ![n] = NoSub]
      /\ delivery' = [d \in Deliveries |-> IF delivery[d].sub = n
                    THEN [delivery[d] EXCEPT !.sub = 0, !.status = "deleted"] ELSE delivery[d]]
      /\ due' = due \ OfSub(n)
      /\ UNCHANGED <<work, settled, current, seen, wrote, held, taken, unsure, rollbacks>>
  BY DEF DeleteSub, txn, receiver
<1>2. QueueTypes /\ TripAfter \in Nat \ {0} /\ NoSub \in SubRow /\ NoSub.active = FALSE /\ NoSub.failures = 0 /\ 0 \notin Subs
  BY WebhookAssumption DEF QueueIInv, SubRow, NoSub
<1>3. ASSUME NEW d \in Deliveries
      PROVE  /\ delivery'[d] \in DeliveryRow
             /\ delivery[d].sub # n => delivery'[d] = delivery[d]
             /\ delivery[d].sub = n => delivery'[d].sub = 0 /\ delivery'[d].status = "deleted"
  <2>1. delivery[d] \in DeliveryRow
    BY <1>2 DEF QueueTypes
  <2>2. delivery'[d] = IF delivery[d].sub = n THEN [delivery[d] EXCEPT !.sub = 0, !.status = "deleted"] ELSE delivery[d]
    BY <1>1
  <2> DEFINE r1 == [delivery[d] EXCEPT !.sub = 0]
             r2 == [r1 EXCEPT !.status = "deleted"]
  <2>3. r1 \in DeliveryRow /\ r1.sub = 0
    BY <2>1 DEF DeliveryRow
  <2>4. delivery'[d] = IF delivery[d].sub = n THEN r2 ELSE delivery[d]
    BY <2>2
  <2> HIDE DEF r1
  <2>5. r2 \in DeliveryRow /\ r2.sub = 0 /\ r2.status = "deleted"
    BY <2>3 DEF DeliveryRow, Settled
  <2> HIDE DEF r2
  <2> QED BY <2>1, <2>4, <2>5
<1>4. QueueTypes' /\ PostOK'
  <2>1. delivery' \in [Deliveries -> DeliveryRow] /\ sub' \in [Subs -> SubRow]
    BY <1>1, <1>2, <1>3 DEF QueueTypes
  <2> QED BY <1>1, <1>2, <2>1 DEF QueueTypes, PostOK, QueueIInv
<1>5. n \notin DOMAIN seen /\ n \notin DOMAIN wrote /\ \A d \in DOMAIN work : delivery[d].sub # n
  BY <1>1, UnclaimedUnseen
<1>6. ASSUME NEW s \in Subs PROVE SubOK(s)' /\ CountOK(s)'
  <2>1. NewlyExhausted(s)' = NewlyExhausted(s) /\ SubOK(s) /\ CountOK(s)
    BY <1>1 DEF NewlyExhausted, QueueIInv
  <2>2. CASE s = n
    <3>1. ExhaustedOf(s)' \in SUBSET Deliveries /\ sub'[s] = NoSub
      BY <1>1, <1>2, <2>2 DEF ExhaustedOf, OfSub, QueueTypes
    <3>2. Cardinality(ExhaustedOf(s)') \in Nat
      BY <3>1, SomeDeliveries
    <3>3. sub'[s].active = FALSE /\ sub'[s].failures = 0 /\ s \notin DOMAIN seen' /\ s \notin DOMAIN wrote'
      BY <1>1, <1>2, <1>5, <2>2, <3>1
    <3> QED BY <3>2, <3>3 DEF SubOK, CountOK
  <2>3. CASE s # n
    <3>1. sub'[s] = sub[s] /\ Refreshed(s)' = Refreshed(s)
      BY <1>1, <1>2, <2>3 DEF Refreshed, QueueTypes
    <3>2. ExhaustedOf(s)' = ExhaustedOf(s)
      <4>1. ASSUME NEW d \in Deliveries
            PROVE  delivery'[d] = delivery[d] \/ (delivery'[d].sub # s /\ delivery[d].sub # s)
        BY <1>2, <1>3, <2>3
      <4> QED BY <4>1 DEF ExhaustedOf, OfSub, Exhausted
    <3> QED BY <1>1, <2>1, <3>1, <3>2 DEF SubOK, CountOK
  <2> QED BY <2>2, <2>3
<1>7. ASSUME NEW d \in Deliveries PROVE RowOK(d)'
  <2>1. RowOK(d)
    BY DEF QueueIInv
  <2>2. CASE delivery[d].sub = n
    BY <1>1, <1>2, <1>3, <2>1, <2>2 DEF RowOK, Open
  <2>3. CASE delivery[d].sub # n
    <3>1. delivery'[d] = delivery[d] /\ (delivery[d].sub \in Subs => sub'[delivery[d].sub] = sub[delivery[d].sub])
      BY <1>1, <1>2, <1>3, <2>3 DEF QueueTypes
    <3> QED BY <1>1, <2>1, <3>1 DEF RowOK, Exists
  <2> QED BY <2>2, <2>3
<1>8. ASSUME NEW d \in DOMAIN work PROVE ClaimOK(d)'
  <2>1. ClaimOK(d) /\ d \in Deliveries /\ delivery'[d] = delivery[d]
    BY <1>2, <1>3, <1>5 DEF QueueIInv, QueueTypes
  <2> QED BY <1>1, <2>1 DEF ClaimOK, IsPosted, Known
<1> QED BY <1>1, <1>4, <1>6, <1>7, <1>8 DEF QueueIInv

(* The session loads a subscription that is claimed, so that it exists.    *)
LEMMA LoadedOne ==
  ASSUME QueueIInv, NEW d \in DOMAIN work
  PROVE  /\ work[d].sub \in Subs /\ Exists(work[d].sub) /\ d \in Deliveries /\ work[d] \in WorkRow
         /\ Loaded(work[d].sub) \in SubRow
         /\ work[d].sub \notin DOMAIN seen => Loaded(work[d].sub) = sub[work[d].sub]
         /\ Loaded(work[d].sub).active => Refreshed(work[d].sub).failures < TripAfter
<1>1. work[d].sub \in Subs /\ d \in Deliveries /\ work[d] \in WorkRow
  BY DEF QueueIInv, QueueTypes, WorkRow
<1>2. Exists(work[d].sub)
  BY <1>1 DEF QueueIInv, ClaimOK, RowOK
<1>3. SubOK(work[d].sub) /\ QueueTypes
  BY <1>1 DEF QueueIInv
<1>4. CASE work[d].sub \in DOMAIN seen
  BY <1>1, <1>2, <1>3, <1>4 DEF Loaded, QueueTypes, SubOK
<1>5. CASE work[d].sub \notin DOMAIN seen
  <2>1. work[d].sub \notin DOMAIN wrote
    BY <1>3, <1>5 DEF QueueTypes
  <2> QED BY <1>1, <1>2, <1>3, <1>5, <2>1 DEF Loaded, QueueTypes, SubOK, Refreshed
<1> QED BY <1>1, <1>2, <1>4, <1>5

(* A post that is settled as a failure is nobody's success.                *)
LEMMA QueueAbandon ==
  ASSUME QueueIInv, NEW q \in Deliveries, Abandon(q) PROVE QueueIInv'
<1> DEFINE s0 == work[q].sub
<1>1. /\ q \in DOMAIN work /\ q \notin settled /\ current = Idle
      /\ Settle(q, "dead") /\ settled' = settled \cup {q} /\ seen' = With(seen, s0, Loaded(s0))
      /\ UNCHANGED <<sub, delivery, due, current, wrote, held, taken, unsure, rollbacks>>
  BY DEF Abandon, Unsettled, Settle, committed, receiver
<1>2. QueueTypes /\ PostOK
  BY DEF QueueIInv
<1>3. /\ DOMAIN work' = DOMAIN work /\ work' \in [DOMAIN work -> WorkRow]
      /\ work'[q].status = "dead" /\ work'[q].sub = work[q].sub /\ work'[q].attempts = work[q].attempts
      /\ \A e \in DOMAIN work : e # q => work'[e] = work[e]
  BY <1>1, <1>2, SettleOne
<1>4. /\ s0 \in Subs /\ Loaded(s0) \in SubRow
      /\ Loaded(s0).active => Refreshed(s0).failures < TripAfter
  BY <1>1, LoadedOne
<1>5. /\ DOMAIN seen' = DOMAIN seen \cup {s0} /\ seen' \in [DOMAIN seen' -> SubRow] /\ seen'[s0] = Loaded(s0)
      /\ \A x \in DOMAIN seen : x # s0 => seen'[x] = seen[x]
  <2>1. seen \in [DOMAIN seen -> SubRow]
    BY <1>2 DEF QueueTypes
  <2> QED BY <1>1, <1>4, <2>1 DEF With
<1>6. QueueTypes' /\ PostOK'
  <2>1. QueueTypes'
    BY <1>1, <1>2, <1>3, <1>4, <1>5 DEF QueueTypes
  <2> QED BY <1>1, <2>1 DEF PostOK
<1>7. ASSUME NEW s \in Subs PROVE SubOK(s)' /\ CountOK(s)'
  <2>1. SubOK(s) /\ CountOK(s) /\ Refreshed(s)' = Refreshed(s) /\ ExhaustedOf(s)' = ExhaustedOf(s)
    BY <1>1 DEF QueueIInv, Refreshed, ExhaustedOf, OfSub
  <2>2. s \in DOMAIN seen' => \E d \in DOMAIN work' : work'[d].sub = s
    BY <1>1, <1>3, <1>5, <2>1 DEF SubOK
  <2>3. s \in DOMAIN seen' /\ seen'[s].active => Refreshed(s).failures < TripAfter
    BY <1>4, <1>5, <2>1 DEF SubOK
  <2>4. ClaimOK(q) /\ work[q].status # "dead"
    BY <1>1 DEF QueueIInv, ClaimOK
  <2>5. NewlyExhausted(s) \subseteq NewlyExhausted(s)' /\ NewlyExhausted(s)' \in SUBSET Deliveries
    BY <1>2, <1>3, <2>4 DEF NewlyExhausted, Exhausted, QueueTypes
  <2>6. /\ Cardinality(NewlyExhausted(s)) <= Cardinality(NewlyExhausted(s)')
        /\ Cardinality(NewlyExhausted(s)) \in Nat /\ Cardinality(NewlyExhausted(s)') \in Nat
    BY <2>5, FewerDeliveries, SomeDeliveries
  <2>7. Cardinality(ExhaustedOf(s)) \in Nat
    BY SomeDeliveries DEF ExhaustedOf, OfSub
  <2>8. s \in DOMAIN wrote => wrote[s].failures \in Nat
    BY <1>2 DEF QueueTypes, Change
  <2>9. CountOK(s)'
    BY <1>1, <2>1, <2>6, <2>7, <2>8 DEF CountOK
  <2> QED BY <1>1, <2>1, <2>2, <2>3, <2>9 DEF SubOK
<1>8. ASSUME NEW d \in Deliveries PROVE RowOK(d)'
  BY <1>1, <1>3 DEF RowOK, Exists, QueueIInv
<1>9. ASSUME NEW d \in DOMAIN work PROVE ClaimOK(d)'
  <2>1. ClaimOK(d) /\ ClaimOK(q)
    BY <1>1 DEF QueueIInv
  <2>2. (Known(d)' <=> d # q /\ Known(d)) /\ ~Known(q)
    BY <1>1, <1>3, <2>1 DEF Known, Idle, ClaimOK
  <2>3. ~IsPosted(d)' /\ ~IsPosted(d)
    BY <1>1 DEF IsPosted
  <2> QED BY <1>1, <1>3, <2>1, <2>2, <2>3 DEF ClaimOK
<1> QED BY <1>3, <1>6, <1>7, <1>8, <1>9 DEF QueueIInv

LEMMA QueueRetry ==
  ASSUME QueueIInv, NEW q \in Deliveries, Retry(q) PROVE QueueIInv'
<1>1. /\ current = [id |-> q, answer |-> "error"] /\ q \in DOMAIN work /\ q \notin settled
      /\ Settle(q, "failed") /\ settled' = settled \cup {q} /\ current' = Idle
      /\ UNCHANGED <<sub, delivery, due, seen, wrote, held, taken, unsure, rollbacks>>
  <2>1. current = [id |-> q, answer |-> "error"]
    BY DEF Retry
  <2>2. current # Idle /\ current.id = q
    BY <2>1 DEF Idle
  <2>3. q \in DOMAIN work /\ q \notin settled
    BY <2>2 DEF PostOK, QueueIInv
  <2> QED BY <2>1, <2>3 DEF Retry, Settle, committed, receiver
<1>2. QueueTypes /\ PostOK
  BY DEF QueueIInv
<1>3. /\ DOMAIN work' = DOMAIN work /\ work' \in [DOMAIN work -> WorkRow]
      /\ work'[q].status = "failed" /\ work'[q].sub = work[q].sub /\ work'[q].attempts = work[q].attempts
      /\ \A e \in DOMAIN work : e # q => work'[e] = work[e]
  BY <1>1, <1>2, SettleOne
<1>4. work[q].attempts < MaxAttempts
  <2>1. work[q].attempts \in 0..MaxAttempts /\ MaxAttempts \in Nat
    BY <1>1, <1>2, WebhookAssumption DEF QueueTypes, WorkRow
  <2> QED BY <2>1 DEF Retry, Exhausted
<1>5. QueueTypes' /\ PostOK'
  <2>1. QueueTypes'
    BY <1>1, <1>2, <1>3 DEF QueueTypes
  <2> QED BY <1>1, <2>1 DEF PostOK
<1>6. ASSUME NEW s \in Subs PROVE SubOK(s)' /\ CountOK(s)'
  <2>1. SubOK(s) /\ CountOK(s) /\ Refreshed(s)' = Refreshed(s) /\ ExhaustedOf(s)' = ExhaustedOf(s)
    BY <1>1 DEF QueueIInv, Refreshed, ExhaustedOf, OfSub
  <2>2. ClaimOK(q) /\ work[q].status # "dead"
    BY <1>1 DEF QueueIInv, ClaimOK
  <2>3. NewlyExhausted(s) = NewlyExhausted(s)'
    BY <1>3, <2>2 DEF NewlyExhausted, Exhausted
  <2>4. (\E d \in DOMAIN work : work[d].sub = s) => \E d \in DOMAIN work' : work'[d].sub = s
    BY <1>3
  <2> QED BY <1>1, <2>1, <2>3, <2>4 DEF SubOK, CountOK
<1>7. ASSUME NEW d \in Deliveries PROVE RowOK(d)'
  BY <1>1, <1>3 DEF RowOK, Exists, QueueIInv
<1>8. ASSUME NEW d \in DOMAIN work PROVE ClaimOK(d)'
  <2>1. ClaimOK(d) /\ ClaimOK(q)
    BY <1>1 DEF QueueIInv
  <2>2. (Known(d)' <=> Known(d)) /\ ~Known(q) /\ ~Known(q)'
    BY <1>1, <1>3, <2>1 DEF Known, Idle, ClaimOK
  <2>3. ~IsPosted(d)' /\ (d # q => ~IsPosted(d))
    BY <1>1 DEF IsPosted, Idle
  <2> QED BY <1>1, <1>3, <1>4, <2>1, <2>2, <2>3 DEF ClaimOK
<1> QED BY <1>3, <1>5, <1>6, <1>7, <1>8 DEF QueueIInv

(* The post: what the receiver took is either the answer the worker is     *)
(* about to record or one that was lost.                                   *)
LEMMA QueuePost ==
  ASSUME QueueIInv, NEW q \in Deliveries, NEW accepted \in BOOLEAN, NEW answer \in {"ok", "error"},
         Post(q, accepted, answer)
  PROVE  QueueIInv'
<1> DEFINE s0 == work[q].sub
<1>1. /\ q \in DOMAIN work /\ q \notin settled /\ current = Idle /\ Loaded(s0).active
      /\ answer = "ok" => accepted
      /\ work' = [work EXCEPT ![q].attempts = @ + 1]
      /\ taken' = IF accepted THEN [taken EXCEPT ![q] = @ + 1] ELSE taken
      /\ unsure' = IF accepted /\ answer # "ok" THEN [unsure EXCEPT ![q] = @ + 1] ELSE unsure
      /\ seen' = With(seen, s0, Loaded(s0)) /\ current' = [id |-> q, answer |-> answer]
      /\ UNCHANGED <<sub, delivery, due, settled, wrote, held, rollbacks>>
  BY DEF Post, Unsettled, committed
<1>2. QueueTypes /\ PostOK /\ MaxAttempts \in Nat
  BY WebhookAssumption DEF QueueIInv
<1>3. /\ s0 \in Subs /\ Loaded(s0) \in SubRow /\ work[q] \in WorkRow
      /\ Loaded(s0).active => Refreshed(s0).failures < TripAfter
  BY <1>1, LoadedOne
<1>4. ClaimOK(q) /\ work[q].attempts < MaxAttempts /\ work[q].status = "delivering" /\ ~Known(q)
  <2>1. ClaimOK(q) /\ ~IsPosted(q)
    BY <1>1 DEF QueueIInv, IsPosted
  <2>2. work[q].status = "delivering" /\ work[q].attempts < MaxAttempts
    BY <1>1, <2>1 DEF ClaimOK
  <2> QED BY <1>1, <2>1, <2>2 DEF Known, Idle
<1>5. /\ DOMAIN work' = DOMAIN work /\ work' \in [DOMAIN work -> WorkRow]
      /\ work'[q].status = "delivering" /\ work'[q].sub = work[q].sub
      /\ \A e \in DOMAIN work : e # q => work'[e] = work[e]
  <2>1. work' = [work EXCEPT ![q] = [work[q] EXCEPT !.attempts = work[q].attempts + 1]] /\ work \in [DOMAIN work -> WorkRow]
    BY <1>1, <1>2 DEF QueueTypes
  <2>2. [work[q] EXCEPT !.attempts = work[q].attempts + 1] \in WorkRow
    BY <1>2, <1>3, <1>4 DEF WorkRow
  <2> QED BY <1>1, <1>3, <1>4, <2>1, <2>2 DEF WorkRow
<1>6. /\ DOMAIN seen' = DOMAIN seen \cup {s0} /\ seen' \in [DOMAIN seen' -> SubRow] /\ seen'[s0] = Loaded(s0)
      /\ \A x \in DOMAIN seen : x # s0 => seen'[x] = seen[x]
  <2>1. seen \in [DOMAIN seen -> SubRow]
    BY <1>2 DEF QueueTypes
  <2> QED BY <1>1, <1>3, <2>1 DEF With
<1>7. /\ taken' \in [Deliveries -> Nat] /\ unsure' \in [Deliveries -> Nat]
      /\ \A d \in Deliveries : d # q => taken'[d] = taken[d] /\ unsure'[d] = unsure[d]
      /\ answer = "ok" => taken'[q] = taken[q] + 1
      /\ unsure'[q] >= unsure[q] /\ taken'[q] >= taken[q] /\ taken'[q] <= taken[q] + 1
      /\ answer # "ok" /\ taken'[q] = taken[q] + 1 => unsure'[q] = unsure[q] + 1
  <2>1. taken \in [Deliveries -> Nat] /\ unsure \in [Deliveries -> Nat]
    BY <1>2 DEF QueueTypes
  <2>2. CASE ~accepted
    BY <1>1, <2>1, <2>2
  <2>3. CASE accepted /\ answer # "ok"
    <3>1. taken' = [taken EXCEPT ![q] = taken[q] + 1] /\ unsure' = [unsure EXCEPT ![q] = unsure[q] + 1]
      BY <1>1, <2>3
    <3> QED BY <2>1, <2>3, <3>1
  <2>4. CASE accepted /\ answer = "ok"
    <3>1. taken' = [taken EXCEPT ![q] = taken[q] + 1] /\ unsure' = unsure
      BY <1>1, <2>4
    <3> QED BY <2>1, <2>4, <3>1
  <2> QED BY <2>2, <2>3, <2>4
<1>8. current' \in Posted /\ current' # Idle /\ current'.id = q
  BY <1>1 DEF Posted, Idle
<1>9. QueueTypes' /\ PostOK'
  <2>1. QueueTypes'
    BY <1>1, <1>2, <1>3, <1>5, <1>6, <1>7, <1>8 DEF QueueTypes
  <2> QED BY <1>1, <1>5, <1>8, <2>1 DEF PostOK
<1>10. ASSUME NEW s \in Subs PROVE SubOK(s)' /\ CountOK(s)'
  <2>1. SubOK(s) /\ CountOK(s) /\ Refreshed(s)' = Refreshed(s) /\ ExhaustedOf(s)' = ExhaustedOf(s)
    BY <1>1 DEF QueueIInv, Refreshed, ExhaustedOf, OfSub
  <2>2. s \in DOMAIN seen' => \E d \in DOMAIN work' : work'[d].sub = s
    BY <1>1, <1>5, <1>6, <2>1 DEF SubOK
  <2>3. s \in DOMAIN seen' /\ seen'[s].active => Refreshed(s).failures < TripAfter
    BY <1>3, <1>6, <2>1 DEF SubOK
  <2>4. NewlyExhausted(s)' = NewlyExhausted(s)
    BY <1>4, <1>5 DEF NewlyExhausted, Exhausted
  <2> QED BY <1>1, <2>1, <2>2, <2>3, <2>4 DEF SubOK, CountOK
<1>11. /\ taken[q] <= unsure[q] + rollbacks /\ taken[q] \in Nat /\ unsure[q] \in Nat /\ rollbacks \in Nat
       /\ taken'[q] \in Nat /\ unsure'[q] \in Nat
  BY <1>2, <1>4, <1>7 DEF ClaimOK, QueueTypes
<1>12. ASSUME NEW d \in Deliveries PROVE RowOK(d)'
  <2>1. RowOK(d)
    BY DEF QueueIInv
  <2>2. CASE d = q
    <3>1. taken'[q] <= 1 + unsure'[q] + rollbacks
      BY <1>7, <1>11
    <3>2. taken[q] > 0 => taken'[q] > 0
      BY <1>7, <1>11
    <3> QED BY <1>1, <1>5, <2>1, <2>2, <3>1, <3>2 DEF RowOK, Exists
  <2>3. CASE d # q
    <3>1. taken'[d] = taken[d] /\ unsure'[d] = unsure[d]
      BY <1>7, <2>3
    <3> QED BY <1>1, <1>5, <2>1, <2>3, <3>1 DEF RowOK, Exists
  <2> QED BY <2>2, <2>3
<1>13. ASSUME NEW d \in DOMAIN work PROVE ClaimOK(d)'
  <2>1. ClaimOK(d) /\ d \in Deliveries
    BY <1>2 DEF QueueIInv, QueueTypes
  <2>2. CASE d = q
    <3>1. (Known(d)' <=> answer = "ok") /\ IsPosted(d)'
      BY <1>1, <1>5, <1>8, <2>2 DEF Known, IsPosted
    <3>2. answer = "ok" => taken'[q] > 0
      BY <1>7, <1>11
    <3>3. answer # "ok" => taken'[q] <= unsure'[q] + rollbacks
      BY <1>7, <1>11
    <3> QED BY <1>1, <1>3, <1>4, <1>5, <1>6, <2>1, <2>2, <3>1, <3>2, <3>3 DEF ClaimOK
  <2>3. CASE d # q
    <3>1. (Known(d)' <=> Known(d)) /\ ~IsPosted(d)' /\ ~IsPosted(d)
      BY <1>1, <1>5, <1>8, <2>3 DEF Known, IsPosted, Idle
    <3>2. taken'[d] = taken[d] /\ unsure'[d] = unsure[d] /\ work'[d] = work[d]
      BY <1>5, <1>7, <2>1, <2>3
    <3> QED BY <1>1, <2>1, <2>3, <3>1, <3>2 DEF ClaimOK
  <2> QED BY <2>2, <2>3
<1> QED BY <1>5, <1>9, <1>10, <1>12, <1>13 DEF QueueIInv

(* A change to a subscription is what the session has of it from then on.  *)
LEMMA ChangesOne ==
  ASSUME QueueTypes, UNCHANGED sub, NEW s \in Subs, s \in DOMAIN seen, Exists(s),
         NEW c \in Change, c.failures >= TripAfter <=> c.tripped, Changes(s, c)
  PROVE  /\ DOMAIN seen' = DOMAIN seen /\ seen' \in [DOMAIN seen' -> SubRow]
         /\ DOMAIN wrote' = DOMAIN wrote \cup {s} /\ wrote' \in [DOMAIN wrote' -> Change]
         /\ held' \subseteq DOMAIN wrote'
         /\ wrote'[s] = c /\ Refreshed(s)'.failures = c.failures
         /\ seen'[s].active => c.failures < TripAfter
         /\ \A x \in Subs : x # s =>
              /\ x \in DOMAIN wrote' <=> x \in DOMAIN wrote
              /\ x \in DOMAIN wrote => wrote'[x] = wrote[x]
              /\ x \in DOMAIN seen => seen'[x] = seen[x]
              /\ Refreshed(x)' = Refreshed(x)
<1> DEFINE new == Applied(Refreshed(s), c)
<1>1. /\ seen' = [x \in DOMAIN seen \cup {s} |-> IF x = s THEN new ELSE seen[x]]
      /\ wrote' = [x \in DOMAIN wrote \cup {s} |-> IF x = s THEN c ELSE wrote[x]]
      /\ held' = held \ {s} /\ sub' = sub
  BY DEF Changes, With
<1>2. new \in SubRow /\ new.failures = c.failures /\ (new.active => ~c.tripped)
  BY RefreshedOne, AppliedOne
<1> HIDE DEF new
<1>3. sub[s] \in SubRow /\ sub[s] # NoSub /\ c.failures \in Nat /\ TripAfter \in Nat
  BY WebhookAssumption DEF QueueTypes, Exists, Change
<1>4. Applied(sub[s], c).failures = c.failures
  BY <1>3, AppliedOne
<1>5. Refreshed(s)' = Applied(sub[s], c)
  BY <1>1 DEF Refreshed, Applied
<1>6. ASSUME NEW x \in Subs, x # s PROVE Refreshed(x)' = Refreshed(x)
  BY <1>1, <1>6 DEF Refreshed, Applied
<1>7. /\ DOMAIN seen' = DOMAIN seen /\ seen' \in [DOMAIN seen' -> SubRow]
      /\ DOMAIN wrote' = DOMAIN wrote \cup {s} /\ wrote' \in [DOMAIN wrote' -> Change]
      /\ held' \subseteq DOMAIN wrote' /\ wrote'[s] = c /\ seen'[s] = new
  BY <1>1, <1>2 DEF QueueTypes
<1>8. seen'[s].active => c.failures < TripAfter
  BY <1>2, <1>3, <1>7
<1> QED BY <1>1, <1>4, <1>5, <1>6, <1>7, <1>8

(* Where the worker is when it settles what it posted.                     *)
LEMMA SettlesPosted ==
  ASSUME QueueIInv, NEW q \in Deliveries, NEW a \in {"ok", "error"}, current = [id |-> q, answer |-> a]
  PROVE  /\ QueueTypes /\ PostOK /\ q \in DOMAIN work /\ q \notin settled /\ ClaimOK(q) /\ IsPosted(q)
         /\ work[q].status = "delivering" /\ (Known(q) <=> a = "ok")
         /\ work[q].sub \in Subs /\ work[q].sub \in DOMAIN seen /\ Exists(work[q].sub)
         /\ \A d \in Deliveries : d # q => ~IsPosted(d)
         /\ Refreshed(work[q].sub) \in SubRow /\ Refreshed(work[q].sub).failures < TripAfter
         /\ SubOK(work[q].sub) /\ CountOK(work[q].sub)
<1>1. current # Idle /\ current.id = q /\ current.answer = a
  BY DEF Idle
<1>2. QueueTypes /\ PostOK /\ q \in DOMAIN work /\ q \notin settled
  BY <1>1 DEF QueueIInv, PostOK
<1>3. ClaimOK(q) /\ IsPosted(q)
  BY <1>1, <1>2 DEF QueueIInv, IsPosted
<1>4. work[q].status = "delivering" /\ work[q].sub \in DOMAIN seen /\ seen[work[q].sub].active
  BY <1>2, <1>3 DEF ClaimOK
<1>5. Known(q) <=> a = "ok"
  BY <1>1, <1>4 DEF Known
<1>6. work[q].sub \in Subs /\ Exists(work[q].sub)
  BY <1>2, LoadedOne
<1>7. SubOK(work[q].sub) /\ CountOK(work[q].sub)
  BY <1>6 DEF QueueIInv
<1>8. Refreshed(work[q].sub) \in SubRow /\ Refreshed(work[q].sub).failures < TripAfter
  BY <1>2, <1>4, <1>6, <1>7, RefreshedOne DEF SubOK
<1>9. \A d \in Deliveries : d # q => ~IsPosted(d)
  BY <1>1 DEF IsPosted
<1> QED BY <1>2, <1>3, <1>4, <1>5, <1>6, <1>7, <1>8, <1>9

LEMMA QueueGiveUp ==
  ASSUME QueueIInv, NEW q \in Deliveries, GiveUp(q) PROVE QueueIInv'
<1>0. PICK s0 \in Subs : s0 = work[q].sub
  BY SettlesPosted DEF GiveUp
<1> DEFINE c == Counted(Refreshed(s0))
<1>1. /\ current = [id |-> q, answer |-> "error"] /\ Exhausted(work[q]) /\ Settle(q, "dead")
      /\ settled' = settled \cup {q} /\ current' = Idle /\ Changes(s0, c)
      /\ UNCHANGED <<sub, delivery, due, taken, unsure, rollbacks>>
  BY <1>0 DEF GiveUp, Settle, committed, receiver
<1>2. /\ QueueTypes /\ PostOK /\ q \in DOMAIN work /\ q \notin settled /\ ClaimOK(q) /\ IsPosted(q)
      /\ work[q].status = "delivering" /\ ~Known(q)
      /\ s0 \in Subs /\ s0 \in DOMAIN seen /\ Exists(s0)
      /\ \A d \in Deliveries : d # q => ~IsPosted(d)
      /\ Refreshed(s0) \in SubRow /\ Refreshed(s0).failures < TripAfter
      /\ SubOK(s0) /\ CountOK(s0)
  BY <1>0, <1>1, SettlesPosted
<1>3. /\ DOMAIN work' = DOMAIN work /\ work' \in [DOMAIN work -> WorkRow]
      /\ work'[q].status = "dead" /\ work'[q].sub = s0 /\ work[q].sub = s0 /\ work'[q].attempts = work[q].attempts
      /\ \A e \in DOMAIN work : e # q => work'[e] = work[e]
  BY <1>0, <1>1, <1>2, SettleOne
<1>4. c \in Change /\ (c.failures >= TripAfter <=> c.tripped) /\ c.failures = Refreshed(s0).failures + 1
  <2>1. TripAfter \in Nat /\ Refreshed(s0).failures \in 0..TripAfter
    BY <1>2, WebhookAssumption DEF SubRow, NoSub
  <2> DEFINE n == Refreshed(s0).failures
  <2>2. n + 1 \in 0..TripAfter /\ c = [failures |-> n + 1, tripped |-> n + 1 >= TripAfter]
    BY <1>2, <2>1 DEF Counted
  <2> HIDE DEF n, c
  <2>3. (n + 1 >= TripAfter) \in BOOLEAN
    OBVIOUS
  <2>4. c \in Change /\ c.failures = n + 1 /\ c.tripped = (n + 1 >= TripAfter)
    BY <2>2, <2>3 DEF Change
  <2> QED BY <2>4 DEF n
<1>5. /\ DOMAIN seen' = DOMAIN seen /\ seen' \in [DOMAIN seen' -> SubRow]
      /\ DOMAIN wrote' = DOMAIN wrote \cup {s0} /\ wrote' \in [DOMAIN wrote' -> Change]
      /\ held' \subseteq DOMAIN wrote'
      /\ wrote'[s0] = c /\ Refreshed(s0)'.failures = c.failures
      /\ seen'[s0].active => c.failures < TripAfter
      /\ \A x \in Subs : x # s0 =>
           /\ x \in DOMAIN wrote' <=> x \in DOMAIN wrote
           /\ x \in DOMAIN wrote => wrote'[x] = wrote[x]
           /\ x \in DOMAIN seen => seen'[x] = seen[x]
           /\ Refreshed(x)' = Refreshed(x)
  <2> HIDE DEF c
  <2> QED BY <1>1, <1>2, <1>4, ChangesOne
<1> HIDE DEF c
<1>6. QueueTypes' /\ PostOK'
  <2>1. QueueTypes'
    BY <1>1, <1>2, <1>3, <1>5 DEF QueueTypes
  <2> QED BY <1>1, <2>1 DEF PostOK
<1>7. ASSUME NEW s \in Subs PROVE SubOK(s)' /\ CountOK(s)'
  <2>1. SubOK(s) /\ CountOK(s) /\ ExhaustedOf(s)' = ExhaustedOf(s) /\ Cardinality(ExhaustedOf(s)) \in Nat
    BY <1>1, SomeDeliveries DEF QueueIInv, ExhaustedOf, OfSub
  <2>2. (\E d \in DOMAIN work : work[d].sub = s) => \E d \in DOMAIN work' : work'[d].sub = s
    BY <1>3
  <2>3. CASE s = s0
    <3>1. SubOK(s)'
      BY <1>1, <1>4, <1>5, <2>1, <2>2, <2>3 DEF SubOK
    <3>2. NewlyExhausted(s)' = NewlyExhausted(s) \cup {q} /\ q \notin NewlyExhausted(s)
      BY <1>1, <1>2, <1>3, <2>3 DEF NewlyExhausted, Exhausted
    <3>3. NewlyExhausted(s) \in SUBSET Deliveries
      BY <1>2 DEF NewlyExhausted, QueueTypes
    <3>4. Cardinality(NewlyExhausted(s)') = Cardinality(NewlyExhausted(s)) + 1 /\ Cardinality(NewlyExhausted(s)) \in Nat
      BY <3>2, <3>3, SomeDeliveries, FS_AddElement
    <3>5. Refreshed(s0).failures <= Cardinality(ExhaustedOf(s)) + Cardinality(NewlyExhausted(s))
      <4>1. CASE s0 \in DOMAIN wrote
        BY <1>2, <2>1, <2>3, <4>1, RefreshedOne DEF CountOK
      <4>2. CASE s0 \notin DOMAIN wrote
        <5>1. Refreshed(s0) = sub[s0] /\ Refreshed(s0).failures \in Nat
          BY <1>2, <4>2, RefreshedOne DEF SubRow, NoSub
        <5> QED BY <2>1, <2>3, <3>4, <5>1 DEF CountOK
      <4> QED BY <4>1, <4>2
    <3>6. Refreshed(s0).failures \in Nat
      BY <1>2 DEF SubRow, NoSub
    <3>7. CountOK(s)'
      BY <1>1, <1>4, <1>5, <2>1, <2>3, <3>4, <3>5, <3>6 DEF CountOK
    <3> QED BY <3>1, <3>7
  <2>4. CASE s # s0
    <3>1. NewlyExhausted(s)' = NewlyExhausted(s)
      BY <1>2, <1>3, <2>4 DEF NewlyExhausted, Exhausted
    <3> QED BY <1>1, <1>5, <2>1, <2>2, <2>4, <3>1 DEF SubOK, CountOK
  <2> QED BY <2>3, <2>4
<1>8. ASSUME NEW d \in Deliveries PROVE RowOK(d)'
  BY <1>1, <1>3 DEF RowOK, Exists, QueueIInv
<1>9. ASSUME NEW d \in DOMAIN work PROVE ClaimOK(d)'
  <2>1. ClaimOK(d) /\ d \in Deliveries
    BY <1>2 DEF QueueIInv, QueueTypes
  <2>2. (Known(d)' <=> Known(d)) /\ ~IsPosted(d)' /\ (d # q => ~IsPosted(d))
    BY <1>1, <1>2, <1>3, <2>1 DEF Known, Idle, IsPosted
  <2> QED BY <1>1, <1>2, <1>3, <2>1, <2>2 DEF ClaimOK
<1> QED BY <1>3, <1>6, <1>7, <1>8, <1>9 DEF QueueIInv

LEMMA QueueSucceed ==
  ASSUME QueueIInv, NEW q \in Deliveries, Succeed(q) PROVE QueueIInv'
<1>0. PICK s0 \in Subs : s0 = work[q].sub
  BY SettlesPosted DEF Succeed
<1> DEFINE c == [failures |-> 0, tripped |-> FALSE]
<1>1. /\ current = [id |-> q, answer |-> "ok"] /\ Settle(q, "succeeded")
      /\ settled' = settled \cup {q} /\ current' = Idle
      /\ \/ Changes(s0, c)
         \/ /\ ~(Refreshed(s0).failures > 0) /\ seen' = With(seen, s0, Refreshed(s0))
            /\ UNCHANGED <<wrote, held>>
      /\ UNCHANGED <<sub, delivery, due, taken, unsure, rollbacks>>
  BY <1>0 DEF Succeed, Settle, committed, receiver
<1>2. /\ QueueTypes /\ PostOK /\ q \in DOMAIN work /\ q \notin settled /\ ClaimOK(q) /\ IsPosted(q)
      /\ work[q].status = "delivering" /\ Known(q)
      /\ s0 \in Subs /\ s0 \in DOMAIN seen /\ Exists(s0)
      /\ \A d \in Deliveries : d # q => ~IsPosted(d)
      /\ Refreshed(s0) \in SubRow /\ Refreshed(s0).failures < TripAfter
      /\ SubOK(s0) /\ CountOK(s0)
  BY <1>0, <1>1, SettlesPosted
<1>3. /\ DOMAIN work' = DOMAIN work /\ work' \in [DOMAIN work -> WorkRow]
      /\ work'[q].status = "succeeded" /\ work'[q].sub = s0 /\ work[q].sub = s0 /\ work'[q].attempts = work[q].attempts
      /\ \A e \in DOMAIN work : e # q => work'[e] = work[e]
  BY <1>0, <1>1, <1>2, SettleOne
<1>4. c \in Change /\ (c.failures >= TripAfter <=> c.tripped) /\ c.failures = 0 /\ TripAfter \in Nat \ {0}
  BY WebhookAssumption DEF Change
<1> HIDE DEF c
<1>5. /\ DOMAIN seen' = DOMAIN seen /\ seen' \in [DOMAIN seen' -> SubRow]
      /\ DOMAIN wrote' \in {DOMAIN wrote, DOMAIN wrote \cup {s0}} /\ wrote' \in [DOMAIN wrote' -> Change]
      /\ held' \subseteq DOMAIN wrote'
      /\ s0 \in DOMAIN wrote' => (wrote'[s0].failures = 0 /\ ~wrote'[s0].tripped) \/ (wrote'[s0] = wrote[s0] /\ s0 \in DOMAIN wrote)
      /\ seen'[s0].active => Refreshed(s0)'.failures < TripAfter
      /\ \A x \in Subs : x # s0 =>
           /\ x \in DOMAIN wrote' <=> x \in DOMAIN wrote
           /\ x \in DOMAIN wrote => wrote'[x] = wrote[x]
           /\ x \in DOMAIN seen => seen'[x] = seen[x]
           /\ Refreshed(x)' = Refreshed(x)
  <2>1. CASE Changes(s0, c)
    <3>1. /\ DOMAIN seen' = DOMAIN seen /\ seen' \in [DOMAIN seen' -> SubRow]
          /\ DOMAIN wrote' = DOMAIN wrote \cup {s0} /\ wrote' \in [DOMAIN wrote' -> Change]
          /\ held' \subseteq DOMAIN wrote'
          /\ wrote'[s0] = c /\ Refreshed(s0)'.failures = c.failures
          /\ seen'[s0].active => c.failures < TripAfter
          /\ \A x \in Subs : x # s0 =>
               /\ x \in DOMAIN wrote' <=> x \in DOMAIN wrote
               /\ x \in DOMAIN wrote => wrote'[x] = wrote[x]
               /\ x \in DOMAIN seen => seen'[x] = seen[x]
               /\ Refreshed(x)' = Refreshed(x)
      BY <1>1, <1>2, <1>4, <2>1, ChangesOne
    <3>2. ~c.tripped
      BY DEF c
    <3> QED BY <1>4, <3>1, <3>2
  <2>2. CASE seen' = With(seen, s0, Refreshed(s0)) /\ UNCHANGED <<wrote, held>>
    <3>1. \A x \in Subs : Refreshed(x)' = Refreshed(x)
      BY <1>1, <2>2 DEF Refreshed
    <3>2. /\ DOMAIN seen' = DOMAIN seen /\ seen' \in [DOMAIN seen' -> SubRow] /\ seen'[s0] = Refreshed(s0)
          /\ \A x \in DOMAIN seen : x # s0 => seen'[x] = seen[x]
      BY <1>2, <2>2 DEF With, QueueTypes
    <3> QED BY <1>2, <2>2, <3>1, <3>2 DEF QueueTypes
  <2> QED BY <1>1, <2>1, <2>2
<1>6. QueueTypes' /\ PostOK'
  <2>1. QueueTypes'
    BY <1>1, <1>2, <1>3, <1>5 DEF QueueTypes
  <2> QED BY <1>1, <2>1 DEF PostOK
<1>7. ASSUME NEW s \in Subs PROVE SubOK(s)' /\ CountOK(s)'
  <2>1. SubOK(s) /\ CountOK(s) /\ ExhaustedOf(s)' = ExhaustedOf(s) /\ Cardinality(ExhaustedOf(s)) \in Nat
    BY <1>1, SomeDeliveries DEF QueueIInv, ExhaustedOf, OfSub
  <2>2. (\E d \in DOMAIN work : work[d].sub = s) => \E d \in DOMAIN work' : work'[d].sub = s
    BY <1>3
  <2>3. NewlyExhausted(s)' = NewlyExhausted(s) /\ NewlyExhausted(s) \in SUBSET Deliveries
    BY <1>2, <1>3 DEF NewlyExhausted, Exhausted, QueueTypes
  <2>4. Cardinality(NewlyExhausted(s)) \in Nat
    BY <2>3, SomeDeliveries
  <2>5. CASE s = s0
    BY <1>1, <1>4, <1>5, <2>1, <2>2, <2>3, <2>4, <2>5 DEF SubOK, CountOK
  <2>6. CASE s # s0
    BY <1>1, <1>5, <2>1, <2>2, <2>3, <2>6 DEF SubOK, CountOK
  <2> QED BY <2>5, <2>6
<1>8. ASSUME NEW d \in Deliveries PROVE RowOK(d)'
  BY <1>1, <1>3 DEF RowOK, Exists, QueueIInv
<1>9. ASSUME NEW d \in DOMAIN work PROVE ClaimOK(d)'
  <2>1. ClaimOK(d) /\ d \in Deliveries
    BY <1>2 DEF QueueIInv, QueueTypes
  <2>2. (Known(d)' <=> Known(d)) /\ ~IsPosted(d)' /\ (d # q => ~IsPosted(d))
    BY <1>1, <1>2, <1>3, <2>1 DEF Known, Idle, IsPosted
  <2> QED BY <1>1, <1>2, <1>3, <2>1, <2>2 DEF ClaimOK
<1> QED BY <1>3, <1>6, <1>7, <1>8, <1>9 DEF QueueIInv

(* The commit: the rows become what the transaction had of them, and what  *)
(* it counted is counted in the table.                                     *)
LEMMA QueueCommit ==
  ASSUME QueueIInv, Commit PROVE QueueIInv'
<1>1. /\ settled = DOMAIN work
      /\ delivery' = [d \in Deliveries |-> IF d \in DOMAIN work THEN work[d] ELSE delivery[d]]
      /\ sub' = [s \in Subs |-> IF s \in DOMAIN wrote THEN Applied(sub[s], wrote[s]) ELSE sub[s]]
      /\ due' = due \ DOMAIN work /\ settled' = {} /\ current' = Idle /\ held' = {}
      /\ work' = Nothing /\ seen' = Nothing /\ wrote' = Nothing
      /\ UNCHANGED <<taken, unsure, rollbacks>>
  BY DEF Commit, Closed, receiver
<1>2. DOMAIN work' = {} /\ DOMAIN seen' = {} /\ DOMAIN wrote' = {}
  BY <1>1 DEF Nothing
<1>3. QueueTypes /\ current = Idle /\ TripAfter \in Nat
  BY <1>1, WebhookAssumption DEF QueueIInv, PostOK
<1>4. ASSUME NEW d \in DOMAIN work
      PROVE  /\ ClaimOK(d) /\ d \in Deliveries /\ work[d] \in WorkRow /\ work[d].sub \in Subs /\ Exists(work[d].sub)
             /\ work[d].status \in {"succeeded", "failed", "dead"} /\ ~IsPosted(d)
             /\ Known(d) <=> work[d].status = "succeeded"
             /\ delivery[d].status \in Open
  <2>1. ClaimOK(d) /\ d \in Deliveries /\ work[d] \in WorkRow /\ work[d].sub \in Subs /\ Exists(work[d].sub)
    BY LoadedOne DEF QueueIInv
  <2>2. work[d].status \in {"succeeded", "failed", "dead"} /\ delivery[d].status \in Open
    BY <1>1, <2>1 DEF ClaimOK, WorkRow
  <2> QED BY <1>3, <2>1, <2>2 DEF IsPosted, Known, Idle
<1>5. ASSUME NEW s \in DOMAIN wrote
      PROVE  /\ s \in Subs /\ sub'[s] \in SubRow /\ sub'[s] # NoSub /\ sub'[s].failures = wrote[s].failures
             /\ sub'[s].active => wrote[s].failures < TripAfter
  <2>1. s \in Subs /\ wrote[s] \in Change /\ s \in DOMAIN seen /\ sub[s] \in SubRow
    BY <1>3 DEF QueueTypes
  <2>2. SubOK(s)
    BY <2>1 DEF QueueIInv
  <2>3. Exists(s)
    BY <1>4, <2>1, <2>2 DEF SubOK
  <2>4. sub'[s] = Applied(sub[s], wrote[s]) /\ wrote[s].failures \in Nat
    BY <1>1, <2>1 DEF Change
  <2>5. wrote[s].failures >= TripAfter => wrote[s].tripped
    BY <2>1, <2>2 DEF SubOK
  <2>6. /\ sub'[s] \in SubRow /\ sub'[s] # NoSub /\ sub'[s].failures = wrote[s].failures
        /\ sub'[s].active => ~wrote[s].tripped
    BY <2>1, <2>3, <2>4, AppliedOne DEF Exists
  <2> QED BY <1>3, <2>1, <2>4, <2>5, <2>6
<1>6. ASSUME NEW s \in Subs PROVE sub'[s] \in SubRow /\ (Exists(s) => sub'[s] # NoSub) /\ (s \notin DOMAIN wrote => sub'[s] = sub[s])
  BY <1>1, <1>3, <1>5 DEF QueueTypes, Exists
<1>7. ASSUME NEW d \in Deliveries
      PROVE  /\ delivery'[d] = IF d \in DOMAIN work THEN work[d] ELSE delivery[d]
             /\ delivery'[d] \in DeliveryRow
  <2>1. delivery[d] \in DeliveryRow /\ delivery'[d] = IF d \in DOMAIN work THEN work[d] ELSE delivery[d]
    BY <1>1, <1>3 DEF QueueTypes
  <2>2. CASE d \in DOMAIN work
    BY <1>4, <2>1, <2>2 DEF WorkRow, DeliveryRow, Open, Settled
  <2> QED BY <2>1, <2>2
<1>8. QueueTypes' /\ PostOK'
  <2>1. delivery' \in [Deliveries -> DeliveryRow] /\ sub' \in [Subs -> SubRow]
    BY <1>1, <1>6, <1>7
  <2> QED BY <1>1, <1>2, <1>3, <2>1 DEF QueueTypes, PostOK
<1>9. ASSUME NEW s \in Subs PROVE SubOK(s)' /\ CountOK(s)'
  <2>1. SubOK(s) /\ CountOK(s)
    BY DEF QueueIInv
  <2>2. /\ ExhaustedOf(s) \in SUBSET Deliveries /\ ExhaustedOf(s)' \in SUBSET Deliveries
        /\ NewlyExhausted(s) \in SUBSET Deliveries
    BY <1>4 DEF ExhaustedOf, OfSub, NewlyExhausted
  <2>3. ExhaustedOf(s) \cup NewlyExhausted(s) \subseteq ExhaustedOf(s)'
    <3>1. ASSUME NEW d \in ExhaustedOf(s) PROVE d \in ExhaustedOf(s)'
      <4>1. d \in Deliveries /\ d \notin DOMAIN work
        BY <1>4 DEF ExhaustedOf, OfSub, Open
      <4> QED BY <1>7, <4>1 DEF ExhaustedOf, OfSub, Exhausted
    <3>2. ASSUME NEW d \in NewlyExhausted(s) PROVE d \in ExhaustedOf(s)'
      BY <1>4, <1>7 DEF NewlyExhausted, ExhaustedOf, OfSub, Exhausted
    <3> QED BY <3>1, <3>2
  <2>4. ExhaustedOf(s) \cap NewlyExhausted(s) = {}
    BY <1>4 DEF ExhaustedOf, OfSub, NewlyExhausted, Open
  <2>5. /\ Cardinality(ExhaustedOf(s)) \in Nat /\ Cardinality(NewlyExhausted(s)) \in Nat
        /\ Cardinality(ExhaustedOf(s)') \in Nat
        /\ Cardinality(ExhaustedOf(s)) + Cardinality(NewlyExhausted(s)) <= Cardinality(ExhaustedOf(s)')
    <3>1. /\ IsFiniteSet(ExhaustedOf(s)) /\ IsFiniteSet(NewlyExhausted(s))
          /\ Cardinality(ExhaustedOf(s)) \in Nat /\ Cardinality(NewlyExhausted(s)) \in Nat
          /\ Cardinality(ExhaustedOf(s)') \in Nat
      BY <2>2, SomeDeliveries
    <3>2. Cardinality({}) = 0
      BY FS_EmptySet
    <3>3. Cardinality(ExhaustedOf(s) \cup NewlyExhausted(s)) = Cardinality(ExhaustedOf(s)) + Cardinality(NewlyExhausted(s))
      <4>1. Cardinality(ExhaustedOf(s) \cup NewlyExhausted(s))
              = Cardinality(ExhaustedOf(s)) + Cardinality(NewlyExhausted(s)) - Cardinality(ExhaustedOf(s) \cap NewlyExhausted(s))
        BY <3>1, FS_Union, Zenon
      <4>2. Cardinality(ExhaustedOf(s) \cap NewlyExhausted(s)) = 0
        BY <2>4, <3>2, Zenon
      <4> QED BY <3>1, <4>1, <4>2
    <3>4. Cardinality(ExhaustedOf(s) \cup NewlyExhausted(s)) <= Cardinality(ExhaustedOf(s)')
      BY <2>2, <2>3, FewerDeliveries
    <3> QED BY <3>1, <3>3, <3>4
  <2>6. sub[s].failures \in Nat /\ (s \in DOMAIN wrote => wrote[s].failures \in Nat)
    BY <1>3 DEF QueueTypes, SubRow, NoSub, Change
  <2>7. CASE s \in DOMAIN wrote
    BY <1>2, <1>5, <2>1, <2>5, <2>6, <2>7 DEF SubOK, CountOK
  <2>8. CASE s \notin DOMAIN wrote
    BY <1>2, <1>6, <2>1, <2>5, <2>6, <2>8 DEF SubOK, CountOK
  <2> QED BY <2>7, <2>8
<1>10. ASSUME NEW d \in Deliveries PROVE RowOK(d)'
  <2>1. RowOK(d)
    BY DEF QueueIInv
  <2>2. CASE d \in DOMAIN work
    <3>1. delivery'[d] = work[d] /\ sub'[work[d].sub] # NoSub
      BY <1>4, <1>6, <1>7, <2>2
    <3>2. work[d].status = "failed" => work[d].attempts < MaxAttempts
      BY <1>4, <2>2 DEF ClaimOK
    <3>3. work[d].status = "succeeded" => taken[d] > 0
      BY <1>4, <2>2 DEF ClaimOK
    <3>4. work[d].status # "succeeded" => taken[d] <= unsure[d] + rollbacks
      BY <1>4, <2>2 DEF ClaimOK
    <3> QED BY <1>1, <1>4, <2>1, <2>2, <3>1, <3>2, <3>3, <3>4 DEF RowOK, Exists, Open
  <2>3. CASE d \notin DOMAIN work
    <3>1. delivery'[d] = delivery[d] /\ (delivery[d].sub \in Subs => sub'[delivery[d].sub] # NoSub)
      BY <1>6, <1>7, <2>1, <2>3 DEF RowOK
    <3> QED BY <1>1, <2>1, <2>3, <3>1 DEF RowOK, Exists
  <2> QED BY <2>2, <2>3
<1> QED BY <1>2, <1>8, <1>9, <1>10 DEF QueueIInv

LEMMA QueueStep == QueueIInv /\ [WebhookNext]_webhookVars => QueueIInv'
<1> SUFFICES ASSUME QueueIInv, [WebhookNext]_webhookVars PROVE QueueIInv'
  OBVIOUS
<1>1. CASE UNCHANGED webhookVars
  <2> USE <1>1 DEF webhookVars, QueueIInv
  <2>1. QueueTypes' /\ PostOK'
    BY DEF QueueTypes, PostOK
  <2>2. ASSUME NEW s \in Subs PROVE SubOK(s)' /\ CountOK(s)'
    BY DEF SubOK, CountOK, Refreshed, ExhaustedOf, OfSub, NewlyExhausted
  <2>3. ASSUME NEW d \in Deliveries PROVE RowOK(d)'
    BY DEF RowOK, Exists
  <2>4. ASSUME NEW d \in DOMAIN work PROVE ClaimOK(d)'
    BY DEF ClaimOK, IsPosted, Known
  <2> QED BY <2>1, <2>2, <2>3, <2>4
<1>2. ASSUME NEW batch \in SUBSET Deliveries, Claim(batch) PROVE QueueIInv'
  BY <1>2, QueueClaim
<1>3. ASSUME NEW d \in Deliveries, Abandon(d) \/ Succeed(d) \/ GiveUp(d) \/ Retry(d) \/ BackoffOver(d) PROVE QueueIInv'
  BY <1>3, QueueAbandon, QueueSucceed, QueueGiveUp, QueueRetry, QueueBackoff
<1>4. ASSUME NEW d \in Deliveries, NEW accepted \in BOOLEAN, NEW answer \in {"ok", "error"}, Post(d, accepted, answer)
      PROVE  QueueIInv'
  BY <1>4, QueuePost
<1>5. CASE Requests
  BY <1>5, QueueEnqueue, QueueCreateAgain, QueueDeleteSub, QueueCreateNew DEF Requests
<1>6. CASE Flush \/ Commit \/ Rollback
  BY <1>6, QueueFlush, QueueCommit, QueueRollback
<1> QED BY <1>1, <1>2, <1>3, <1>4, <1>5, <1>6 DEF WebhookNext, Worker

(* WebhookInv: what process_delivery and the commit of webhook_worker_loop *)
(* make of a batch.  A delivery its receiver took is posted again only     *)
(* when that was lost, what is recorded as succeeded was taken, and        *)
(* consecutive_failures counts every dead delivery at most once, whatever  *)
(* was rolled back, deleted or registered again meanwhile.                 *)
THEOREM WebhookHolds == WebhookSpec => []WebhookInv
<1>1. QueueIInv /\ [WebhookNext]_webhookVars => QueueIInv'
  BY QueueStep
<1> QED BY <1>1, QueueStarts, QueueSuffices, PTL DEF WebhookSpec

=============================================================================

--------------------------- MODULE PublishTickets ---------------------------
(***************************************************************************)
(* portal/booth_publish.py: the single-use tickets with which the active   *)
(* interpreter's browser opens its WHIP stream.  A ticket is issued over   *)
(* the booth WebSocket, waits in the browser, and is redeemed when         *)
(* MediaMTX asks the portal about the publisher; the booth may change in   *)
(* between by any action of BoothRegistry.                                 *)
(*                                                                         *)
(* The store is shared by all booths: tickets of other booths are issued,  *)
(* age and push the oldest out like this booth's own. A ticket's number    *)
(* stands for its secret, and its expires_at is the time it has left.      *)
(***************************************************************************)
EXTENDS BoothRegistry, Naturals, Sequences

CONSTANTS Ttl,          \* TICKET_TTL_SECS, in ticks
          MaxTickets,   \* MAX_TICKETS
          MaxIssued     \* bound: how many tickets are ever issued

ASSUME TicketAssumption ==
  /\ Ttl \in Nat \ {0}
  /\ MaxTickets \in Nat \ {0}
  /\ MaxIssued \in Nat

VARIABLES
  store,      \* _tickets, oldest first
  feed,       \* external: the participant MediaMTX accepted on the booth's path
  issued,     \* history: how many tickets have been issued
  age,        \* history: ticks since each was issued, counted up to Ttl
  presented,  \* history: the tickets that have been presented
  honoured    \* history: how often each has been accepted, counted up to 2

history    == <<issued, age, presented, honoured>>
ticketVars == <<store, feed, history>>
publishVars == <<boothVars, ticketVars>>

Number == 1 .. MaxIssued
Path   == {"own", "elsewhere"}    \* the booth's MediaMTX path, any other booth's
Ticket == [number : Number, holder : Participant \cup {NoOne}, path : Path, left : 0 .. Ttl]

TicketTypeOK ==
  /\ BoothTypeOK
  /\ store \in Seq(Ticket)
  /\ feed \in Participant \cup {NoOne}
  /\ issued \in 0 .. MaxIssued
  /\ age \in [Number -> 0 .. Ttl]
  /\ presented \subseteq Number
  /\ honoured \in [Number -> 0 .. 2]

TicketsInit ==
  /\ BoothInit
  /\ store = <<>>
  /\ feed = NoOne
  /\ issued = 0
  /\ age = [n \in Number |-> 0]
  /\ presented = {} /\ honoured = [n \in Number |-> 0]

-----------------------------------------------------------------------------
(* Keeps(q, k): the loop of _prune stops when the k-th ticket is the oldest*)
(* left: it is live, and there is room for one more.                       *)
Keeps(q, k) == q[k].left > 0 /\ Len(q) - k + 1 < MaxTickets

Suffix(q, K) ==
  IF K = {} THEN <<>> ELSE SubSeq(q, CHOOSE k \in K : \A j \in K : k <= j, Len(q))

(* slip: one ticket too many goes *)
PruneOneTooMany(q) ==
  Suffix(q, {k \in DOMAIN q : q[k].left > 0 /\ Len(q) - k + 2 < MaxTickets})

(* _prune: expired tickets first, then the oldest while the store is full. *)
Prune(q) == Suffix(q, {k \in DOMAIN q : Keeps(q, k)})

(* issue_ticket                                                            *)
Issue(holder, path) ==
  /\ issued < MaxIssued
  /\ issued' = issued + 1
  /\ store' = Append(Prune(store),
                     [number |-> issued', holder |-> holder, path |-> path, left |-> Ttl])
  /\ UNCHANGED <<boothVars, feed, age, presented, honoured>>

(* _handle_request_publish_ticket, once check_publish_permission and the   *)
(* broadcast lock have let p through.                                      *)
RequestTicket(p) ==
  /\ exists
  /\ p \in participants /\ CanGoLive(p) /\ active = p
  /\ unlocked
  /\ Issue(p, "own")

RequestElsewhere == Issue(NoOne, "elsewhere")

(* slip: the holder may have lost the slot since *)
StillEntitledIfPresent(p) == exists /\ unlocked /\ p \in participants /\ CanGoLive(p)

(* still_entitled                                                          *)
StillEntitled(p) ==
  /\ exists /\ unlocked
  /\ p \in participants
  /\ active = p
  /\ CanGoLive(p)

(* _tickets.pop                                                            *)
Without(q, k) == SubSeq(q, 1, k - 1) \o SubSeq(q, k + 1, Len(q))

Spent(n) == LET found == {k \in DOMAIN store : store[k].number = n} IN
  store' = IF found = {} THEN store ELSE Without(store, CHOOSE k \in found : TRUE)

(* authorize_booth_publish: the ticket is taken out of the store before    *)
(* anything is checked. MediaMTX lets a publisher of this booth's path in, *)
(* in the place of the one it had (overridePublisher).                     *)
Redeemable(t, path) ==
  /\ t.left > 0
  /\ t.path = path

Present(n, path) ==
  LET found   == {k \in DOMAIN store : store[k].number = n}
      granted == {k \in found : Redeemable(store[k], path)
                                  /\ (path = "own" => StillEntitled(store[k].holder))}
  IN  /\ Spent(n)
      /\ presented' = presented \cup {n}
      /\ IF granted = {}
           THEN UNCHANGED <<honoured, feed>>
           ELSE /\ honoured' = [honoured EXCEPT ![n] = IF @ < 2 THEN @ + 1 ELSE @]
                /\ feed' \in IF path = "own" THEN {store[k].holder : k \in granted} ELSE {feed}
      /\ UNCHANGED <<boothVars, issued, age>>

(* External: the publisher's connection to MediaMTX ends.                  *)
FeedEnds ==
  /\ feed # NoOne
  /\ feed' = NoOne
  /\ UNCHANGED <<boothVars, store, history>>

(* time.monotonic() moves on.                                              *)
Tick ==
  /\ issued > 0
  /\ store' = [k \in DOMAIN store |->
                 [store[k] EXCEPT !.left = IF @ = 0 THEN 0 ELSE @ - 1]]
  /\ age' = [n \in Number |-> IF n <= issued /\ age[n] < Ttl THEN age[n] + 1 ELSE age[n]]
  /\ UNCHANGED <<boothVars, feed, issued, presented, honoured>>

-----------------------------------------------------------------------------
TicketsNext ==
  \/ \E p \in Participant : RequestTicket(p)
  \/ RequestElsewhere
  \/ \E n \in 1 .. issued, path \in Path : Present(n, path)
  \/ FeedEnds
  \/ Tick
  \/ BoothNext /\ UNCHANGED ticketVars

TicketsSpec == TicketsInit /\ [][TicketsNext]_publishVars

-----------------------------------------------------------------------------
(* The store never outgrows MAX_TICKETS.                                   *)
StoreBounded == Len(store) <= MaxTickets

(* A ticket is not lost to an interpreter who is about to use it: while it *)
(* is live and has not been presented it is in the store, unless as many   *)
(* tickets as the store holds were issued after it.                        *)
LiveTicketKept ==
  \A n \in 1 .. issued :
    n \notin presented /\ age[n] < Ttl =>
      \/ \E k \in DOMAIN store : store[k].number = n
      \/ issued - n >= MaxTickets

(* _prune looks at the oldest ticket only, yet no expired ticket outlives  *)
(* it: tickets are stored in the order in which they expire.               *)
NoneLingers == issued' # issued => \A k \in DOMAIN store' : age'[store'[k].number] < Ttl

(* A ticket is honoured at most once, at its first presentation, and only  *)
(* within TICKET_TTL_SECS of its issue, whatever is presented when.        *)
HonouredOnceInTime ==
  \A n \in Number : honoured'[n] # honoured[n] => n \notin presented /\ age[n] < Ttl

(* The booth's path is taken over only by whoever holds the active slot of *)
(* an unlocked booth at that moment, however long ago the ticket was       *)
(* issued and whatever became of the slot meanwhile.                       *)
FeedTakenByHolder ==
  feed' \notin {feed, NoOne} => unlocked /\ feed' = active /\ feed' \in participants

(* What a ticket can do, and for whom, however long it waited and whatever *)
(* became of the booth.                                                    *)
TicketsOpenRightly == [][NoneLingers /\ HonouredOnceInTime /\ FeedTakenByHolder]_publishVars

(* The store neither outgrows its limit nor forgets who may still come.    *)
TicketsInv ==
  /\ TicketTypeOK
  /\ StoreBounded
  /\ LiveTicketKept
=============================================================================

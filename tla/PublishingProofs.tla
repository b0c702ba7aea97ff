-------------------------- MODULE PublishingProofs --------------------------
(***************************************************************************)
(* Who publishes.  The tickets of a booth: TicketsInv and what a ticket    *)
(* opens, for any participants, limit and lifetime.  The relays: RelayInv, *)
(* for any number of rooms, destinations, relay objects and requests at a  *)
(* time; the service's part of the state is TableOK, the portal's is       *)
(* PortalOK, and the two meet in the requests only.                        *)
(***************************************************************************)
EXTENDS PublishTickets, RelayService, BoothProofs, FiniteSetTheorems,
        SequenceTheorems, WellFoundedInduction

USE DEF participants

LEMMA LeastOf == ASSUME NEW K, K \subseteq Nat, K # {} PROVE \E m \in K : \A j \in K : m <= j
<1> DEFINE R == OpToRel(<, Nat)
<1>1. \A x, y \in Nat : <<x, y>> \in R <=> x < y
  BY DEF OpToRel
<1>2. IsWellFoundedOn(R, Nat)
  BY NatLessThanWellFounded
<1> HIDE DEF R
<1>3. PICK m \in K : \A j \in K : <<j, m>> \notin R
  BY <1>2, WFMin
<1>4. ASSUME NEW j \in K PROVE m <= j
  <2>1. m \in Nat /\ j \in Nat /\ ~(j < m)
    BY <1>1, <1>3
  <2> QED BY <2>1
<1> QED BY <1>4

(* What is left of a store is its end, from the oldest ticket that stays;  *)
(* d have gone.                                                            *)
LEMMA PruneShape ==
  ASSUME NEW q \in Seq(Ticket)
  PROVE  /\ Prune(q) \in Seq(Ticket)
         /\ \E d \in 0 .. Len(q) :
              /\ Len(Prune(q)) = Len(q) - d
              /\ \A i \in 1 .. Len(q) - d : Prune(q)[i] = q[i + d]
              /\ d < Len(q) => Keeps(q, d + 1)
              /\ \A j \in 1 .. d : ~Keeps(q, j)
<1> DEFINE K == {k \in DOMAIN q : Keeps(q, k)}
<1>1. DOMAIN q = 1 .. Len(q) /\ Len(q) \in Nat /\ \A i \in 1 .. Len(q) : q[i] \in Ticket
  BY LenProperties, ElementOfSeq
<1>2. CASE K = {}
  <2>1. Prune(q) = <<>>
    BY <1>2 DEF Prune, Suffix
  <2>2. \A j \in 1 .. Len(q) : ~Keeps(q, j)
    BY <1>1, <1>2
  <2>3. Prune(q) \in Seq(Ticket) /\ Len(Prune(q)) = Len(q) - Len(q)
    BY <1>1, <2>1
  <2>4. Len(q) \in 0 .. Len(q)
    BY <1>1
  <2>5. \E d \in 0 .. Len(q) :
              /\ Len(Prune(q)) = Len(q) - d
              /\ \A i \in 1 .. Len(q) - d : Prune(q)[i] = q[i + d]
              /\ d < Len(q) => Keeps(q, d + 1)
              /\ \A j \in 1 .. d : ~Keeps(q, j)
    <3> WITNESS Len(q) \in 0 .. Len(q)
    <3> QED BY <1>1, <2>2, <2>3
  <2> QED BY <2>3, <2>5
<1>3. CASE K # {}
  <2>1. K \subseteq Nat /\ K \subseteq 1 .. Len(q)
    BY <1>1
  <2>2. \E m \in K : \A j \in K : m <= j
    BY <1>3, <2>1, LeastOf
  <2>3. PICK m \in 1 .. Len(q) : m = CHOOSE k \in K : \A j \in K : k <= j
    BY <2>1, <2>2
  <2>4. m \in K /\ \A j \in K : m <= j
    BY <2>2, <2>3
  <2>5. Prune(q) = SubSeq(q, m, Len(q))
    BY <1>3, <2>3 DEF Prune, Suffix
  <2>6. /\ Prune(q) \in Seq(Ticket) /\ Len(Prune(q)) = Len(q) - (m - 1)
        /\ \A i \in 1 .. Len(q) - (m - 1) : Prune(q)[i] = q[i + (m - 1)]
    BY <1>1, <2>5, SubSeqProperties
  <2>7. Keeps(q, (m - 1) + 1) /\ \A j \in 1 .. m - 1 : ~Keeps(q, j)
    BY <1>1, <2>4
  <2>8. m - 1 \in 0 .. Len(q)
    BY <1>1
  <2> QED BY <2>6, <2>7, <2>8
<1> QED BY <1>2, <1>3

LEMMA WithoutShape ==
  ASSUME NEW q \in Seq(Ticket), NEW k \in DOMAIN q
  PROVE  /\ Without(q, k) \in Seq(Ticket) /\ Len(Without(q, k)) = Len(q) - 1
         /\ \A i \in 1 .. Len(q) - 1 : Without(q, k)[i] = IF i < k THEN q[i] ELSE q[i + 1]
<1>1. DOMAIN q = 1 .. Len(q) /\ Len(q) \in Nat /\ (\A i \in 1 .. Len(q) : q[i] \in Ticket) /\ k \in 1 .. Len(q)
  BY LenProperties, ElementOfSeq
<1> DEFINE a == SubSeq(q, 1, k - 1)
           b == SubSeq(q, k + 1, Len(q))
<1>2. a \in Seq(Ticket) /\ Len(a) = k - 1 /\ \A i \in 1 .. k - 1 : a[i] = q[i]
  BY <1>1, SubSeqProperties
<1>3. b \in Seq(Ticket) /\ Len(b) = Len(q) - k /\ \A i \in 1 .. Len(q) - k : b[i] = q[k + i]
  BY <1>1, SubSeqProperties
<1> HIDE DEF a, b
<1>4. /\ a \o b \in Seq(Ticket) /\ Len(a \o b) = Len(a) + Len(b)
      /\ \A i \in 1 .. Len(a) + Len(b) : (a \o b)[i] = IF i <= Len(a) THEN a[i] ELSE b[i - Len(a)]
  BY <1>2, <1>3, ConcatProperties
<1>5. Without(q, k) = a \o b
  BY DEF Without, a, b
<1>6. Len(a) + Len(b) = Len(q) - 1
  BY <1>1, <1>2, <1>3
<1>7. ASSUME NEW i \in 1 .. Len(q) - 1 PROVE (a \o b)[i] = IF i < k THEN q[i] ELSE q[i + 1]
  <2>1. CASE i < k
    BY <1>1, <1>2, <1>4, <1>6, <2>1
  <2>2. CASE ~(i < k)
    <3>1. (a \o b)[i] = b[i - (k - 1)] /\ i - (k - 1) \in 1 .. Len(q) - k
      BY <1>1, <1>2, <1>4, <1>6, <2>2
    <3>2. b[i - (k - 1)] = q[k + (i - (k - 1))] /\ k + (i - (k - 1)) = i + 1
      BY <1>1, <1>3, <3>1
    <3> QED BY <2>2, <3>1, <3>2
  <2> QED BY <2>1, <2>2
<1> QED BY <1>4, <1>5, <1>6, <1>7

(* The store in the order of issue, with gaps where a ticket was used; how *)
(* long a ticket has left is what its age leaves it.                       *)
InOrder == \A j, k \in DOMAIN store : j <= k => store[k].number - store[j].number >= k - j
Numbered == \A k \in DOMAIN store : store[k].number <= issued /\ issued - store[k].number >= Len(store) - k
Timed == \A k \in DOMAIN store : store[k].left = Ttl - age[store[k].number]
Unused == \A k \in DOMAIN store : store[k].number \notin presented
Ages == /\ \A n \in Number : n > issued => age[n] = 0 /\ n \notin presented
        /\ \A m, n \in Number : m <= n => age[n] <= age[m]

TicketsIInv ==
  /\ BoothInv /\ TicketsInv
  /\ InOrder /\ Numbered /\ Timed /\ Unused /\ Ages

LEMMA TicketsStart == TicketsInit => TicketsIInv
<1> SUFFICES ASSUME TicketsInit PROVE TicketsIInv
  OBVIOUS
<1>1. BoothInv
  BY BoothInitInv DEF TicketsInit
<1>2. store = <<>> /\ DOMAIN store = {} /\ Len(store) = 0 /\ store \in Seq(Ticket) /\ issued = 0
  BY DEF TicketsInit
<1>3. TicketTypeOK
  BY <1>1, <1>2, TicketAssumption DEF TicketsInit, TicketTypeOK, BoothInv, Number
<1>4. StoreBounded /\ LiveTicketKept
  BY <1>2, TicketAssumption DEF StoreBounded, LiveTicketKept
<1>5. Ages
  BY DEF TicketsInit, Ages, Number
<1> QED BY <1>1, <1>2, <1>3, <1>4, <1>5 DEF TicketsIInv, TicketsInv, InOrder, Numbered, Timed, Unused

TypesNow ==
  /\ store \in Seq(Ticket) /\ DOMAIN store = 1 .. Len(store) /\ Len(store) \in Nat
  /\ \A k \in DOMAIN store : store[k] \in Ticket
  /\ issued \in Nat /\ issued <= MaxIssued /\ Ttl \in Nat \ {0} /\ MaxTickets \in Nat \ {0} /\ MaxIssued \in Nat
  /\ age \in [Number -> 0 .. Ttl] /\ presented \subseteq Number /\ honoured \in [Number -> 0 .. 2]
  /\ Len(store) <= MaxTickets /\ BoothTypeOK /\ feed \in Participant \cup {NoOne}
  /\ Number = 1 .. MaxIssued

LEMMA TicketsShape == TicketsIInv => TypesNow
<1> SUFFICES ASSUME TicketsIInv PROVE TypesNow
  OBVIOUS
<1>1. store \in Seq(Ticket)
  BY DEF TicketsIInv, TicketsInv, TicketTypeOK
<1>2. DOMAIN store = 1 .. Len(store) /\ Len(store) \in Nat /\ \A k \in DOMAIN store : store[k] \in Ticket
  BY <1>1, LenProperties, ElementOfSeq
<1> QED BY <1>1, <1>2, TicketAssumption DEF TypesNow, TicketsIInv, TicketsInv, TicketTypeOK, StoreBounded, Number

(* What TicketsIInv says of the next state, named once.                    *)
LEMMA TicketsNextShape ==
  ASSUME BoothInv', store' \in Seq(Ticket), feed' \in Participant \cup {NoOne}, issued' \in 0 .. MaxIssued,
         age' \in [Number -> 0 .. Ttl], presented' \subseteq Number, honoured' \in [Number -> 0 .. 2],
         Len(store') <= MaxTickets, LiveTicketKept', InOrder', Numbered', Timed', Unused', Ages'
  PROVE  TicketsIInv'
<1>1. BoothTypeOK'
  BY DEF BoothInv
<1>2. TicketTypeOK' /\ StoreBounded'
  BY <1>1 DEF TicketTypeOK, StoreBounded
<1> QED BY <1>2 DEF TicketsIInv, TicketsInv

LEMMA BoothStays == BoothInv /\ UNCHANGED boothVars => BoothInv'
BY BoothInvInductive

(* issue_ticket: what is pushed out is expired or too old for the limit.   *)
LEMMA IssueKeeps ==
  ASSUME TicketsIInv, NEW holder \in Participant \cup {NoOne}, NEW path \in Path, Issue(holder, path)
  PROVE  TicketsIInv' /\ NoneLingers
<1> DEFINE t == [number |-> issued + 1, holder |-> holder, path |-> path, left |-> Ttl]
<1>0. TypesNow
  BY TicketsShape
<1>00. PICK L \in Nat : L = Len(store) /\ DOMAIN store = 1 .. L
  BY <1>0 DEF TypesNow
<1>1. /\ issued + 1 \in Number /\ t \in Ticket /\ t.number = issued + 1 /\ t.left = Ttl
      /\ issued' = issued + 1 /\ store' = Append(Prune(store), t)
      /\ UNCHANGED <<boothVars, feed, age, presented, honoured>>
  BY <1>0, <1>00 DEF TypesNow, Issue, Ticket
<1> HIDE DEF t
<1>2. PICK d \in 0 .. L :
        /\ Len(Prune(store)) = L - d
        /\ \A i \in 1 .. L - d : Prune(store)[i] = store[i + d]
        /\ d < L => Keeps(store, d + 1)
        /\ \A j \in 1 .. d : ~Keeps(store, j)
  BY <1>0, <1>00, PruneShape DEF TypesNow
<1>3. Prune(store) \in Seq(Ticket)
  BY <1>0, <1>00, PruneShape DEF TypesNow
<1>4. /\ store' \in Seq(Ticket) /\ Len(store') = L - d + 1
      /\ \A i \in 1 .. L - d : store'[i] = store[i + d]
      /\ store'[L - d + 1] = t
  <2>1. /\ store' \in Seq(Ticket) /\ Len(store') = Len(Prune(store)) + 1
        /\ \A i \in 1 .. Len(Prune(store)) : store'[i] = Prune(store)[i]
        /\ store'[Len(Prune(store)) + 1] = t
    BY <1>1, <1>3, AppendProperties
  <2>2. Len(Prune(store)) = L - d /\ \A i \in 1 .. L - d : Prune(store)[i] = store[i + d]
    BY <1>00, <1>2
  <2> QED BY <2>1, <2>2
<1>5. DOMAIN store' = 1 .. (L - d + 1) /\ L \in Nat /\ d \in Nat /\ d <= L
  BY <1>0, <1>00, <1>4, LenProperties DEF TypesNow
<1>6. ASSUME NEW k \in 1 .. L
      PROVE  store[k].number \in Nat /\ store[k].number \in Number /\ store[k].left \in Nat
  <2>1. store[k] \in Ticket
    BY <1>0, <1>00 DEF TypesNow
  <2>2. store[k].number \in Number /\ store[k].left \in 0 .. Ttl
    BY <2>1 DEF Ticket
  <2> QED BY <1>0, <2>2 DEF TypesNow
<1>7. Len(store') <= MaxTickets
  BY <1>0, <1>00, <1>2, <1>4, <1>5 DEF Keeps, TypesNow
<1>8. /\ \A j, k \in 1 .. L : j <= k => store[k].number - store[j].number >= k - j
      /\ \A k \in 1 .. L : store[k].number <= issued /\ issued - store[k].number >= L - k
      /\ \A k \in 1 .. L : store[k].left = Ttl - age[store[k].number] /\ store[k].number \notin presented
      /\ \A n \in Number : n > issued => age[n] = 0 /\ n \notin presented
      /\ \A m, n \in Number : m <= n => age[n] <= age[m]
  BY <1>0, <1>00 DEF TicketsIInv, InOrder, Numbered, Timed, Unused, Ages, TypesNow
<1>9. InOrder'
  <2> SUFFICES ASSUME NEW j \in 1 .. (L - d + 1), NEW k \in 1 .. (L - d + 1), j <= k
               PROVE  store'[k].number - store'[j].number >= k - j
    BY <1>5 DEF InOrder
  <2>1. CASE k <= L - d
    <3>1. j + d \in 1 .. L /\ k + d \in 1 .. L /\ j \in 1 .. L - d /\ k \in 1 .. L - d
      BY <1>5, <2>1
    <3>2. store[k + d].number - store[j + d].number >= (k + d) - (j + d)
      <4>1. j + d <= k + d
        BY <1>5
      <4> QED BY <1>8, <3>1, <4>1
    <3>3. store'[k] = store[k + d] /\ store'[j] = store[j + d]
      BY <1>4, <3>1
    <3>4. store[k + d].number \in Nat /\ store[j + d].number \in Nat
      BY <1>6, <3>1
    <3> QED BY <1>5, <3>2, <3>3, <3>4
  <2>2. CASE k = L - d + 1 /\ j <= L - d
    <3>1. j + d \in 1 .. L /\ j \in 1 .. L - d
      BY <1>5, <2>2
    <3>2. issued - store[j + d].number >= L - (j + d) /\ store[j + d].number \in Nat
      BY <1>6, <1>8, <3>1
    <3>3. store'[k] = t /\ store'[j] = store[j + d]
      BY <1>4, <2>2, <3>1
    <3>4. t.number = issued + 1 /\ issued \in Nat /\ L \in Nat /\ d \in Nat
      BY <1>0, <1>1, <1>5 DEF TypesNow
    <3>5. j \in Nat /\ k = L - d + 1
      BY <2>2
    <3>6. issued + 1 - store[j + d].number >= L - (j + d) + 1
      BY <3>2, <3>4, <3>5
    <3>7. L - (j + d) + 1 = k - j
      BY <3>4, <3>5
    <3> QED BY <3>2, <3>3, <3>4, <3>6, <3>7
  <2>3. CASE k = L - d + 1 /\ j = L - d + 1
    BY <1>0, <1>00, <1>1, <1>4, <1>5, <2>3 DEF TypesNow
  <2> QED BY <1>5, <2>1, <2>2, <2>3
<1>10. ASSUME NEW k \in 1 .. (L - d + 1)
       PROVE  /\ store'[k].number <= issued + 1 /\ issued + 1 - store'[k].number >= L - d + 1 - k
              /\ store'[k].left = Ttl - age[store'[k].number] /\ store'[k].number \notin presented
              /\ age[store'[k].number] < Ttl
  <2>1. CASE k <= L - d
    <3>1. k + d \in 1 .. L /\ k \in 1 .. L - d /\ store'[k] = store[k + d]
      BY <1>4, <1>5, <2>1
    <3>2. d + 1 \in 1 .. L /\ d < L /\ d + 1 <= k + d
      BY <1>5, <2>1
    <3>3. store[d + 1].number <= store[k + d].number
      <4>1. store[k + d].number - store[d + 1].number >= (k + d) - (d + 1)
        BY <1>8, <3>1, <3>2
      <4>2. store[k + d].number \in Nat /\ store[d + 1].number \in Nat
        BY <1>6, <3>1, <3>2
      <4> QED BY <1>5, <4>1, <4>2
    <3>4. age[store[k + d].number] <= age[store[d + 1].number] /\ age[store[d + 1].number] < Ttl
      <4>1. store[d + 1].left > 0 /\ store[d + 1].left = Ttl - age[store[d + 1].number]
        BY <1>2, <1>8, <3>2 DEF Keeps
      <4>2. store[d + 1].number \in Number /\ store[k + d].number \in Number
        BY <1>6, <3>1, <3>2
      <4>3. age[store[d + 1].number] \in Nat
        BY <1>0, <4>2 DEF TypesNow
      <4>4. Ttl \in Nat
        BY <1>0 DEF TypesNow
      <4>5. age[store[d + 1].number] < Ttl
        BY <4>1, <4>3, <4>4
      <4> QED BY <1>8, <3>3, <4>2, <4>5
    <3>5. age[store[k + d].number] \in Nat /\ age[store[d + 1].number] \in Nat /\ Ttl \in Nat
      <4>1. store[d + 1].number \in Number /\ store[k + d].number \in Number
        BY <1>6, <3>1, <3>2
      <4> QED BY <1>0, <4>1 DEF TypesNow
    <3>6. store'[k].number <= issued + 1 /\ issued + 1 - store'[k].number >= L - d + 1 - k
      <4>1. store[k + d].number <= issued /\ issued - store[k + d].number >= L - (k + d) /\ store[k + d].number \in Nat
        BY <1>6, <1>8, <3>1
      <4>2. issued \in Nat /\ L \in Nat /\ d \in Nat /\ k \in Nat
        BY <1>0, <1>5, <3>1 DEF TypesNow
      <4>3. L - (k + d) + 1 = L - d + 1 - k
        BY <4>2
      <4> DEFINE n == store[k + d].number
      <4>4. n \in Nat /\ n <= issued /\ issued - n >= L - (k + d)
        BY <4>1
      <4> HIDE DEF n
      <4>5. n <= issued + 1 /\ issued + 1 - n >= L - (k + d) + 1
        BY <4>2, <4>4
      <4>6. store'[k].number = n
        BY <3>1 DEF n
      <4> QED BY <4>3, <4>5, <4>6
    <3> QED BY <1>8, <3>1, <3>4, <3>5, <3>6
  <2>2. CASE k = L - d + 1
    <3>1. issued + 1 > issued /\ age[issued + 1] = 0 /\ issued + 1 \notin presented
      BY <1>0, <1>00, <1>1, <1>8 DEF TypesNow
    <3>2. store'[k].number = issued + 1 /\ store'[k].left = Ttl
      BY <1>1, <1>4, <2>2
    <3>3. issued + 1 - store'[k].number >= L - d + 1 - k
      BY <1>0, <1>5, <2>2, <3>2 DEF TypesNow
    <3> QED BY <1>0, <3>1, <3>2, <3>3 DEF TypesNow
  <2> QED BY <1>5, <2>1, <2>2
<1>11. Numbered' /\ Timed' /\ Unused'
  <2>1. \A k \in DOMAIN store' : store'[k].number <= issued' /\ issued' - store'[k].number >= Len(store') - k
    <3>1. issued' = issued + 1 /\ Len(store') = L - d + 1 /\ DOMAIN store' = 1 .. (L - d + 1)
      BY <1>1, <1>4, <1>5
    <3>2. \A k \in 1 .. (L - d + 1) : store'[k].number <= issued + 1 /\ issued + 1 - store'[k].number >= L - d + 1 - k
      BY <1>10
    <3> SUFFICES ASSUME NEW k \in DOMAIN store'
                 PROVE  store'[k].number <= issued' /\ issued' - store'[k].number >= Len(store') - k
      OBVIOUS
    <3>3. k \in 1 .. (L - d + 1)
      BY <3>1
    <3>4. store'[k].number <= issued + 1 /\ issued + 1 - store'[k].number >= L - d + 1 - k
      BY <3>2, <3>3
    <3>5. store'[k].number \in Nat /\ issued \in Nat
      <4>1. store'[k] \in Ticket
        BY <1>4, <3>3, <1>5, ElementOfSeq
      <4> QED BY <1>0, <4>1 DEF Ticket, TypesNow
    <3> HIDE DEF t
    <3> QED BY <1>5, <3>1, <3>3, <3>4, <3>5
  <2>2. \A k \in DOMAIN store' : store'[k].left = Ttl - age'[store'[k].number] /\ store'[k].number \notin presented'
    BY <1>1, <1>5, <1>10
  <2> QED BY <2>1, <2>2 DEF Numbered, Timed, Unused
<1>12. Ages'
  BY <1>0, <1>00, <1>1, <1>8 DEF Ages, TypesNow
<1>13. LiveTicketKept'
  <2> SUFFICES ASSUME NEW n \in 1 .. issued', n \notin presented', age'[n] < Ttl
               PROVE  (\E k \in DOMAIN store' : store'[k].number = n) \/ issued' - n >= MaxTickets
    BY DEF LiveTicketKept
  <2>0. issued' = issued + 1 /\ n \in 1 .. issued + 1 /\ n \notin presented /\ age[n] < Ttl
    BY <1>1
  <2>1. CASE n = issued + 1
    <3>1. L - d + 1 \in DOMAIN store' /\ store'[L - d + 1].number = n
      BY <1>1, <1>4, <1>5, <2>1
    <3> QED BY <3>1
  <2>2. CASE n <= issued
    <3>1. (\E k \in 1 .. L : store[k].number = n) \/ issued - n >= MaxTickets
      <4>1. n \in 1 .. issued
        BY <1>0, <2>0, <2>2 DEF TypesNow
      <4>2. LiveTicketKept
        BY DEF TicketsIInv, TicketsInv
      <4> QED BY <1>00, <2>0, <4>1, <4>2 DEF LiveTicketKept
    <3>2. ASSUME NEW k \in 1 .. L, store[k].number = n, k > d
          PROVE  \E i \in DOMAIN store' : store'[i].number = n
      <4>1. k - d \in 1 .. L - d /\ k - d \in DOMAIN store' /\ (k - d) + d = k
        BY <1>5, <3>2
      <4> QED BY <1>4, <3>2, <4>1
    <3>3. ASSUME NEW k \in 1 .. L, store[k].number = n, k <= d
          PROVE  issued' - n >= MaxTickets
      <4>1. ~Keeps(store, k) /\ store[k].left = Ttl - age[n] /\ issued - n >= L - k
        BY <1>2, <1>8, <2>0, <3>3
      <4>2. age[n] \in Nat /\ store[k].left > 0
        BY <1>0, <1>00, <1>6, <2>0, <3>3, <4>1 DEF TypesNow
      <4>3. L - k + 1 >= MaxTickets
        BY <1>0, <1>00, <1>5, <4>1, <4>2 DEF Keeps, TypesNow
      <4> QED BY <1>0, <1>00, <1>5, <2>0, <4>1, <4>3 DEF TypesNow
    <3>4. issued - n >= MaxTickets => issued' - n >= MaxTickets
      BY <1>0, <2>0 DEF TypesNow
    <3>5. \A k \in 1 .. L : k > d \/ k <= d
      BY <1>5
    <3> QED BY <3>1, <3>2, <3>3, <3>4, <3>5
  <2> QED BY <1>0, <1>00, <2>0, <2>1, <2>2 DEF TypesNow
<1>14. NoneLingers
  BY <1>1, <1>5, <1>10 DEF NoneLingers
<1>15. BoothInv'
  BY <1>1, BoothStays DEF TicketsIInv
<1>16. issued' \in 0 .. MaxIssued
  BY <1>0, <1>00, <1>1 DEF TypesNow
<1> QED BY <1>0, <1>00, <1>1, <1>4, <1>7, <1>9, <1>11, <1>12, <1>13, <1>14, <1>15, <1>16, TicketsNextShape DEF TypesNow

(* time.monotonic()                                                        *)
LEMMA TickKeeps == ASSUME TicketsIInv, Tick PROVE TicketsIInv'
<1>0. TypesNow
  BY TicketsShape
<1>00. PICK L \in Nat : L = Len(store) /\ DOMAIN store = 1 .. L
  BY <1>0 DEF TypesNow
<1>1. /\ store' = [k \in 1 .. L |-> [store[k] EXCEPT !.left = IF store[k].left = 0 THEN 0 ELSE store[k].left - 1]]
      /\ age' = [n \in Number |-> IF n <= issued /\ age[n] < Ttl THEN age[n] + 1 ELSE age[n]]
      /\ UNCHANGED <<boothVars, feed, issued, presented, honoured>>
  BY <1>0, <1>00 DEF Tick, TypesNow, Ticket
<1>2. ASSUME NEW k \in 1 .. L
      PROVE  /\ store'[k] \in Ticket /\ store'[k].number = store[k].number
             /\ store'[k].left = IF store[k].left = 0 THEN 0 ELSE store[k].left - 1
  <2> DEFINE l == IF store[k].left = 0 THEN 0 ELSE store[k].left - 1
  <2>1. store[k] \in Ticket /\ store'[k] = [store[k] EXCEPT !.left = l]
    BY <1>0, <1>00, <1>1 DEF TypesNow
  <2>2. l \in 0 .. Ttl
    BY <1>0, <1>00, <2>1 DEF TypesNow, Ticket
  <2> HIDE DEF l
  <2>3. store'[k] \in Ticket /\ store'[k].number = store[k].number /\ store'[k].left = l
    BY <2>1, <2>2 DEF Ticket
  <2> QED BY <2>3 DEF l
<1>3. store' \in Seq(Ticket) /\ Len(store') = L /\ DOMAIN store' = 1 .. L /\ L \in Nat
  <2>1. store' = [k \in 1 .. L |-> store'[k]]
    BY <1>1
  <2> QED BY <1>2, <2>1
<1>4. /\ \A j, k \in 1 .. L : j <= k => store[k].number - store[j].number >= k - j
      /\ \A k \in 1 .. L : store[k].number <= issued /\ issued - store[k].number >= L - k
      /\ \A k \in 1 .. L : store[k].left = Ttl - age[store[k].number] /\ store[k].number \notin presented
      /\ \A n \in Number : n > issued => age[n] = 0 /\ n \notin presented
      /\ \A m, n \in Number : m <= n => age[n] <= age[m]
  BY <1>0, <1>00 DEF TicketsIInv, InOrder, Numbered, Timed, Unused, Ages, TypesNow
<1>5. \A k \in 1 .. L : store[k].number \in Number /\ store[k].left \in Nat
  <2>1. \A k \in 1 .. L : store[k] \in Ticket
    BY <1>0, <1>00 DEF TypesNow
  <2>2. \A t \in Ticket : t.number \in Number /\ t.left \in Nat
    BY DEF Ticket
  <2> QED BY <2>1, <2>2
<1>6. InOrder' /\ Numbered' /\ Unused'
  <2>1. \A k \in 1 .. L : store'[k].number = store[k].number
    BY <1>2
  <2>2. DOMAIN store' = 1 .. L /\ Len(store') = L /\ UNCHANGED <<issued, presented>>
    BY <1>1, <1>3
  <2>3. InOrder'
    BY <1>4, <2>1, <2>2 DEF InOrder
  <2>4. Numbered'
    BY <1>4, <2>1, <2>2 DEF Numbered
  <2>5. Unused'
    BY <1>4, <2>1, <2>2 DEF Unused
  <2> QED BY <2>3, <2>4, <2>5
<1>7. Timed'
  <2> SUFFICES ASSUME NEW k \in 1 .. L PROVE store'[k].left = Ttl - age'[store'[k].number]
    BY <1>3 DEF Timed
  <2> DEFINE n == store[k].number
  <2>1. n \in Number /\ n <= issued /\ store[k].left = Ttl - age[n] /\ age[n] \in 0 .. Ttl
    BY <1>0, <1>00, <1>4, <1>5 DEF TypesNow
  <2>2. age'[n] = IF age[n] < Ttl THEN age[n] + 1 ELSE age[n]
    BY <1>1, <2>1
  <2>3. store'[k].number = n /\ store'[k].left = IF store[k].left = 0 THEN 0 ELSE store[k].left - 1
    BY <1>2
  <2> HIDE DEF n
  <2> QED BY <1>0, <1>00, <2>1, <2>2, <2>3 DEF TypesNow
<1>8. age' \in [Number -> 0 .. Ttl]
  BY <1>0, <1>00, <1>1 DEF TypesNow
<1>9. Ages'
  <2>1. \A n \in Number : n > issued' => age'[n] = 0 /\ n \notin presented'
    BY <1>0, <1>00, <1>1, <1>4 DEF TypesNow
  <2>2. ASSUME NEW m \in Number, NEW n \in Number, m <= n PROVE age'[n] <= age'[m]
    BY <1>0, <1>00, <1>1, <1>4, <2>2 DEF TypesNow
  <2> QED BY <2>1, <2>2 DEF Ages
<1>10. LiveTicketKept'
  <2> SUFFICES ASSUME NEW n \in 1 .. issued, n \notin presented, age'[n] < Ttl
               PROVE  (\E k \in DOMAIN store' : store'[k].number = n) \/ issued - n >= MaxTickets
    BY <1>1 DEF LiveTicketKept
  <2>1. n \in Number /\ age[n] < Ttl
    BY <1>0, <1>00, <1>1 DEF TypesNow
  <2>2. (\E k \in 1 .. L : store[k].number = n) \/ issued - n >= MaxTickets
    BY <1>0, <1>00, <2>1 DEF TicketsIInv, TicketsInv, LiveTicketKept, TypesNow
  <2> QED BY <1>2, <1>3, <2>2
<1>11. BoothInv'
  BY <1>1, BoothStays DEF TicketsIInv
<1>12. issued' \in 0 .. MaxIssued /\ Len(store') <= MaxTickets
  BY <1>0, <1>00, <1>1, <1>3 DEF TypesNow
<1> QED BY <1>0, <1>00, <1>1, <1>3, <1>6, <1>7, <1>8, <1>9, <1>10, <1>11, <1>12, TicketsNextShape DEF TypesNow

LEMMA OncePerNumber ==
  ASSUME TicketsIInv, NEW j \in DOMAIN store, NEW k \in DOMAIN store, store[j].number = store[k].number
  PROVE  j = k
<1>0. TypesNow
  BY TicketsShape
<1>1. j \in Nat /\ k \in Nat /\ store[j].number \in Nat /\ store[k].number \in Nat
  <2>1. store[j] \in Ticket /\ store[k] \in Ticket
    BY <1>0 DEF TypesNow
  <2> QED BY <1>0, <2>1 DEF TypesNow, Ticket
<1>2. j <= k => store[k].number - store[j].number >= k - j
  BY DEF TicketsIInv, InOrder
<1>3. k <= j => store[j].number - store[k].number >= j - k
  BY DEF TicketsIInv, InOrder
<1> QED BY <1>1, <1>2, <1>3

(* authorize_booth_publish: what leaves the store is the ticket presented. *)
LEMMA SpentKeeps ==
  ASSUME TicketsIInv, NEW n \in Number, Spent(n), presented' = presented \cup {n}, UNCHANGED <<issued, age>>
  PROVE  /\ store' \in Seq(Ticket) /\ Len(store') <= MaxTickets
         /\ InOrder' /\ Numbered' /\ Timed' /\ Unused' /\ LiveTicketKept'
<1>0. TypesNow
  BY TicketsShape
<1>00. PICK L \in Nat : L = Len(store) /\ DOMAIN store = 1 .. L
  BY <1>0 DEF TypesNow
<1>1. ASSUME NEW k \in 1 .. L
      PROVE  store[k].number \in Nat /\ store[k].number \in Number /\ store[k].left \in Nat
  <2>1. store[k] \in Ticket
    BY <1>0, <1>00 DEF TypesNow
  <2> QED BY <1>0, <2>1 DEF TypesNow, Ticket
<1>2. /\ \A j, k \in 1 .. L : j <= k => store[k].number - store[j].number >= k - j
      /\ \A k \in 1 .. L : store[k].number <= issued /\ issued - store[k].number >= L - k
      /\ \A k \in 1 .. L : store[k].left = Ttl - age[store[k].number] /\ store[k].number \notin presented
  BY <1>00 DEF TicketsIInv, InOrder, Numbered, Timed, Unused
<1>3. issued' = issued /\ age' = age /\ issued \in Nat /\ L <= MaxTickets
  BY <1>0, <1>00 DEF TypesNow
<1>4. \A m \in 1 .. issued : m \notin presented /\ age[m] < Ttl =>
        (\E k \in 1 .. L : store[k].number = m) \/ issued - m >= MaxTickets
  BY <1>00 DEF TicketsIInv, TicketsInv, LiveTicketKept
<1> DEFINE found == {k \in DOMAIN store : store[k].number = n}
<1>5. CASE found = {}
  <2>1. store' = store
    BY <1>5 DEF Spent
  <2>2. \A k \in 1 .. L : store[k].number # n
    BY <1>00, <1>5
  <2>3. store' \in Seq(Ticket) /\ Len(store') <= MaxTickets /\ DOMAIN store' = 1 .. L
    BY <1>0, <1>00, <2>1 DEF TypesNow
  <2>4. InOrder' /\ Numbered' /\ Timed'
    BY <1>3, <2>1 DEF TicketsIInv, InOrder, Numbered, Timed
  <2>5. Unused'
    BY <1>2, <2>1, <2>2, <2>3 DEF Unused
  <2>6. LiveTicketKept'
    BY <1>3, <1>4, <2>1, <2>3 DEF LiveTicketKept
  <2> QED BY <2>3, <2>4, <2>5, <2>6
<1>6. CASE found # {}
  <2>1. PICK K \in DOMAIN store : K = CHOOSE k \in found : TRUE
    BY <1>6
  <2>2. K \in found /\ K \in 1 .. L /\ store[K].number = n
    BY <1>00, <1>6, <2>1
  <2>3. store' = Without(store, K)
    BY <1>6, <2>1 DEF Spent
  <2> DEFINE f(i) == IF i < K THEN i ELSE i + 1
  <2>4. /\ store' \in Seq(Ticket) /\ Len(store') = L - 1
        /\ \A i \in 1 .. L - 1 : store'[i] = store[f(i)]
    <3>1. store \in Seq(Ticket)
      BY <1>0 DEF TypesNow
    <3>2. /\ Without(store, K) \in Seq(Ticket) /\ Len(Without(store, K)) = Len(store) - 1
          /\ \A i \in 1 .. Len(store) - 1 : Without(store, K)[i] = IF i < K THEN store[i] ELSE store[i + 1]
      BY <3>1, WithoutShape
    <3> QED BY <1>00, <2>3, <3>2
  <2>5. DOMAIN store' = 1 .. L - 1 /\ L >= 1 /\ K \in Nat /\ K <= L
    BY <2>2, <2>4, LenProperties
  <2>6. ASSUME NEW i \in 1 .. L - 1
        PROVE  f(i) \in 1 .. L /\ f(i) \in Nat /\ f(i) # K /\ f(i) >= i /\ f(i) <= i + 1 /\ i \in Nat
    BY <2>5
  <2>7. ASSUME NEW i \in 1 .. L - 1 PROVE store[f(i)].number # n
    <3>1. f(i) \in DOMAIN store /\ f(i) # K
      BY <1>00, <2>6
    <3> HIDE DEF f
    <3> QED BY <2>2, <3>1, OncePerNumber
  <2>8. ASSUME NEW i \in 1 .. L - 1, NEW j \in 1 .. L - 1, i <= j
        PROVE  f(i) <= f(j) /\ f(j) - f(i) >= j - i
    BY <2>5, <2>8
  <2>9. \A i \in 1 .. L : i # K => \E j \in 1 .. L - 1 : f(j) = i
    <3> SUFFICES ASSUME NEW i \in 1 .. L, i # K PROVE \E j \in 1 .. L - 1 : f(j) = i
      OBVIOUS
    <3>1. CASE i < K
      <4>1. i \in 1 .. L - 1 /\ f(i) = i
        BY <2>5, <3>1
      <4> QED BY <4>1
    <3>2. CASE i > K
      <4>0. i - 1 \in 1 .. L - 1 /\ ~(i - 1 < K) /\ (i - 1) + 1 = i
        BY <2>2, <2>5, <3>2
      <4>1. i - 1 \in 1 .. L - 1 /\ f(i - 1) = i
        BY <4>0
      <4> QED BY <4>1
    <3> QED BY <2>5, <3>1, <3>2
  <2> HIDE DEF f
  <2>10. InOrder'
    <3> SUFFICES ASSUME NEW i \in 1 .. L - 1, NEW j \in 1 .. L - 1, i <= j
                 PROVE  store'[j].number - store'[i].number >= j - i
      BY <2>5 DEF InOrder
    <3>1. f(i) \in 1 .. L /\ f(j) \in 1 .. L /\ f(i) <= f(j) /\ f(j) - f(i) >= j - i /\ f(i) \in Nat /\ f(j) \in Nat
      BY <2>6, <2>8
    <3>2. store[f(j)].number - store[f(i)].number >= f(j) - f(i)
      BY <1>2, <3>1
    <3>3. store[f(j)].number \in Nat /\ store[f(i)].number \in Nat
      BY <1>1, <3>1
    <3>4. store'[j].number = store[f(j)].number /\ store'[i].number = store[f(i)].number
      BY <2>4
    <3> QED BY <3>1, <3>2, <3>3, <3>4
  <2>11. Numbered'
    <3> SUFFICES ASSUME NEW i \in 1 .. L - 1
                 PROVE  store'[i].number <= issued /\ issued - store'[i].number >= (L - 1) - i
      BY <1>3, <2>4, <2>5 DEF Numbered
    <3>1. f(i) \in 1 .. L /\ f(i) \in Nat /\ f(i) <= i + 1 /\ store'[i] = store[f(i)]
      BY <2>4, <2>6
    <3>2. store[f(i)].number <= issued /\ issued - store[f(i)].number >= L - f(i) /\ store[f(i)].number \in Nat
      BY <1>1, <1>2, <3>1
    <3> QED BY <1>3, <3>1, <3>2
  <2>12. Timed' /\ Unused'
    <3>1. \A i \in 1 .. L - 1 : /\ f(i) \in 1 .. L /\ store'[i] = store[f(i)]
                                /\ store[f(i)].number # n
      BY <2>4, <2>6, <2>7
    <3> QED BY <1>2, <1>3, <2>5, <3>1 DEF Timed, Unused
  <2>13. LiveTicketKept'
    <3> SUFFICES ASSUME NEW m \in 1 .. issued, m \notin presented', age[m] < Ttl
                 PROVE  (\E i \in 1 .. L - 1 : store'[i].number = m) \/ issued - m >= MaxTickets
      BY <1>3, <2>5 DEF LiveTicketKept
    <3>1. m # n /\ m \notin presented
      OBVIOUS
    <3>2. ASSUME NEW k \in 1 .. L, store[k].number = m PROVE \E i \in 1 .. L - 1 : store'[i].number = m
      BY <2>2, <2>4, <2>9, <3>1, <3>2
    <3> QED BY <1>4, <3>1, <3>2
  <2>14. Len(store') <= MaxTickets
    BY <1>0, <1>3, <2>4 DEF TypesNow
  <2> QED BY <2>4, <2>10, <2>11, <2>12, <2>13, <2>14
<1> QED BY <1>5, <1>6

LEMMA PresentKeeps ==
  ASSUME TicketsIInv, NEW n \in 1 .. issued, NEW path \in Path, Present(n, path)
  PROVE  TicketsIInv' /\ HonouredOnceInTime /\ FeedTakenByHolder
<1>0. TypesNow
  BY TicketsShape
<1>1. /\ n \in Number /\ Spent(n) /\ presented' = presented \cup {n}
      /\ UNCHANGED <<boothVars, issued, age>>
  BY <1>0 DEF TypesNow, Present
<1>2. /\ store' \in Seq(Ticket) /\ Len(store') <= MaxTickets
      /\ InOrder' /\ Numbered' /\ Timed' /\ Unused' /\ LiveTicketKept'
  BY <1>1, SpentKeeps
<1> DEFINE found   == {k \in DOMAIN store : store[k].number = n}
           accepted == {k \in found : Redeemable(store[k], path)
                                       /\ (path = "own" => StillEntitled(store[k].holder))}
<1>3. IF accepted = {}
        THEN UNCHANGED <<honoured, feed>>
        ELSE /\ honoured' = [honoured EXCEPT ![n] = IF @ < 2 THEN @ + 1 ELSE @]
             /\ feed' \in IF path = "own" THEN {store[k].holder : k \in accepted} ELSE {feed}
  BY DEF Present
<1>4. \A k \in accepted : /\ k \in DOMAIN store /\ store[k].number = n /\ store[k].left > 0
                          /\ path = "own" => StillEntitled(store[k].holder)
  BY DEF Redeemable
<1> HIDE DEF accepted, found
<1>5. \A k \in DOMAIN store : /\ store[k].holder \in Participant \cup {NoOne} /\ store[k].left = Ttl - age[store[k].number]
                              /\ store[k].number \notin presented
  <2>1. \A k \in DOMAIN store : store[k] \in Ticket
    BY <1>0 DEF TypesNow
  <2> QED BY <2>1 DEF Ticket, TicketsIInv, Timed, Unused
<1>6. honoured' \in [Number -> 0 .. 2]
  <2>1. CASE accepted = {}
    BY <1>0, <1>3, <2>1 DEF TypesNow
  <2>2. CASE accepted # {}
    <3> DEFINE h == IF honoured[n] < 2 THEN honoured[n] + 1 ELSE honoured[n]
    <3>1. h \in 0 .. 2
      BY <1>0, <1>1 DEF TypesNow
    <3>2. honoured' = [honoured EXCEPT ![n] = h]
      BY <1>3, <2>2
    <3> HIDE DEF h
    <3> QED BY <1>0, <3>1, <3>2 DEF TypesNow
  <2> QED BY <2>1, <2>2
<1>7. feed' \in Participant \cup {NoOne}
  BY <1>0, <1>3, <1>4, <1>5 DEF TypesNow
<1>8. Ages'
  <2>1. \A m \in Number : m > issued => m # n
    BY <1>0 DEF TypesNow
  <2> QED BY <1>1, <2>1 DEF TicketsIInv, Ages
<1>9. HonouredOnceInTime
  <2> SUFFICES ASSUME NEW m \in Number, honoured'[m] # honoured[m] PROVE m \notin presented /\ age[m] < Ttl
    BY DEF HonouredOnceInTime
  <2>1. accepted # {} /\ m = n
    BY <1>0, <1>3 DEF TypesNow
  <2>2. PICK k \in accepted : TRUE
    BY <2>1
  <2>3. n \notin presented /\ Ttl - age[n] > 0
    BY <1>4, <1>5, <2>2
  <2> QED BY <1>0, <1>1, <2>1, <2>3 DEF TypesNow
<1>10. FeedTakenByHolder
  <2> SUFFICES ASSUME feed' \notin {feed, NoOne} PROVE unlocked /\ feed' = active /\ feed' \in participants
    BY DEF FeedTakenByHolder
  <2>1. PICK k \in accepted : path = "own" /\ feed' = store[k].holder
    BY <1>3
  <2> QED BY <1>4, <2>1 DEF StillEntitled
<1>11. BoothInv'
  BY <1>1, BoothStays DEF TicketsIInv
<1>12. issued' \in 0 .. MaxIssued /\ age' \in [Number -> 0 .. Ttl] /\ presented' \subseteq Number
  BY <1>0, <1>1 DEF TypesNow
<1> QED BY <1>2, <1>6, <1>7, <1>8, <1>9, <1>10, <1>11, <1>12, TicketsNextShape

LEMMA TicketsUntouched == ASSUME TicketsIInv, BoothInv', UNCHANGED <<store, history>>, feed' \in {feed, NoOne}
                          PROVE  TicketsIInv' /\ NoneLingers /\ HonouredOnceInTime /\ FeedTakenByHolder
<1>1. UNCHANGED <<store, issued, age, presented, honoured>>
  BY DEF history
<1>2. TicketTypeOK'
  BY <1>1 DEF TicketsIInv, TicketsInv, TicketTypeOK, BoothInv
<1>3. TicketsInv'
  BY <1>1, <1>2 DEF TicketsIInv, TicketsInv, StoreBounded, LiveTicketKept
<1>4. InOrder' /\ Numbered' /\ Timed' /\ Unused' /\ Ages'
  BY <1>1 DEF TicketsIInv, InOrder, Numbered, Timed, Unused, Ages
<1> QED BY <1>1, <1>3, <1>4 DEF TicketsIInv, NoneLingers, HonouredOnceInTime, FeedTakenByHolder

LEMMA TicketsStep ==
  TicketsIInv /\ [TicketsNext]_publishVars =>
    TicketsIInv' /\ (publishVars' = publishVars \/ (NoneLingers /\ HonouredOnceInTime /\ FeedTakenByHolder))
<1> SUFFICES ASSUME TicketsIInv, [TicketsNext]_publishVars
             PROVE  TicketsIInv' /\ NoneLingers /\ HonouredOnceInTime /\ FeedTakenByHolder
  OBVIOUS
<1>0. BoothInv /\ TypesNow
  BY TicketsShape DEF TicketsIInv
<1>1. ASSUME NEW holder \in Participant \cup {NoOne}, NEW path \in Path, Issue(holder, path)
      PROVE  TicketsIInv' /\ NoneLingers /\ HonouredOnceInTime /\ FeedTakenByHolder
  <2>1. TicketsIInv' /\ NoneLingers
    BY <1>1, IssueKeeps
  <2> QED BY <1>1, <2>1 DEF Issue, HonouredOnceInTime, FeedTakenByHolder
<1>2. ASSUME NEW p \in Participant, RequestTicket(p)
      PROVE  TicketsIInv' /\ NoneLingers /\ HonouredOnceInTime /\ FeedTakenByHolder
  BY <1>1, <1>2 DEF RequestTicket, Path
<1>3. CASE RequestElsewhere
  BY <1>1, <1>3 DEF RequestElsewhere, Path
<1>4. ASSUME NEW n \in 1 .. issued, NEW path \in Path, Present(n, path)
      PROVE  TicketsIInv' /\ NoneLingers /\ HonouredOnceInTime /\ FeedTakenByHolder
  BY <1>4, PresentKeeps DEF Present, NoneLingers
<1>5. CASE FeedEnds
  BY <1>0, <1>5, BoothStays, TicketsUntouched DEF FeedEnds
<1>6. CASE Tick
  BY <1>6, TickKeeps DEF Tick, NoneLingers, HonouredOnceInTime, FeedTakenByHolder
<1>7. CASE BoothNext /\ UNCHANGED ticketVars
  BY <1>0, <1>7, BoothInvInductive, TicketsUntouched DEF ticketVars
<1>8. CASE UNCHANGED publishVars
  BY <1>0, <1>8, BoothStays, TicketsUntouched DEF publishVars, ticketVars
<1> QED BY <1>2, <1>3, <1>4, <1>5, <1>6, <1>7, <1>8 DEF TicketsNext

(* The store of tickets neither outgrows MAX_TICKETS nor loses a live      *)
(* ticket before as many as it holds were issued after it (TicketsInv).    *)
THEOREM TicketsHold == TicketsSpec => []TicketsInv
<1>1. TicketsInit => TicketsIInv
  BY TicketsStart
<1>2. TicketsIInv /\ [TicketsNext]_publishVars => TicketsIInv'
  BY TicketsStep
<1>3. TicketsIInv => TicketsInv
  BY DEF TicketsIInv
<1> QED BY <1>1, <1>2, <1>3, PTL DEF TicketsSpec

(* No expired ticket outlives an issue; a ticket is honoured once, in time,*)
(* at its first presentation; and the booth's path goes only to whoever    *)
(* holds the active slot of the unlocked booth then (TicketsOpenRightly).  *)
THEOREM TicketsOpen == TicketsSpec => TicketsOpenRightly
<1>1. TicketsInit => TicketsIInv
  BY TicketsStart
<1>2. TicketsIInv /\ [TicketsNext]_publishVars => TicketsIInv'
  BY TicketsStep
<1>3. TicketsIInv /\ [TicketsNext]_publishVars => [NoneLingers /\ HonouredOnceInTime /\ FeedTakenByHolder]_publishVars
  BY TicketsStep
<1> QED BY <1>1, <1>2, <1>3, PTL DEF TicketsSpec, TicketsOpenRightly

-----------------------------------------------------------------------------
RelayOf == [at : {"free", "top", "spawned", "runs", "dying", "failed", "ended"},
            room : Relayed \cup {0}, dest : Dest \cup {Absent}, stop : BOOLEAN]
HandOf == [op : {"none", "put", "delete", "join"}, room : Relayed \cup {0},
           dest : Dest \cup {Absent}, joins : Id \cup {Absent}]
SyncOf == [at : {"idle", "collect", "list", "stop", "start"}, wanted : [Relayed -> Dest \cup {Absent}],
           live : [Relayed -> Dest \cup {Absent}], todo : SUBSET Relayed, waits : Handler \cup {Absent}]

PortalOK ==
  /\ dest \in [Relayed -> Dest \cup {Absent}] /\ feeds \in [Relayed -> BOOLEAN]
  /\ owner \in [Relayed -> Handler \cup {Absent}]
  /\ sync \in SyncOf /\ breaks \in 0 .. MaxBreaks

(* The rooms that are counted.                                             *)
Used == {r \in Relayed : relays[r] # Absent}

Entries == \A r \in Relayed : relays[r] # Absent =>
  relay[relays[r]].room = r /\ relay[relays[r]].at \notin {"free", "ended"} /\ ~relay[relays[r]].stop

(* An object that nobody stopped is the entry of its room, with a          *)
(* supervisor that has not come to its end.                                *)
Owned == \A i \in Id : relay[i].at # "free" /\ ~relay[i].stop =>
  relay[i].room \in Relayed /\ relays[relay[i].room] = i /\ relay[i].at \notin {"dying", "ended"}

(* Only a request that is joining holds on to an object.                   *)
Joiners == \A k \in Handler :
  /\ IF hand[k].op = "join" THEN hand[k].joins \in Id ELSE hand[k].joins = Absent
  /\ hand[k].op \in {"put", "delete"} => hand[k].room \in Relayed

TableOK ==
  /\ relays \in [Relayed -> Id \cup {Absent}] /\ relay \in [Id -> RelayOf] /\ hand \in [Handler -> HandOf]
  /\ Entries /\ Owned /\ Joiners /\ ReplacedIsGone
  /\ IsFiniteSet(Used) /\ Cardinality(Used) <= MaxRelays

RelayIInv == PortalOK /\ TableOK

LEMMA RelaySuffices == RelayIInv => RelayInv
<1> SUFFICES ASSUME RelayIInv PROVE RelayInv
  OBVIOUS
<1>1. RelayTypeOK
  BY DEF RelayIInv, PortalOK, TableOK, RelayTypeOK, RelayOf, HandOf, SyncOf, Entries
<1>2. RelaysBounded
  <2>1. Cardinality({r \in Relayed : relays[r] # Absent}) <= MaxRelays
    BY DEF RelayIInv, TableOK, Used
  <2>2. \A i \in Id : Alive(i) /\ ~relay[i].stop => relays[relay[i].room] = i
    BY DEF RelayIInv, TableOK, Owned, Alive
  <2> QED BY <2>1, <2>2 DEF RelaysBounded
<1> QED BY <1>1, <1>2 DEF RelayInv, RelayIInv, TableOK

(* The values a place, a request and a pass start from.                    *)
LEMMA RelayShape ==
  /\ NoRelay \in RelayOf /\ NoRelay.at = "free" /\ ~NoRelay.stop
  /\ NoHand \in HandOf /\ NoHand.op = "none" /\ NoHand.joins = Absent
  /\ Nothing \in [Relayed -> Dest \cup {Absent}] /\ Nothing \in [Relayed -> Id \cup {Absent}]
  /\ Nothing \in [Relayed -> Handler \cup {Absent}] /\ (\A r \in Relayed : Nothing[r] = Absent)
  /\ NoPass \in SyncOf
<1>1. /\ Nothing \in [Relayed -> Dest \cup {Absent}] /\ Nothing \in [Relayed -> Id \cup {Absent}]
      /\ Nothing \in [Relayed -> Handler \cup {Absent}] /\ (\A r \in Relayed : Nothing[r] = Absent)
  BY DEF Nothing
<1>2. NoPass \in SyncOf
  BY <1>1 DEF NoPass, SyncOf
<1>3. NoRelay \in RelayOf /\ NoRelay.at = "free" /\ ~NoRelay.stop
  BY DEF NoRelay, RelayOf
<1>4. NoHand \in HandOf /\ NoHand.op = "none" /\ NoHand.joins = Absent
  BY DEF NoHand, HandOf
<1> QED BY <1>1, <1>2, <1>3, <1>4

(* A service with nothing to do: at the start and after a restart.         *)
LEMMA EmptyTable ==
  ASSUME relays' = Nothing, relay' = [i \in Id |-> NoRelay], hand' = [k \in Handler |-> NoHand]
  PROVE  TableOK'
<1>1. Used' = {}
  BY RelayShape DEF Used
<1>2. IsFiniteSet(Used)' /\ (Cardinality(Used) <= MaxRelays)'
  BY <1>1, FS_EmptySet, RelayAssumption
<1>3. relays' \in [Relayed -> Id \cup {Absent}] /\ relay' \in [Id -> RelayOf] /\ hand' \in [Handler -> HandOf]
  BY RelayShape
<1>4. Entries' /\ Owned' /\ Joiners' /\ ReplacedIsGone'
  BY RelayShape DEF Entries, Owned, Joiners, ReplacedIsGone, Alive
<1> QED BY <1>2, <1>3, <1>4 DEF TableOK

LEMMA RelayStarts == RelayInit => RelayIInv
<1> SUFFICES ASSUME RelayInit PROVE RelayIInv
  OBVIOUS
<1>1. Used = {}
  BY RelayShape DEF Used, RelayInit
<1>2. IsFiniteSet(Used) /\ Cardinality(Used) <= MaxRelays
  BY <1>1, FS_EmptySet, RelayAssumption
<1>3. relays \in [Relayed -> Id \cup {Absent}] /\ relay \in [Id -> RelayOf] /\ hand \in [Handler -> HandOf]
  BY RelayShape DEF RelayInit
<1>4. Entries /\ Owned /\ Joiners /\ ReplacedIsGone
  BY RelayShape DEF Entries, Owned, Joiners, ReplacedIsGone, Alive, RelayInit
<1>5. PortalOK
  BY RelayShape, RelayAssumption DEF RelayInit, PortalOK
<1> QED BY <1>2, <1>3, <1>4, <1>5 DEF TableOK, RelayIInv

LEMMA TableAlone == ASSUME TableOK, UNCHANGED <<relays, relay, hand>> PROVE TableOK'
<1>1. Used' = Used
  BY DEF Used
<1> QED BY <1>1 DEF TableOK, Entries, Owned, Joiners, ReplacedIsGone, Alive

(* A step of one object's supervisor: one that nobody stopped stays its    *)
(* room's, one that was stopped does not come back.                        *)
LEMMA OneMoves ==
  ASSUME TableOK, NEW i \in Id, NEW n \in RelayOf, relay' = [relay EXCEPT ![i] = n], UNCHANGED <<relays, hand>>,
         \/ relay[i].stop /\ (n.at = "free" \/ n.stop) /\ n.at \notin {"spawned", "runs"}
         \/ /\ ~relay[i].stop /\ relay[i].at # "free"
            /\ ~n.stop /\ n.room = relay[i].room /\ n.at \notin {"free", "ended", "dying"}
  PROVE  TableOK'
<1>1. Used' = Used
  BY DEF Used
<1>2. relay' \in [Id -> RelayOf] /\ relay'[i] = n /\ \A j \in Id \ {i} : relay'[j] = relay[j]
  BY DEF TableOK
<1>3. Entries'
  <2> SUFFICES ASSUME NEW r \in Relayed, relays[r] # Absent
               PROVE  /\ relay'[relays[r]].room = r /\ relay'[relays[r]].at \notin {"free", "ended"}
                      /\ ~relay'[relays[r]].stop
    BY DEF Entries
  <2>1. relays[r] \in Id /\ relay[relays[r]].room = r /\ relay[relays[r]].at \notin {"free", "ended"}
        /\ ~relay[relays[r]].stop
    BY DEF TableOK, Entries
  <2> QED BY <1>2, <2>1
<1>4. Owned'
  BY <1>2 DEF TableOK, Owned
<1>5. ReplacedIsGone'
  BY <1>2 DEF TableOK, ReplacedIsGone, Alive
<1>6. Joiners'
  BY DEF TableOK, Joiners
<1> QED BY <1>1, <1>2, <1>3, <1>4, <1>5, <1>6 DEF TableOK

LEMMA EndedShape ==
  ASSUME TableOK, NEW i \in Id, relay[i].stop
  PROVE  Ended(i) \in RelayOf /\ (Ended(i).at = "free" \/ Ended(i).stop) /\ Ended(i).at \notin {"spawned", "runs"}
<1> DEFINE e == [relay[i] EXCEPT !.at = "ended"]
<1>1. relay[i] \in RelayOf
  BY DEF TableOK
<1>2. e \in RelayOf /\ e.at = "ended" /\ e.stop
  BY <1>1 DEF RelayOf
<1>3. Ended(i) = e \/ Ended(i) = NoRelay
  BY DEF Ended
<1> HIDE DEF e
<1> QED BY <1>2, <1>3, RelayShape

LEMMA SupervisorKeeps ==
  ASSUME TableOK, NEW i \in Id, Supervisor(i) \/ Exits(i) PROVE TableOK'
<1>0. relay[i] \in RelayOf
  BY DEF TableOK
<1>1. ASSUME NEW at \in {"spawned", "failed", "runs", "top"}
      PROVE  LET n == [relay[i] EXCEPT !.at = at] IN
             n \in RelayOf /\ n.at = at /\ n.stop = relay[i].stop /\ n.room = relay[i].room
  BY <1>0 DEF RelayOf
<1>2. ASSUME relay[i].stop, relay' = [relay EXCEPT ![i] = Ended(i)], UNCHANGED <<relays, hand>> PROVE TableOK'
  <2>1. PICK n \in RelayOf : n = Ended(i)
    BY <1>2, EndedShape
  <2> QED BY <1>2, <2>1, EndedShape, OneMoves
<1>3. ASSUME NEW at \in {"spawned", "failed", "runs", "top"}, relay' = [relay EXCEPT ![i] = [relay[i] EXCEPT !.at = at]],
             relay[i].at # "free", ~relay[i].stop \/ at = "top", UNCHANGED <<relays, hand>>
      PROVE  TableOK'
  <2>1. PICK n \in RelayOf : n = [relay[i] EXCEPT !.at = at]
    BY <1>1
  <2>2. n.at = at /\ n.stop = relay[i].stop /\ n.room = relay[i].room
    BY <1>1, <2>1
  <2>3. CASE relay[i].stop
    BY <1>3, <2>1, <2>2, <2>3, OneMoves
  <2>4. CASE ~relay[i].stop
    BY <1>3, <2>1, <2>2, <2>4, OneMoves
  <2> QED BY <2>3, <2>4
<1>4. CASE Spawn(i)
  <2>1. CASE relay[i].stop
    BY <1>2, <1>4, <2>1 DEF Spawn
  <2>2. CASE ~relay[i].stop
    <3>1. PICK at \in {"spawned", "failed"} : relay' = [relay EXCEPT ![i].at = at]
      BY <1>4, <2>2 DEF Spawn
    <3>2. relay' = [relay EXCEPT ![i] = [relay[i] EXCEPT !.at = at]]
      BY <3>1 DEF TableOK
    <3> QED BY <1>3, <1>4, <2>2, <3>2 DEF Spawn
  <2> QED BY <2>1, <2>2
<1>5. CASE Register(i)
  <2>1. CASE relay[i].stop
    BY <1>2, <1>5, <2>1 DEF Register, Registered
  <2>2. CASE ~relay[i].stop
    BY <1>3, <1>5, <2>2 DEF Register, Registered
  <2> QED BY <2>1, <2>2
<1>6. CASE Reaps(i)
  <2>1. relay[i].stop
    BY <1>0, <1>6 DEF Reaps, TableOK, Owned, RelayOf
  <2> QED BY <1>2, <1>6, <2>1 DEF Reaps
<1>7. CASE Exits(i)
  <2>1. relay' = [relay EXCEPT ![i] = [relay[i] EXCEPT !.at = "top"]]
    BY <1>7 DEF Exits, TableOK
  <2> QED BY <1>3, <1>7, <2>1 DEF Exits
<1> QED BY <1>4, <1>5, <1>6, <1>7 DEF Supervisor

------------------------------------------------------------------------------
(* A request is sent: its place held on to nothing, and does not now.      *)
LEMMA SendsKeeps ==
  ASSUME TableOK, NEW k \in Handler, NEW op \in {"put", "delete"}, NEW r \in Relayed, NEW d \in Dest \cup {Absent},
         Sends(k, op, r, d), UNCHANGED <<relays, relay>>
  PROVE  TableOK'
<1> DEFINE n == [op |-> op, room |-> r, dest |-> d, joins |-> Absent]
<1>1. n \in HandOf /\ n.op = op /\ n.room = r /\ n.joins = Absent
  BY DEF HandOf
<1>2. hand' = [hand EXCEPT ![k] = n] /\ hand[k].op = "none"
  BY DEF Sends, FreeHands
<1> HIDE DEF n
<1>3. hand' \in [Handler -> HandOf] /\ hand'[k] = n /\ \A j \in Handler \ {k} : hand'[j] = hand[j]
  BY <1>1, <1>2 DEF TableOK
<1>4. Used' = Used /\ hand[k].joins = Absent
  BY <1>2 DEF Used, TableOK, Joiners
<1>5. Joiners'
  BY <1>1, <1>3 DEF TableOK, Joiners
<1>6. ReplacedIsGone'
  <2> SUFFICES ASSUME NEW i \in Id, Alive(i)', relay'[i].stop PROVE \E j \in Handler : hand'[j].joins = i
    BY DEF ReplacedIsGone
  <2>1. PICK j \in Handler : hand[j].joins = i
    BY DEF TableOK, ReplacedIsGone, Alive
  <2>2. j # k
    BY <1>4, <2>1, RelayAssumption
  <2> QED BY <1>3, <2>1, <2>2
<1> QED BY <1>3, <1>4, <1>5, <1>6 DEF TableOK, Entries, Owned

(* What answering and letting go of the portal leaves of a request.        *)
LEMMA AnswerShape ==
  ASSUME TableOK, PortalOK, NEW k \in Handler, Answer(k), UNCHANGED <<dest, feeds, breaks>>
  PROVE  /\ PortalOK' /\ hand' \in [Handler -> HandOf] /\ hand'[k] = NoHand
         /\ \A j \in Handler \ {k} : hand'[j] = hand[j]
<1>1. hand' \in [Handler -> HandOf] /\ hand'[k] = NoHand /\ \A j \in Handler \ {k} : hand'[j] = hand[j]
  BY RelayShape DEF Answer, TableOK
<1>2. sync' \in SyncOf
  BY DEF Answer, LetGo, PortalOK, SyncOf
<1>3. owner' \in [Relayed -> Handler \cup {Absent}]
  BY DEF Answer, LetGo, PortalOK
<1> QED BY <1>1, <1>2, <1>3 DEF PortalOK

LEMMA JoinsShape ==
  ASSUME TableOK, PortalOK, NEW k \in Handler, NEW i \in Id \cup {Absent}, Joins(k, i), UNCHANGED <<dest, feeds, breaks>>
  PROVE  /\ PortalOK' /\ hand' \in [Handler -> HandOf]
         /\ \A j \in Handler \ {k} : hand'[j] = hand[j]
         /\ \/ (i # Absent => relay[i].at = "failed") /\ hand'[k] = NoHand
            \/ i \in Id /\ hand'[k].op = "join" /\ hand'[k].joins = i
<1>1. CASE Answer(k) /\ (i # Absent => relay[i].at = "failed")
  BY <1>1, AnswerShape
<1>2. CASE /\ i # Absent
           /\ hand' = [hand EXCEPT ![k] = [NoHand EXCEPT !.op = "join", !.joins = i]]
           /\ UNCHANGED <<owner, sync>>
  <2> DEFINE a == [NoHand EXCEPT !.op = "join"]
             n == [a EXCEPT !.joins = i]
  <2>1. a \in HandOf /\ a.op = "join"
    BY RelayShape DEF HandOf
  <2>2. n = [NoHand EXCEPT !.op = "join", !.joins = i]
    OBVIOUS
  <2> HIDE DEF a
  <2>3. n \in HandOf /\ n.op = "join" /\ n.joins = i
    BY <2>1 DEF HandOf
  <2> HIDE DEF n
  <2>4. PortalOK'
    BY <1>2 DEF PortalOK
  <2> QED BY <1>2, <2>2, <2>3, <2>4 DEF TableOK
<1> QED BY <1>1, <1>2 DEF Joins

LEMMA DroppedShape ==
  ASSUME TableOK, NEW i \in Id
  PROVE  /\ Dropped(i) \in RelayOf /\ (Dropped(i).at = "free" \/ Dropped(i).stop)
         /\ Dropped(i).at \in {"spawned", "runs"} => relay[i].at # "failed"
<1> DEFINE a == [relay[i] EXCEPT !.stop = TRUE]
           s == [a EXCEPT !.at = IF relay[i].at = "runs" THEN "dying" ELSE relay[i].at]
<1>1. relay[i] \in RelayOf
  BY DEF TableOK
<1>2. a \in RelayOf /\ a.stop /\ a.at = relay[i].at
  BY <1>1 DEF RelayOf
<1>3. StopLocked(i) = s
  BY <1>1 DEF StopLocked, RelayOf
<1> HIDE DEF a
<1>4. s \in RelayOf /\ s.stop
  BY <1>2 DEF RelayOf
<1> HIDE DEF s
<1>5. Dropped(i) = IF relay[i].at = "failed" THEN NoRelay ELSE s
  BY <1>3 DEF Dropped
<1> QED BY <1>4, <1>5, RelayShape

(* The entry of one room is replaced, or removed; who did it joins the     *)
(* object that was there, unless that is gone already.                     *)
LEMMA EntryReplaced ==
  ASSUME TableOK, NEW k \in Handler, NEW r \in Relayed, NEW old \in Id \cup {Absent}, old = relays[r],
         NEW new \in Id \cup {Absent}, relays' = [relays EXCEPT ![r] = new],
         relay' \in [Id -> RelayOf],
         \A j \in Id : j # new => relay'[j] = IF j = old THEN Dropped(j) ELSE relay[j],
         new # Absent => /\ relay[new].at = "free" /\ relay'[new].at = "top" /\ relay'[new].room = r
                         /\ ~relay'[new].stop /\ ~AtCapacity(r),
         hand[k].op # "join", hand' \in [Handler -> HandOf],
         \A j \in Handler \ {k} : hand'[j] = hand[j],
         \/ (old # Absent => relay[old].at = "failed") /\ hand'[k] = NoHand
         \/ old \in Id /\ hand'[k].op = "join" /\ hand'[k].joins = old
  PROVE  TableOK'
<1>1. relays \in [Relayed -> Id \cup {Absent}] /\ relay \in [Id -> RelayOf]
  BY DEF TableOK
<1>2. old # Absent => old \in Id /\ old # new /\ relay[old].room = r
  BY DEF TableOK, Entries
<1>3. Entries'
  <2> SUFFICES ASSUME NEW q \in Relayed, relays'[q] # Absent
               PROVE  /\ relay'[relays'[q]].room = q /\ relay'[relays'[q]].at \notin {"free", "ended"}
                      /\ ~relay'[relays'[q]].stop
    BY DEF Entries
  <2>1. CASE q = r
    BY <1>1, <2>1
  <2>2. CASE q # r
    <3>1. relays'[q] = relays[q] /\ relays[q] \in Id /\ relay[relays[q]].room = q
          /\ relay[relays[q]].at \notin {"free", "ended"} /\ ~relay[relays[q]].stop
      BY <1>1, <2>2 DEF TableOK, Entries
    <3>2. relays[q] # new /\ relays[q] # old
      BY <1>2, <2>2, <3>1
    <3> QED BY <3>1, <3>2
  <2> QED BY <2>1, <2>2
<1>4. Owned'
  <2> SUFFICES ASSUME NEW i \in Id, relay'[i].at # "free", ~relay'[i].stop
               PROVE  /\ relay'[i].room \in Relayed /\ relays'[relay'[i].room] = i
                      /\ relay'[i].at \notin {"dying", "ended"}
    BY DEF Owned
  <2>1. CASE i = new
    BY <1>1, <2>1, RelayAssumption
  <2>2. CASE i # new /\ i = old
    BY <2>2, DroppedShape
  <2>3. CASE i # new /\ i # old
    <3>1. relay'[i] = relay[i]
      BY <2>3
    <3>2. /\ relay[i].room \in Relayed /\ relays[relay[i].room] = i
          /\ relay[i].at \notin {"dying", "ended"}
      BY <3>1 DEF TableOK, Owned
    <3>3. relay[i].room # r
      BY <2>3, <3>2
    <3> QED BY <1>1, <3>1, <3>2, <3>3
  <2> QED BY <2>1, <2>2, <2>3
<1>5. Joiners'
  BY RelayShape DEF TableOK, Joiners
<1>6. ReplacedIsGone'
  <2> SUFFICES ASSUME NEW i \in Id, relay'[i].at \in {"spawned", "runs"}, relay'[i].stop
               PROVE  \E j \in Handler : hand'[j].joins = i
    BY DEF ReplacedIsGone, Alive
  <2>1. i # new
    BY RelayAssumption
  <2>2. CASE i = old
    BY <2>1, <2>2, DroppedShape, RelayAssumption
  <2>3. CASE i # old
    <3>1. PICK j \in Handler : hand[j].joins = i
      BY <2>1, <2>3 DEF TableOK, ReplacedIsGone, Alive
    <3>2. j # k
      BY <3>1, RelayAssumption DEF TableOK, Joiners
    <3> QED BY <3>1, <3>2
  <2> QED BY <2>2, <2>3
<1>7. IsFiniteSet(Used)' /\ (Cardinality(Used) <= MaxRelays)'
  <2>1. IsFiniteSet(Used) /\ Cardinality(Used) <= MaxRelays /\ Cardinality(Used) \in Nat
    BY FS_CardinalityType DEF TableOK
  <2>2. CASE new = Absent \/ r \in Used
    <3>1. Used' \subseteq Used
      BY <1>1, <2>2 DEF Used
    <3> QED BY <2>1, <3>1, FS_Subset, FS_CardinalityType, RelayAssumption
  <2>3. CASE new # Absent /\ r \notin Used
    <3>1. Used' \subseteq Used \cup {r}
      BY <1>1 DEF Used
    <3>2. Cardinality(Used) < MaxRelays
      <4>1. relays[r] = Absent /\ ~AtCapacity(r)
        BY <2>3 DEF Used
      <4> QED BY <2>1, <4>1, RelayAssumption DEF AtCapacity, Used
    <3>3. IsFiniteSet(Used \cup {r}) /\ Cardinality(Used \cup {r}) = Cardinality(Used) + 1
      BY <2>1, <2>3, FS_AddElement
    <3>4. IsFiniteSet(Used') /\ Cardinality(Used') <= Cardinality(Used \cup {r}) /\ Cardinality(Used') \in Nat
      BY <3>1, <3>3, FS_Subset, FS_CardinalityType
    <3> QED BY <2>1, <3>2, <3>3, <3>4, RelayAssumption
  <2> QED BY <2>2, <2>3
<1>8. relays' \in [Relayed -> Id \cup {Absent}]
  BY <1>1
<1> QED BY <1>3, <1>4, <1>5, <1>6, <1>7, <1>8 DEF TableOK

(* A request is answered and nothing in the table changes.                 *)
LEMMA AnswerKeeps ==
  ASSUME RelayIInv, NEW k \in Handler, hand[k].op # "join", Answer(k), UNCHANGED <<relays, relay, dest, feeds, breaks>>
  PROVE  RelayIInv'
<1>1. /\ PortalOK' /\ hand' \in [Handler -> HandOf] /\ hand'[k] = NoHand
      /\ \A j \in Handler \ {k} : hand'[j] = hand[j]
  BY AnswerShape DEF RelayIInv
<1>2. Used' = Used /\ hand[k].joins = Absent
  BY DEF Used, RelayIInv, TableOK, Joiners
<1>3. Joiners'
  BY <1>1, RelayShape DEF RelayIInv, TableOK, Joiners
<1>4. ReplacedIsGone'
  <2> SUFFICES ASSUME NEW i \in Id, relay[i].at \in {"spawned", "runs"}, relay[i].stop
               PROVE  \E j \in Handler : hand'[j].joins = i
    BY DEF ReplacedIsGone, Alive
  <2>1. PICK j \in Handler : hand[j].joins = i
    BY DEF RelayIInv, TableOK, ReplacedIsGone, Alive
  <2>2. j # k
    BY <1>2, <2>1, RelayAssumption
  <2> QED BY <1>1, <2>1, <2>2
<1> QED BY <1>1, <1>2, <1>3, <1>4 DEF RelayIInv, TableOK, Entries, Owned

LEMMA EnsureKeeps ==
  ASSUME RelayIInv, NEW k \in Handler, Ensure(k) PROVE RelayIInv'
<1>0. PICK r \in Relayed : r = hand[k].room
  BY DEF Ensure, RelayIInv, TableOK, Joiners
<1>1. PICK old \in Id \cup {Absent} : old = relays[r]
  BY DEF RelayIInv, TableOK
<1>2. hand[k].op = "put" /\ hand[k].dest \in Dest \cup {Absent} /\ UNCHANGED <<dest, feeds, breaks>>
  BY DEF Ensure, RelayIInv, TableOK, HandOf
<1>3. CASE Answer(k) /\ UNCHANGED <<relays, relay>>
  BY <1>2, <1>3, AnswerKeeps
<1>4. CASE /\ ~AtCapacity(hand[k].room)
           /\ FreeIds # {}
           /\ LET i == CHOOSE j \in FreeIds : TRUE IN
                /\ relays' = [relays EXCEPT ![hand[k].room] = i]
                /\ relay' = [j \in Id |->
                     IF j = i THEN [at |-> "top", room |-> hand[k].room, dest |-> hand[k].dest, stop |-> FALSE]
                     ELSE IF j = relays[hand[k].room] THEN Dropped(j) ELSE relay[j]]
           /\ Joins(k, relays[hand[k].room])
  <2> DEFINE n == [at |-> "top", room |-> r, dest |-> hand[k].dest, stop |-> FALSE]
  <2>1. PICK i \in Id : i = CHOOSE j \in FreeIds : TRUE
    BY <1>4 DEF FreeIds
  <2>2. relay[i].at = "free" /\ ~AtCapacity(r) /\ relays' = [relays EXCEPT ![r] = i] /\ Joins(k, old)
    BY <1>0, <1>1, <1>4, <2>1 DEF FreeIds
  <2>3. n \in RelayOf /\ n.at = "top" /\ n.room = r /\ ~n.stop
    BY <1>2 DEF RelayOf
  <2>4. relay'[i] = n /\ \A j \in Id : j # i => relay'[j] = IF j = old THEN Dropped(j) ELSE relay[j]
    BY <1>0, <1>1, <1>4, <2>1
  <2> HIDE DEF n
  <2>5. relay' \in [Id -> RelayOf]
    <3>1. \A j \in Id : Dropped(j) \in RelayOf /\ relay[j] \in RelayOf
      BY DroppedShape DEF RelayIInv, TableOK
    <3>2. relay' = [j \in Id |-> relay'[j]]
      BY <1>4
    <3>3. ASSUME NEW j \in Id PROVE relay'[j] \in RelayOf
      BY <2>3, <2>4, <3>1
    <3> QED BY <3>2, <3>3
  <2>6. /\ PortalOK' /\ hand' \in [Handler -> HandOf]
        /\ \A j \in Handler \ {k} : hand'[j] = hand[j]
        /\ \/ (old # Absent => relay[old].at = "failed") /\ hand'[k] = NoHand
           \/ old \in Id /\ hand'[k].op = "join" /\ hand'[k].joins = old
    BY <1>2, <2>2, JoinsShape DEF RelayIInv
  <2>7. PICK new \in Id \cup {Absent} : new = i
    BY <2>1
  <2>8. /\ TableOK /\ relays' = [relays EXCEPT ![r] = new]
        /\ \A j \in Id : j # new => relay'[j] = IF j = old THEN Dropped(j) ELSE relay[j]
        /\ new # Absent => /\ relay[new].at = "free" /\ relay'[new].at = "top" /\ relay'[new].room = r
                           /\ ~relay'[new].stop /\ ~AtCapacity(r)
        /\ hand[k].op # "join"
    BY <1>2, <2>2, <2>3, <2>4, <2>7 DEF RelayIInv
  <2>9. TableOK'
    BY <1>1, <2>5, <2>6, <2>8, EntryReplaced, ZenonT(60)
  <2> QED BY <2>6, <2>9 DEF RelayIInv
<1> QED BY <1>3, <1>4 DEF Ensure

LEMMA StopKeeps ==
  ASSUME RelayIInv, NEW k \in Handler, Stop(k) PROVE RelayIInv'
<1>0. PICK r \in Relayed : r = hand[k].room
  BY DEF Stop, RelayIInv, TableOK, Joiners
<1>1. PICK old \in Id \cup {Absent} : old = relays[r]
  BY DEF RelayIInv, TableOK
<1>2. /\ hand[k].op = "delete" /\ UNCHANGED <<dest, feeds, breaks>>
      /\ relays' = [relays EXCEPT ![r] = Absent] /\ Joins(k, old)
      /\ relay' = [j \in Id |-> IF j = old THEN Dropped(j) ELSE relay[j]]
  BY <1>0, <1>1 DEF Stop
<1>3. /\ PortalOK' /\ hand' \in [Handler -> HandOf]
      /\ \A j \in Handler \ {k} : hand'[j] = hand[j]
      /\ \/ (old # Absent => relay[old].at = "failed") /\ hand'[k] = NoHand
         \/ old \in Id /\ hand'[k].op = "join" /\ hand'[k].joins = old
  BY <1>2, JoinsShape DEF RelayIInv
<1>4. relay' \in [Id -> RelayOf]
  BY <1>2, DroppedShape DEF RelayIInv, TableOK
<1>5. PICK new \in Id \cup {Absent} : new = Absent
  OBVIOUS
<1>6. TableOK'
  BY <1>1, <1>2, <1>3, <1>4, <1>5, EntryReplaced DEF RelayIInv
<1> QED BY <1>3, <1>6 DEF RelayIInv

LEMMA JoinKeeps ==
  ASSUME RelayIInv, NEW k \in Handler, Join(k) PROVE RelayIInv'
<1>0. PICK i \in Id : i = hand[k].joins
  BY DEF Join, RelayIInv, TableOK, Joiners
<1>1. relay[i].at = "ended" /\ Answer(k) /\ UNCHANGED <<dest, feeds, relays, breaks>>
  BY <1>0 DEF Join
<1>2. PICK n \in RelayOf : n \in {relay[i], NoRelay} /\ relay' = [relay EXCEPT ![i] = n]
  <2>1. relay[i] \in RelayOf /\ NoRelay \in RelayOf
    BY RelayShape DEF RelayIInv, TableOK
  <2>2. relay' = [relay EXCEPT ![i] = IF \E j \in Handler \ {k} : hand[j].joins = i THEN relay[i] ELSE NoRelay]
    BY <1>0 DEF Join, RelayIInv, TableOK
  <2> QED BY <2>1, <2>2
<1>3. /\ PortalOK' /\ hand' \in [Handler -> HandOf] /\ hand'[k] = NoHand
      /\ \A j \in Handler \ {k} : hand'[j] = hand[j]
  BY <1>1, AnswerShape DEF RelayIInv
<1>4. relay' \in [Id -> RelayOf] /\ relay'[i] = n /\ \A j \in Id \ {i} : relay'[j] = relay[j]
  BY <1>2 DEF RelayIInv, TableOK
<1>5. relay[i].stop /\ (n.at = "free" \/ n.stop) /\ n.at \in {"free", "ended"}
  BY <1>1, <1>2, RelayShape DEF RelayIInv, TableOK, Owned
<1>6. Entries'
  <2> SUFFICES ASSUME NEW r \in Relayed, relays[r] # Absent
               PROVE  /\ relay'[relays[r]].room = r /\ relay'[relays[r]].at \notin {"free", "ended"}
                      /\ ~relay'[relays[r]].stop
    BY <1>1 DEF Entries
  <2>1. relays[r] \in Id /\ relays[r] # i /\ relay[relays[r]].room = r
        /\ relay[relays[r]].at \notin {"free", "ended"} /\ ~relay[relays[r]].stop
    BY <1>1 DEF RelayIInv, TableOK, Entries
  <2> QED BY <1>4, <2>1
<1>7. Owned'
  BY <1>1, <1>4, <1>5 DEF RelayIInv, TableOK, Owned
<1>8. Joiners'
  BY <1>3, RelayShape DEF RelayIInv, TableOK, Joiners
<1>9. ReplacedIsGone'
  <2> SUFFICES ASSUME NEW j \in Id, relay'[j].at \in {"spawned", "runs"}, relay'[j].stop
               PROVE  \E l \in Handler : hand'[l].joins = j
    BY DEF ReplacedIsGone, Alive
  <2>1. j # i /\ relay[j] = relay'[j]
    BY <1>4, <1>5
  <2>2. PICK l \in Handler : hand[l].joins = j
    BY <2>1 DEF RelayIInv, TableOK, ReplacedIsGone, Alive
  <2> QED BY <1>0, <1>3, <2>1, <2>2
<1>10. Used' = Used
  BY <1>1 DEF Used
<1> QED BY <1>1, <1>3, <1>4, <1>6, <1>7, <1>8, <1>9, <1>10 DEF RelayIInv, TableOK

------------------------------------------------------------------------------
(* The portal.  One field of the pass at a time.                           *)
LEMMA SyncFields ==
  ASSUME NEW s \in SyncOf
  PROVE  /\ \A x \in {"idle", "collect", "list", "stop", "start"} : [s EXCEPT !.at = x] \in SyncOf
         /\ \A x \in [Relayed -> Dest \cup {Absent}] : [s EXCEPT !.wanted = x] \in SyncOf
         /\ \A x \in [Relayed -> Dest \cup {Absent}] : [s EXCEPT !.live = x] \in SyncOf
         /\ \A x \in SUBSET Relayed : [s EXCEPT !.todo = x] \in SyncOf
         /\ \A x \in Handler \cup {Absent} : [s EXCEPT !.waits = x] \in SyncOf
BY DEF SyncOf

(* A step of the pass that asks the service for nothing.                   *)
LEMMA PassesKeeps ==
  ASSUME RelayIInv, NEW next \in SyncOf, Passes(next), UNCHANGED hand PROVE RelayIInv'
<1>1. TableOK'
  BY TableAlone DEF Passes, RelayIInv
<1>2. PortalOK'
  BY DEF Passes, RelayIInv, PortalOK
<1> QED BY <1>1, <1>2 DEF RelayIInv

LEMMA PassSteps ==
  ASSUME RelayIInv, BeginPass \/ List \/ ListFails \/ StopsDone \/ EndPass PROVE RelayIInv'
<1>0. /\ sync \in SyncOf /\ NoPass \in SyncOf /\ dest \in [Relayed -> Dest \cup {Absent}]
      /\ relays \in [Relayed -> Id \cup {Absent}] /\ relay \in [Id -> RelayOf]
      /\ sync.wanted \in [Relayed -> Dest \cup {Absent}] /\ sync.live \in [Relayed -> Dest \cup {Absent}]
      /\ sync.todo \subseteq Relayed
  BY RelayShape DEF RelayIInv, PortalOK, TableOK, SyncOf
<1>1. CASE BeginPass
  <2> DEFINE a == [NoPass EXCEPT !.at = "collect"]
             b == [a EXCEPT !.todo = {q \in Relayed : feeds[q]}]
  <2>1. b = [NoPass EXCEPT !.at = "collect", !.todo = {q \in Relayed : feeds[q]}]
    OBVIOUS
  <2>2. a \in SyncOf
    BY <1>0, SyncFields
  <2> HIDE DEF a
  <2>3. b \in SyncOf
    BY <2>2, SyncFields
  <2>4. PICK n \in SyncOf : n = b
    BY <2>3
  <2>5. Passes(n) /\ UNCHANGED hand
    BY <1>1, <2>1, <2>4 DEF BeginPass
  <2> QED BY <2>5, PassesKeeps
<1>2. CASE List
  <2> DEFINE l == [q \in Relayed |-> IF relays[q] = Absent THEN Absent ELSE relay[relays[q]].dest]
             a == [sync EXCEPT !.at = "stop"]
             b == [a EXCEPT !.live = l]
             c == [b EXCEPT !.todo = Orphans(l)]
  <2>1. c = [sync EXCEPT !.at = "stop", !.live = l, !.todo = Orphans(l)]
    OBVIOUS
  <2>2. Passes(c) /\ UNCHANGED hand
    BY <1>2, <2>1 DEF List
  <2>3. a \in SyncOf
    BY <1>0, SyncFields
  <2>4. l \in [Relayed -> Dest \cup {Absent}]
    BY <1>0 DEF RelayOf
  <2> HIDE DEF a, l
  <2>5. b \in SyncOf
    BY <2>3, <2>4, SyncFields
  <2> HIDE DEF b
  <2>6. c \in SyncOf
    BY <2>5, SyncFields DEF Orphans
  <2>7. PICK n \in SyncOf : n = c
    BY <2>6
  <2> QED BY <2>2, <2>7, PassesKeeps
<1>3. CASE ListFails \/ EndPass
  <2>1. PICK n \in SyncOf : n = NoPass
    BY <1>0
  <2>2. Passes(n) /\ UNCHANGED hand
    BY <1>3, <2>1 DEF ListFails, EndPass
  <2> QED BY <2>2, PassesKeeps
<1>4. CASE StopsDone
  <2> DEFINE w == [q \in Relayed |-> IF q \in ToStart THEN sync.wanted[q] ELSE Absent]
             l == [q \in Relayed |-> IF q \in ToStart THEN sync.live[q] ELSE Absent]
             a == [sync EXCEPT !.at = "start"]
             b == [a EXCEPT !.todo = ToStart]
             c == [b EXCEPT !.wanted = w]
             d == [c EXCEPT !.live = l]
  <2>1. Passes(d) /\ UNCHANGED hand
    BY <1>4, <1>0 DEF StopsDone, SyncOf
  <2>2. a \in SyncOf /\ ToStart \subseteq Relayed
    BY <1>0, SyncFields DEF ToStart
  <2>3. w \in [Relayed -> Dest \cup {Absent}] /\ l \in [Relayed -> Dest \cup {Absent}]
    BY <1>0
  <2> HIDE DEF a, w, l
  <2>4. b \in SyncOf
    BY <2>2, SyncFields
  <2> HIDE DEF b
  <2>5. c \in SyncOf
    BY <2>3, <2>4, SyncFields
  <2> HIDE DEF c
  <2>6. d \in SyncOf
    BY <2>3, <2>5, SyncFields
  <2>7. PICK n \in SyncOf : n = d
    BY <2>6
  <2> QED BY <2>1, <2>7, PassesKeeps
<1> QED BY <1>1, <1>2, <1>3, <1>4

(* What the pass does room by room without the service.                    *)
LEMMA PassRooms ==
  ASSUME RelayIInv, NEW r \in Relayed, Collect(r) \/ Unreached(r) PROVE RelayIInv'
<1>0. /\ sync \in SyncOf /\ NoPass \in SyncOf /\ dest \in [Relayed -> Dest \cup {Absent}]
      /\ relays \in [Relayed -> Id \cup {Absent}] /\ relay \in [Id -> RelayOf]
      /\ sync.wanted \in [Relayed -> Dest \cup {Absent}] /\ sync.live \in [Relayed -> Dest \cup {Absent}]
      /\ sync.todo \subseteq Relayed
  BY RelayShape DEF RelayIInv, PortalOK, TableOK, SyncOf
<1>1. CASE Collect(r)
  <2> DEFINE w == [sync.wanted EXCEPT ![r] = dest[r]]
             a == [sync EXCEPT !.todo = @ \ {r}]
             b == [a EXCEPT !.wanted = w]
  <2>1. b = [sync EXCEPT !.todo = @ \ {r}, !.wanted[r] = dest[r]]
    BY <1>0 DEF SyncOf
  <2>2. a \in SyncOf /\ w \in [Relayed -> Dest \cup {Absent}]
    BY <1>0, SyncFields
  <2> HIDE DEF a, w
  <2>3. b \in SyncOf
    BY <2>2, SyncFields
  <2>4. PICK n \in SyncOf : n = b
    BY <2>3
  <2>5. Passes(n) /\ UNCHANGED hand
    BY <1>1, <2>1, <2>4 DEF Collect
  <2> QED BY <2>5, PassesKeeps
<1>2. CASE Unreached(r)
  <2> DEFINE a == [sync EXCEPT !.todo = @ \ {r}]
  <2>1. a \in SyncOf
    BY <1>0, SyncFields
  <2>2. PICK n \in SyncOf : n = a
    BY <2>1
  <2>3. Passes(n) /\ UNCHANGED hand
    BY <1>2, <2>2 DEF Unreached
  <2> QED BY <2>3, PassesKeeps
<1> QED BY <1>1, <1>2

(* The pass asks the service to stop or to start a room.                   *)
LEMMA PassAsks ==
  ASSUME RelayIInv, NEW r \in Relayed, NEW k \in Handler, StopOrphan(r, k) \/ Start(r, k) PROVE RelayIInv'
<1>0. /\ sync \in SyncOf /\ sync.todo \subseteq Relayed
      /\ sync.wanted \in [Relayed -> Dest \cup {Absent}] /\ sync.live \in [Relayed -> Dest \cup {Absent}]
  BY DEF RelayIInv, PortalOK, SyncOf
<1> DEFINE a == [sync EXCEPT !.todo = @ \ {r}]
           b == [a EXCEPT !.waits = k]
<1>1. a \in SyncOf /\ a.wanted = sync.wanted /\ a.live = sync.live
  BY <1>0 DEF SyncOf
<1>2. b \in SyncOf /\ b.wanted = sync.wanted /\ b.live = sync.live
  <2> HIDE DEF a
  <2> QED BY <1>1 DEF SyncOf
<1>3. CASE StopOrphan(r, k)
  <2>1. sync' = b /\ UNCHANGED <<dest, feeds, relays, relay, owner, breaks>> /\ Sends(k, "delete", r, Absent)
    BY <1>3 DEF StopOrphan, Passes
  <2> HIDE DEF b
  <2>2. TableOK'
    BY <2>1, SendsKeeps DEF RelayIInv
  <2> QED BY <1>2, <2>1, <2>2 DEF RelayIInv, PortalOK
<1>4. CASE Start(r, k)
  <2> DEFINE w == [sync.wanted EXCEPT ![r] = Absent]
             l == [sync.live EXCEPT ![r] = Absent]
             c == [b EXCEPT !.wanted = w]
             d == [c EXCEPT !.live = l]
  <2>1. sync' = d
    BY <1>4, <1>0 DEF Start, Passes, SyncOf
  <2>2. w \in [Relayed -> Dest \cup {Absent}] /\ l \in [Relayed -> Dest \cup {Absent}]
    BY <1>0
  <2> HIDE DEF b, w, l
  <2>3. c \in SyncOf
    BY <1>2, <2>2, SyncFields
  <2> HIDE DEF c
  <2>4. d \in SyncOf
    BY <2>2, <2>3, SyncFields
  <2> HIDE DEF d
  <2>5. UNCHANGED <<dest, feeds, relays, relay, owner, breaks>> /\ Sends(k, "put", r, sync.wanted[r])
    BY <1>4 DEF Start, Passes
  <2>6. PICK w0 \in Dest \cup {Absent} : w0 = sync.wanted[r]
    BY <1>0
  <2>7. TableOK'
    BY <2>5, <2>6, SendsKeeps DEF RelayIInv
  <2> QED BY <2>1, <2>4, <2>5, <2>7 DEF RelayIInv, PortalOK
<1> QED BY <1>3, <1>4

(* Owners, feeds, time that runs out and restarts.                         *)
LEMMA OwnersKeep ==
  ASSUME RelayIInv, NEW r \in Relayed,
         FeedChanges(r) \/ ClearUnreached(r) \/ OwnerGoesOn(r) \/ \E d \in Dest : SetDest(r, d)
  PROVE  RelayIInv'
<1>1. TableOK'
  BY TableAlone DEF SetDest, FeedChanges, ClearUnreached, OwnerGoesOn, RelayIInv
<1>2. breaks' \in 0 .. MaxBreaks
  BY RelayAssumption DEF SetDest, FeedChanges, ClearUnreached, OwnerGoesOn, RelayIInv, PortalOK
<1>3. /\ dest' \in [Relayed -> Dest \cup {Absent}] /\ feeds' \in [Relayed -> BOOLEAN]
      /\ owner' \in [Relayed -> Handler \cup {Absent}] /\ sync' = sync
  BY DEF SetDest, FeedChanges, ClearUnreached, OwnerGoesOn, RelayIInv, PortalOK
<1> QED BY <1>1, <1>2, <1>3 DEF RelayIInv, PortalOK

LEMMA OwnersAsk ==
  ASSUME RelayIInv, NEW r \in Relayed, NEW k \in Handler, ClearDest(r, k) \/ ChangeSource(r, k) PROVE RelayIInv'
<1>0. PICK none \in Dest \cup {Absent} : none = Absent
  OBVIOUS
<1>1. TableOK'
  BY <1>0, SendsKeeps DEF ClearDest, ChangeSource, RelayIInv
<1>2. PortalOK'
  BY DEF ClearDest, ChangeSource, RelayIInv, PortalOK
<1> QED BY <1>1, <1>2 DEF RelayIInv

LEMMA RestartsKeep ==
  ASSUME RelayIInv, SyncGoesOn \/ PortalRestart \/ ServiceRestarts PROVE RelayIInv'
<1>1. [sync EXCEPT !.waits = Absent] \in SyncOf
  BY SyncFields DEF RelayIInv, PortalOK
<1>2. PortalOK'
  BY <1>1, RelayShape, RelayAssumption DEF SyncGoesOn, PortalRestart, ServiceRestarts, RelayIInv, PortalOK
<1>3. TableOK'
  BY TableAlone, EmptyTable DEF SyncGoesOn, PortalRestart, ServiceRestarts, RelayIInv
<1> QED BY <1>2, <1>3 DEF RelayIInv

LEMMA SupervisorStep ==
  ASSUME RelayIInv, NEW i \in Id, Supervisor(i) \/ Exits(i) PROVE RelayIInv'
<1>1. TableOK'
  BY SupervisorKeeps DEF RelayIInv
<1>2. PortalOK'
  BY DEF Supervisor, Spawn, Register, Reaps, Exits, RelayIInv, PortalOK
<1> QED BY <1>1, <1>2 DEF RelayIInv

LEMMA RelayStep == RelayIInv /\ [RelayNext]_relayVars => RelayIInv'
<1> SUFFICES ASSUME RelayIInv, [RelayNext]_relayVars PROVE RelayIInv'
  OBVIOUS
<1>1. CASE UNCHANGED relayVars
  <2>1. TableOK'
    BY <1>1, TableAlone DEF relayVars, RelayIInv
  <2>2. PortalOK'
    BY <1>1 DEF relayVars, RelayIInv, PortalOK
  <2> QED BY <2>1, <2>2 DEF RelayIInv
<1>2. ASSUME NEW r \in Relayed, Collect(r) \/ Unreached(r) PROVE RelayIInv'
  BY <1>2, PassRooms
<1>3. CASE BeginPass \/ List \/ StopsDone \/ EndPass \/ ListFails
  BY <1>3, PassSteps
<1>4. CASE SyncGoesOn \/ PortalRestart \/ ServiceRestarts
  BY <1>4, RestartsKeep
<1>5. ASSUME NEW i \in Id, Supervisor(i) \/ Exits(i) PROVE RelayIInv'
  BY <1>5, SupervisorStep
<1>6. ASSUME NEW k \in Handler, Service(k) PROVE RelayIInv'
  BY <1>6, EnsureKeeps, StopKeeps, JoinKeeps DEF Service
<1>7. ASSUME NEW r \in Relayed, NEW d \in Dest, SetDest(r, d) PROVE RelayIInv'
  BY <1>7, OwnersKeep
<1>8. ASSUME NEW r \in Relayed, FeedChanges(r) \/ ClearUnreached(r) \/ OwnerGoesOn(r) PROVE RelayIInv'
  BY <1>8, OwnersKeep
<1>9. ASSUME NEW r \in Relayed, NEW k \in Handler, ClearDest(r, k) \/ ChangeSource(r, k) PROVE RelayIInv'
  BY <1>9, OwnersAsk
<1>10. ASSUME NEW r \in Relayed, NEW k \in Handler, StopOrphan(r, k) \/ Start(r, k) PROVE RelayIInv'
  BY <1>10, PassAsks
<1> QED BY <1>1, <1>2, <1>3, <1>4, <1>5, <1>6, <1>7, <1>8, <1>9, <1>10 DEF RelayNext, RelayNextIn, PassGoesOn

(* Whatever requests, supervisors, passes and restarts interleave: an      *)
(* FFmpeg that was replaced runs only while the request that replaced it   *)
(* is unanswered, and no more than the allowed rooms have one.             *)
THEOREM RelayHolds == RelaySpec => []RelayInv
BY RelayStarts, RelayStep, RelaySuffices, PTL DEF RelaySpec

=============================================================================

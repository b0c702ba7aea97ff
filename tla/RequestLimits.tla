--------------------------- MODULE RequestLimits ---------------------------
(***************************************************************************)
(* The two limiters that keep their state in the portal's memory: sliding  *)
(* windows per key, swept on a timer (portal/rate_limit.py), and the       *)
(* bounded table of failed join codes (portal/join_code_limit.py).         *)
(***************************************************************************)
EXTENDS FiniteSetsExt, Integers, Sequences

CONSTANTS Key,           \* keys of the sliding windows
          Window,        \* [Key -> the window of the key's call site]
          Allowance, SweepInterval,
          Guesser,       \* addresses that guess join codes
          MaxGuesses, GuessWindow, MaxClients,
          MaxNow,        \* a bound: the clock
          MaxAsked       \* a bound: requests of one key, guesses of one address

ASSUME LimitsAssumption ==
  /\ Window \in [Key -> Nat] /\ Allowance \in Nat /\ SweepInterval \in Nat
  /\ MaxGuesses \in Nat \ {0} /\ GuessWindow \in Nat \ {0} /\ MaxClients \in Nat \ {0}

VARIABLES now,
          rates,      \* what the store has: the stamps of each key
          lastSweep,
          allowed,    \* when each key was let through (history)
          denied,     \* when a key was last refused (history)
          attempts,   \* the table of failed codes, oldest window first
          failures    \* when each address failed, since its window was last given up (history)

limitVars == <<now, rates, lastSweep, allowed, denied, attempts, failures>>

LimitsInit ==
  /\ now = 0 /\ lastSweep = 0
  /\ rates = [c \in Key |-> {}] /\ allowed = [c \in Key |-> {}] /\ denied = [c \in Key |-> {}]
  /\ attempts = <<>> /\ failures = [g \in Guesser |-> {}]

(* The stamp of what happens now, after those there are.                   *)
Stamp(stamps) == [at |-> now, nth |-> Cardinality(stamps) + 1]
Latest(stamps) == CHOOSE s \in stamps : \A t \in stamps : t.nth <= s.nth

Tick == now < MaxNow /\ now' = now + 1 /\ UNCHANGED <<rates, lastSweep, allowed, denied, attempts, failures>>

------------------------------------------------------------------------------
(* slip: a key goes once its first request is old. *)
ElapsedSinceFirst(stamps, window) == \E s \in stamps : now - s.at >= window

(* A key whose last request is old can never deny a request again.         *)
Elapsed(stamps, window) == now - Latest(stamps).at >= window

EvictExpired(store) ==
  [c \in Key |-> IF store[c] # {} /\ Elapsed(store[c], Window[c]) THEN {} ELSE store[c]]

Refused(stamps) == stamps

CheckRateLimit(c) ==
  LET sweeps == now - lastSweep >= SweepInterval
      swept == IF sweeps THEN EvictExpired(rates) ELSE rates
      stamps == {s \in swept[c] : s.at > now - Window[c]}
  IN /\ Cardinality(allowed[c]) < MaxAsked
     /\ lastSweep' = IF sweeps THEN now ELSE lastSweep
     /\ IF Cardinality(stamps) >= Allowance
        THEN /\ rates' = [swept EXCEPT ![c] = Refused(stamps)]
             /\ denied' = [denied EXCEPT ![c] = {now}] /\ UNCHANGED allowed
        ELSE /\ rates' = [swept EXCEPT ![c] = stamps \cup {Stamp(allowed[c])}]
             /\ allowed' = [allowed EXCEPT ![c] = @ \cup {Stamp(@)}] /\ UNCHANGED denied
     /\ UNCHANGED <<now, attempts, failures>>

------------------------------------------------------------------------------
(* The table is ordered by the start of its windows: the expired are first, *)
(* and purging stops at the first that is not.                             *)
Purged ==
  LET live == {i \in DOMAIN attempts : now - attempts[i].start < GuessWindow}
  IN IF live = {} THEN <<>> ELSE SubSeq(attempts, Min(live), Len(attempts))

Tries(table, g) == {i \in DOMAIN table : table[i].client = g}

(* A full table gives up its oldest window for a new address.              *)
GivesUp(table, g) == Tries(table, g) = {} /\ Len(table) >= MaxClients
Entry(g, start, count) == [client |-> g, start |-> start, count |-> count]

Recorded(table, g) ==
  IF Tries(table, g) = {} THEN Append(IF GivesUp(table, g) THEN Tail(table) ELSE table, Entry(g, now, 1))
  ELSE [i \in DOMAIN table |-> IF table[i].client = g THEN [table[i] EXCEPT !.count = @ + 1] ELSE table[i]]

(* "A correct code must not reset the budget".                             *)
AfterRight(table, g) == table

(* The budget is checked before the code is compared.                      *)
VerifyJoinCode(g) ==
  LET throttled == \E i \in Tries(Purged, g) : Purged[i].count >= MaxGuesses
      forgotten == IF GivesUp(Purged, g) THEN {Head(Purged).client} ELSE {}
  IN /\ Cardinality(failures[g]) < MaxAsked
     /\ \/ throttled /\ attempts' = Purged /\ UNCHANGED failures
        \/ ~throttled /\ attempts' = AfterRight(Purged, g) /\ UNCHANGED failures
        \/ ~throttled /\ attempts' = Recorded(Purged, g)
           /\ failures' = [x \in Guesser |-> IF x \in forgotten THEN {}
                                            ELSE IF x = g THEN failures[x] \cup {Stamp(failures[x])}
                                            ELSE failures[x]]
     /\ UNCHANGED <<now, rates, lastSweep, allowed, denied>>

CodesNext == Tick \/ \E g \in Guesser : VerifyJoinCode(g)
RatesNext == Tick \/ \E c \in Key : CheckRateLimit(c)

LimitsSpec == LimitsInit /\ [][CodesNext \/ RatesNext]_limitVars

------------------------------------------------------------------------------
Recent(stamps, span) == {s \in stamps : s.at > now - span}

(* "Drop hits that have slid out of the window, so a caller cannot get a   *)
(* second full allowance by straddling a window boundary": whenever the    *)
(* store is swept, no span of a window lets more than its allowance        *)
(* through.                                                                *)
NoSecondAllowance == \A c \in Key : Cardinality(Recent(allowed[c], Window[c])) <= Allowance

(* A refused key is one whose whole allowance was used within the window:  *)
(* asking again does not prolong it.                                       *)
RefusedOnlyOverBudget == \A c \in Key :
  now \in denied[c] => Cardinality(Recent(allowed[c], Window[c])) = Allowance

(* An address fails at most its budget in a window, right codes in between *)
(* or not, unless a full table gave its window up.                         *)
GuessesCounted == \A i \in DOMAIN attempts :
  LET a == attempts[i] IN
  /\ a.count <= MaxGuesses
  /\ a.count = Cardinality({f \in failures[a.client] : f.at >= a.start})

(* "Expired windows are at the front, so stop at the first live one": none *)
(* is kept, and nobody throttled by it, past its end.                      *)
WindowsEnd == \A i \in DOMAIN Purged : now - Purged[i].start < GuessWindow

(* Neither limiter lets more through than it says, nor refuses without     *)
(* reason.                                                                 *)
LimitsInv ==
  /\ NoSecondAllowance
  /\ RefusedOnlyOverBudget
  /\ GuessesCounted
  /\ WindowsEnd
=============================================================================

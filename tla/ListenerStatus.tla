--------------------------- MODULE ListenerStatus ---------------------------
(***************************************************************************)
(* How the listeners of one booth learn whether it is live:                *)
(* ListenerConnectionManager of portal/websockets/manager.py and the       *)
(* socket of a listener, ws_captions of handlers.py.                       *)
(*                                                                         *)
(* A handler changes the registry, tells the booth's members, which may    *)
(* take any time, and then updates the listeners under the booth's lock,   *)
(* one awaited send after the other. A listener that connects is in the    *)
(* room at once and gets the status it starts from under the same lock.    *)
(*                                                                         *)
(* The lock is fair and its entry is dropped when nobody uses it, so it is *)
(* the queue of those who hold or wait for it; only the head ever sends.   *)
(***************************************************************************)
EXTENDS Naturals, Sequences

CONSTANTS Listener,       \* sockets of listeners; one that left may come back
          Update,         \* calls of broadcast_booth_state under way
          Status,         \* what listener_booth_state can show of the booth
          FreshStatus,    \* that of a booth just created
          NoStatus,       \* the booth is not in the registry
          MaxVersion      \* bound: how often the status is set

ASSUME StatusAssumption ==
  /\ FreshStatus \in Status
  /\ NoStatus \notin Status
  /\ MaxVersion \in Nat
  /\ Listener \cap Update = {}

VARIABLES
  status,    \* listener_booth_state of the registry's booth, or NoStatus
  stage,     \* the await at which each update and each listener's socket is
  took,      \* the message each update was called with
  queue,     \* _state_locks: who holds the lock, then who waits
  room,      \* _rooms
  last,      \* _last_state
  message,   \* the message the head of the queue sends
  targets,   \* the listeners an update has still to send it to
  dead,      \* those to whom it could not send it
  alive,     \* external: the listeners whose connection is up
  seen,      \* external: the last message each of them received
  version,   \* history: how often the status has been set
  quiet,     \* history: it was last set by something that updates nobody
  caughtUp   \* history: the listeners whose last message was an update

registry == <<status, version, quiet>>
sending  == <<message, targets, dead>>
client   == <<alive, seen, caughtUp>>
statusVars == <<registry, stage, took, queue, room, last, sending, client>>

(* fallback: the message is not of the registry but of the update's caller.*)
Message == [status : Status, version : 0 .. MaxVersion, fallback : BOOLEAN]
NoMessage == [status |-> NoStatus, version |-> 0, fallback |-> FALSE]
Stage   == {"idle",      \* no update under way; no socket
            "members",   \* manager.broadcast
            "waits",     \* for the lock, or holding it and about to look
            "sends",     \* ws.send_text, under the lock
            "listens"}   \* websocket.receive_text

StatusTypeOK ==
  /\ status \in Status \cup {NoStatus}
  /\ stage \in [Listener \cup Update -> Stage]
  /\ took \in [Update -> Message \cup {NoMessage}]
  /\ queue \in Seq(Listener \cup Update)
  /\ room \subseteq Listener /\ targets \subseteq Listener /\ dead \subseteq Listener
  /\ last \in Status \cup {NoStatus}
  /\ message \in Message \cup {NoMessage}
  /\ (\E x \in Listener \cup Update : stage[x] = "sends") => message \in Message
  /\ alive \subseteq Listener /\ caughtUp \subseteq Listener
  /\ seen \in [Listener -> Message \cup {NoMessage}]
  /\ version \in 0 .. MaxVersion
  /\ quiet \in BOOLEAN

StatusInit ==
  /\ status = NoStatus /\ version = 0 /\ quiet = TRUE
  /\ stage = [x \in Listener \cup Update |-> "idle"]
  /\ took = [u \in Update |-> NoMessage]
  /\ queue = <<>>
  /\ room = {} /\ last = NoStatus
  /\ message = NoMessage /\ targets = {} /\ dead = {}
  /\ alive = {} /\ seen = [l \in Listener |-> NoMessage] /\ caughtUp = {}

-----------------------------------------------------------------------------
MovesTo(x, to) == stage' = [stage EXCEPT ![x] = to]

Holds(x) == queue # <<>> /\ Head(queue) = x

(* x is through with the lock, and with what it sent under it.             *)
Releases == queue' = Tail(queue) /\ message' = NoMessage /\ targets' = {} /\ dead' = {}

Sets(s) ==
  /\ version < MaxVersion
  /\ version' = version + 1
  /\ status' = s

(* remove: the last state sent is forgotten with the last listener.        *)
Remains(left) ==
  /\ room' = left
  /\ last' = IF left = {} THEN NoStatus ELSE last

-----------------------------------------------------------------------------
(* A handler's registry call, which may create the booth; its result goes  *)
(* to broadcast_booth_state, which begins with the booth's members.        *)
Change(u, s) ==
  /\ stage[u] = "idle"
  /\ Sets(s) /\ quiet' = FALSE
  /\ took' = [took EXCEPT ![u] = [status |-> s, version |-> version', fallback |-> FALSE]]
  /\ MovesTo(u, "members")
  /\ UNCHANGED <<queue, room, last, sending, client>>

(* remove_booth, and a snapshot that creates the booth: nobody is told.    *)
ChangeQuietly(s) ==
  /\ s = IF status = NoStatus THEN FreshStatus ELSE NoStatus
  /\ Sets(s) /\ quiet' = TRUE
  /\ UNCHANGED <<stage, took, queue, room, last, sending, client>>

MembersTold(u) ==
  /\ stage[u] = "members"
  /\ MovesTo(u, "waits")
  /\ queue' = Append(queue, u)
  /\ UNCHANGED <<registry, took, room, last, sending, client>>

Newest == [status |-> status, version |-> version, fallback |-> FALSE]

(* slip: the state the update was called with *)
CurrentAsTaken(u) == took[u]

(* _current_listener_state                                                 *)
Current(u) ==
  IF status = NoStatus THEN [took[u] EXCEPT !.fallback = TRUE] ELSE Newest

NothingNew(u) == last = Current(u).status

(* ListenerConnectionManager.broadcast_booth_state once it has the lock:   *)
(* nothing to send, ...                                                    *)
UpdateSkipped(u) ==
  /\ stage[u] = "waits" /\ Holds(u)
  /\ room = {} \/ NothingNew(u)
  /\ MovesTo(u, "idle")
  /\ Releases
  /\ UNCHANGED <<registry, took, room, last, client>>

(* ... or a broadcast to those in the room now, ...                        *)
UpdateBegins(u) ==
  /\ stage[u] = "waits" /\ Holds(u)
  /\ room # {} /\ ~NothingNew(u)
  /\ last' = Current(u).status
  /\ message' = Current(u)
  /\ targets' = room /\ dead' = {}
  /\ MovesTo(u, "sends")
  /\ UNCHANGED <<registry, took, queue, room, client>>

(* ... one after the other, in the order of a set, ...                     *)
UpdateSends(u, l) ==
  /\ stage[u] = "sends" /\ l \in targets
  /\ targets' = targets \ {l}
  /\ IF l \in alive
       THEN /\ seen' = [seen EXCEPT ![l] = message]
            /\ caughtUp' = caughtUp \cup {l}
            /\ UNCHANGED dead
       ELSE dead' = dead \cup {l} /\ UNCHANGED <<seen, caughtUp>>
  /\ UNCHANGED <<registry, stage, took, queue, room, last, message, alive>>

(* ... after which those it could not reach are removed.                   *)
UpdateEnds(u) ==
  /\ stage[u] = "sends" /\ targets = {}
  /\ Remains(room \ dead)
  /\ MovesTo(u, "idle")
  /\ Releases
  /\ UNCHANGED <<registry, took, client>>

-----------------------------------------------------------------------------
(* ws_captions, from add to the wait for the lock in send_booth_state.     *)
ConnectListener(l) ==
  /\ stage[l] = "idle"
  /\ room' = room \cup {l}
  /\ alive' = alive \cup {l}
  /\ seen' = [seen EXCEPT ![l] = NoMessage]
  /\ caughtUp' = caughtUp \ {l}
  /\ MovesTo(l, "waits")
  /\ queue' = Append(queue, l)
  /\ UNCHANGED <<registry, took, last, sending>>

(* send_booth_state once it has the lock.                                  *)
Greets(l) ==
  /\ stage[l] = "waits" /\ Holds(l)
  /\ IF status = NoStatus
       THEN MovesTo(l, "listens") /\ Releases
       ELSE /\ MovesTo(l, "sends")
            /\ message' = Newest
            /\ UNCHANGED <<queue, targets, dead>>
  /\ UNCHANGED <<registry, took, room, last, client>>

Greeted(l) ==
  /\ stage[l] = "sends" /\ l \in alive
  /\ seen' = [seen EXCEPT ![l] = message]
  /\ caughtUp' = caughtUp \ {l}
  /\ MovesTo(l, "listens")
  /\ Releases
  /\ UNCHANGED <<registry, took, room, last, alive>>

(* External: the connection of a listener is lost.                         *)
Lose(l) ==
  /\ l \in alive
  /\ alive' = alive \ {l}
  /\ UNCHANGED <<registry, stage, took, queue, room, last, sending, seen, caughtUp>>

(* A caption that cannot be sent to it, which needs no lock, removes it.   *)
CaptionFails(l) ==
  /\ l \in room \ alive
  /\ Remains(room \ {l})
  /\ UNCHANGED <<registry, stage, took, queue, sending, client>>

(* The socket's receive, or its own first send, fails: the finally clause. *)
(* An update that has still to send to it will fail, to the same effect.   *)
Leave(l) ==
  /\ l \notin alive
  /\ \/ /\ stage[l] = "listens"
        /\ targets' = targets \ {l} /\ dead' = dead \ {l}
        /\ UNCHANGED <<queue, message>>
     \/ stage[l] = "sends" /\ Releases
  /\ Remains(room \ {l})
  /\ MovesTo(l, "idle")
  /\ UNCHANGED <<registry, took, client>>

-----------------------------------------------------------------------------
UpdateStep(u) ==
  \/ \E s \in Status : Change(u, s)
  \/ MembersTold(u)
  \/ UpdateSkipped(u) \/ UpdateBegins(u)
  \/ \E l \in Listener : UpdateSends(u, l)
  \/ UpdateEnds(u)

ListenerStep(l) ==
  ConnectListener(l) \/ Greets(l) \/ Greeted(l) \/ Lose(l) \/ CaptionFails(l) \/ Leave(l)

StatusNext ==
  \/ \E u \in Update : UpdateStep(u)
  \/ \E l \in Listener : ListenerStep(l)
  \/ \E s \in Status \cup {NoStatus} : ChangeQuietly(s)

StatusSpec == StatusInit /\ [][StatusNext]_statusVars

-----------------------------------------------------------------------------
(* Updates overlap, wait and are skipped as repetitions, yet no listener   *)
(* is told an older status after a newer one, unless the booth has left    *)
(* the registry and an update falls back to the state it was called with.  *)
NeverBackwards ==
  [][\A l \in Listener :
       seen'[l] # seen[l] /\ seen'[l] # NoMessage =>
         \/ seen'[l].version >= seen[l].version
         \/ seen'[l].fallback]_statusVars

Settled ==
  /\ queue = <<>>
  /\ \A u \in Update : stage[u] = "idle"
  /\ ~quiet

(* When every update is through, whoever has received one since the status *)
(* it was greeted with shows that of the registry, however many updates    *)
(* were skipped as repetitions.                                            *)
UpdatedListenersAgree ==
  Settled => \A l \in room \cap alive \cap caughtUp : seen[l].status = status
=============================================================================

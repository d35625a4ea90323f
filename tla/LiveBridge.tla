----------------------------- MODULE LiveBridge -----------------------------
(***************************************************************************)
(* From an event of the core to its clients: the broadcaster's tasks       *)
(* (omnicovas/core/broadcaster.py), push_event with its ring buffer and    *)
(* the WebSocket clients (omnicovas/core/api_bridge.py), and the forward   *)
(* subscription of main.py.                                                *)
(*                                                                         *)
(* A client is one WebSocket: a page that connects again is another.  The  *)
(* order in which a broadcast serves its clients is that of a Python set,  *)
(* and is left open.  A write is done at once or fails, except that a peer *)
(* that does not read suspends it.                                         *)
(***************************************************************************)
EXTENDS Integers, Sequences, FiniteSets, SequencesExt

CONSTANTS Clients,
          MaxEvents,    \* events published: bounds the counter
          RingCapacity, \* ACTIVITY_LOG_CAPACITY
          Entry,        \* of each event, what the log says of it: when, what, how summed up
          Unread        \* a client that has read nothing of the ring

ASSUME RingAssumption == RingCapacity \in Nat

VARIABLES
  published, \* how many events there were
  started,  \* how many of them have begun their push_event
  push,     \* the broadcast of an event that has begun: clients to serve, clients lost
  conn,     \* a connection: "out", "open", "stalled", "gone" and unnoticed, "closed"
  clients,  \* WebSocketBroadcaster._clients
  ring,     \* ApiBridge._activity_log
  got,      \* the events a client has received
  fetched   \* the entries a client has read of the ring, once connected

bridgeVars == <<published, started, push, conn, clients, ring, got, fetched>>

Begun == 1 .. started

BridgeInit ==
  /\ published = 0
  /\ started = 0
  /\ push = <<>>
  /\ conn = [c \in Clients |-> "out"]
  /\ clients = {}
  /\ ring = <<>>
  /\ got = [c \in Clients |-> {}]
  /\ fetched = [c \in Clients |-> Unread]

-----------------------------------------------------------------------------
(* Events.                                                                 *)

\* ShipStateBroadcaster.publish makes the task that forwards the event; a recorder
\* calls push_event itself.  Changes of the combat state, which the ring does not keep,
\* are left out.
Publish ==
  /\ published < MaxEvents
  /\ published' = published + 1
  /\ UNCHANGED <<started, push, conn, clients, ring, got, fetched>>

\* deque(maxlen)
Remembered(n) ==
  LET all == Append(ring, n)
  IN  IF Len(all) > RingCapacity THEN Tail(all) ELSE all

\* push_event up to its first write: the entry, and the clients of the moment.
Begin ==
  /\ started < published
  /\ started' = started + 1
  /\ ring' = Remembered(started + 1)
  /\ push' = Append(push, [left |-> clients, dead |-> {}])
  /\ UNCHANGED <<published, conn, clients, got, fetched>>

\* Mutant: the failure of one write ends the broadcast.
SendUntilFailure(n) ==
  /\ n \in Begun
  /\ \E c \in push[n].left :
       /\ conn[c] # "stalled"
       /\ IF conn[c] = "open"
            THEN /\ got' = [got EXCEPT ![c] = @ \cup {n}]
                 /\ push' = [push EXCEPT ![n].left = @ \ {c}]
            ELSE /\ push' = [push EXCEPT ![n] = [left |-> {}, dead |-> {c}]]
                 /\ UNCHANGED got
  /\ UNCHANGED <<published, started, conn, clients, ring, fetched>>

\* One client is served, or found dead; a stalled one keeps the broadcast waiting.
Send(n) ==
  /\ n \in Begun
  /\ \E c \in push[n].left :
       /\ conn[c] # "stalled"
       /\ IF conn[c] = "open"
            THEN /\ got' = [got EXCEPT ![c] = @ \cup {n}]
                 /\ push' = [push EXCEPT ![n].left = @ \ {c}]
            ELSE /\ push' = [push EXCEPT ![n].left = @ \ {c}, ![n].dead = @ \cup {c}]
                 /\ UNCHANGED got
  /\ UNCHANGED <<published, started, conn, clients, ring, fetched>>

\* The dead are dropped at the end.
Drop(n) ==
  /\ n \in Begun
  /\ push[n].left = {} /\ push[n].dead # {}
  /\ clients' = clients \ push[n].dead
  /\ push' = [push EXCEPT ![n].dead = {}]
  /\ UNCHANGED <<published, started, conn, ring, got, fetched>>

-----------------------------------------------------------------------------
(* Clients.                                                                *)

Turns(c, from, to) ==
  /\ conn[c] = from
  /\ conn' = [conn EXCEPT ![c] = to]
  /\ UNCHANGED <<published, started, push, ring, got, fetched>>

\* Mutant: the first message is awaited before the client is registered.
AcceptLate(c) ==
  \/ Turns(c, "out", "open") /\ UNCHANGED clients
  \/ /\ conn[c] = "open" /\ c \notin clients
     /\ clients' = clients \cup {c}
     /\ UNCHANGED <<published, started, push, conn, ring, got, fetched>>

\* ws_events: the client is registered, and sent the state, without a pause between.
Accept(c) == Turns(c, "out", "open") /\ clients' = clients \cup {c}

\* The peer stops reading, reads again, or goes away with what it has received.
Stall(c) == Turns(c, "open", "stalled") /\ UNCHANGED clients
Resume(c) == Turns(c, "stalled", "open") /\ UNCHANGED clients
Vanish(c) ==
  /\ conn[c] \in {"open", "stalled"}
  /\ conn' = [conn EXCEPT ![c] = "gone"]
  /\ got' = [got EXCEPT ![c] = {}]
  /\ fetched' = [fetched EXCEPT ![c] = Unread]
  /\ UNCHANGED <<published, started, push, clients, ring>>

\* receive_text ends with the connection; the finally clause takes the client out.
Closed(c) == Turns(c, "gone", "closed") /\ clients' = clients \ {c}

\* The page that got connected reads GET /activity-log: of events that say the same, which
\* may well be two, there is one entry.  Those of the shared log are left out.
Fetch(c) ==
  /\ conn[c] = "open" /\ fetched[c] = Unread
  /\ fetched' = [fetched EXCEPT ![c] = {Entry[n] : n \in ToSet(ring)}]
  /\ UNCHANGED <<published, started, push, conn, clients, ring, got>>

-----------------------------------------------------------------------------

BridgeNext ==
  \/ Publish
  \/ Begin
  \/ \E n \in 1 .. MaxEvents : Send(n) \/ Drop(n)
  \/ \E c \in Clients :
       Accept(c) \/ Stall(c) \/ Resume(c) \/ Vanish(c) \/ Closed(c) \/ Fetch(c)

BridgeSpec == BridgeInit /\ [][BridgeNext]_bridgeVars

\* The event loop runs every task that can go on; what is written waits in the buffer of
\* the connection, and goes out whenever the peer reads.  A peer that does not read does
\* so again, or misses the pings of the server and is closed.
BridgeFair ==
  /\ WF_bridgeVars(Begin)
  /\ \A n \in 1 .. MaxEvents : SF_bridgeVars(Send(n))
  /\ \A c \in Clients : WF_bridgeVars(Resume(c) \/ (conn[c] = "stalled" /\ Vanish(c)))
BridgeFairSpec == BridgeSpec /\ BridgeFair

-----------------------------------------------------------------------------
(* Properties.                                                             *)

Lost(c) == conn[c] \in {"gone", "closed"}

\* api_bridge.py: every event whose push begins while the client is registered
\* reaches it, whatever becomes of the other clients ("a dead client never blocks broadcast to
\* live clients").
Served(c) ==
  \A n \in 1 .. MaxEvents : (n \in Begun /\ c \in push[n].left) ~> (n \in got[c] \/ Lost(c))

OnItsWay(n, c) == c \in push[n].left

\* api_bridge.py: a page that connects and then reads the activity log misses no event,
\* of as many as the log keeps: each is received, or on its way, or the log it has read has
\* an entry for it, if not one of its own.
NothingMissed ==
  \A c \in Clients : conn[c] = "open" /\ fetched[c] # Unread =>
    \A n \in Begun :
      n > started - RingCapacity =>
        Entry[n] \in fetched[c] \/ n \in got[c] \/ OnItsWay(n, c)
=============================================================================

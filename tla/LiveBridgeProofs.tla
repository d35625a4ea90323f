-------------------------- MODULE LiveBridgeProofs --------------------------
(***************************************************************************)
(* That a page which connects and reads the activity log misses nothing,   *)
(* for any number of clients and events and any capacity of the log.       *)
(*                                                                         *)
(* It rests on what the ring holds, on the set of clients knowing every    *)
(* connection there is, and on broadcasts only giving up what is lost.     *)
(***************************************************************************)
EXTENDS LiveBridge, TLAPS

Broadcast == [left : SUBSET Clients, dead : SUBSET Clients]

Entries == {Entry[n] : n \in Nat}

\* The values of what the proofs are about.
Shapes ==
  /\ started \in Nat
  /\ push \in Seq(Broadcast) /\ Len(push) = started
  /\ conn \in [Clients -> {"out", "open", "stalled", "gone", "closed"}]
  /\ clients \subseteq Clients
  /\ ring \in Seq(Nat)
  /\ got \in [Clients -> SUBSET Nat]
  /\ fetched \in [Clients -> {Unread} \cup SUBSET Entries]

\* The ring holds the latest events that have begun, in their order, as many as it may.
Latest ==
  /\ Len(ring) = IF started < RingCapacity THEN started ELSE RingCapacity
  /\ \A i \in DOMAIN ring : ring[i] = started - Len(ring) + i

\* Whoever reads, or may read again, is registered; only what is lost is taken for dead.
Registered ==
  /\ \A c \in Clients : conn[c] \in {"open", "stalled"} => c \in clients
  /\ \A n \in Begun : \A c \in push[n].dead : Lost(c)

\* No client is known, and nothing was read, before there is a connection.
Unheard ==
  \A c \in Clients : conn[c] = "out" =>
    /\ fetched[c] = Unread
    /\ c \notin clients
    /\ \A n \in Begun : c \notin push[n].left

\* What has begun and is in the ring's reach has its entry in the log a client has read, is
\* received, or on its way, also while the client does not read.
Informed ==
  \A c \in Clients : (conn[c] \in {"open", "stalled"} /\ fetched[c] # Unread) =>
    \A n \in Begun :
      n > started - RingCapacity =>
        Entry[n] \in fetched[c] \/ n \in got[c] \/ OnItsWay(n, c)

IInv == Shapes /\ Latest /\ Registered /\ Unheard /\ Informed

-----------------------------------------------------------------------------

\* What Begin does to the broadcasts.
LEMMA Beginning ==
  ASSUME Shapes, Begin
  PROVE  /\ started' = started + 1 /\ started' \in Nat
         /\ Begun' = Begun \cup {started + 1}
         /\ push' \in Seq(Broadcast) /\ Len(push') = started'
         /\ \A n \in Begun : push'[n] = push[n]
         /\ push'[started + 1] = [left |-> clients, dead |-> {}]
<1>1. /\ started \in Nat /\ started' = started + 1
      /\ push \in Seq(Broadcast) /\ Len(push) = started
      /\ push' = Append(push, [left |-> clients, dead |-> {}])
      /\ [left |-> clients, dead |-> {}] \in Broadcast
  BY DEF Shapes, Begin, Broadcast
<1> QED
  BY <1>1 DEF Begun

\* What Send does: a client that reads receives the event, one that is lost is dead.
LEMMA Sending ==
  ASSUME Shapes, NEW n \in 1 .. MaxEvents, Send(n)
  PROVE  /\ n \in Begun /\ Begun' = Begun
         /\ push' \in Seq(Broadcast) /\ Len(push') = started
         /\ \A m \in Begun : m # n => push'[m] = push[m]
         /\ \E c \in push[n].left :
              /\ c \in Clients
              /\ push'[n].left = push[n].left \ {c}
              /\ \/ /\ conn[c] = "open" /\ push'[n].dead = push[n].dead
                    /\ got' = [got EXCEPT ![c] = @ \cup {n}]
                 \/ /\ conn[c] \in {"out", "gone", "closed"} /\ got' = got
                    /\ push'[n].dead = push[n].dead \cup {c}
<1>1. /\ push \in Seq(Broadcast) /\ Len(push) = started /\ started \in Nat
      /\ n \in DOMAIN push /\ n \in Begun /\ Begun = DOMAIN push /\ started' = started
      /\ push[n] \in Broadcast
  BY DEF Shapes, Send, Begun
<1>2. PICK c \in push[n].left :
        /\ conn[c] # "stalled"
        /\ IF conn[c] = "open"
             THEN /\ got' = [got EXCEPT ![c] = @ \cup {n}]
                  /\ push' = [push EXCEPT ![n].left = @ \ {c}]
             ELSE /\ push' = [push EXCEPT ![n].left = @ \ {c}, ![n].dead = @ \cup {c}]
                  /\ UNCHANGED got
  BY DEF Send
<1>3. c \in Clients /\ conn[c] \in {"out", "open", "stalled", "gone", "closed"}
  BY <1>1 DEF Broadcast, Shapes
<1>4. Begun' = Begun
  BY <1>1 DEF Begun
<1>5. CASE conn[c] = "open"
  <2>1. push' = [push EXCEPT ![n] = [push[n] EXCEPT !.left = @ \ {c}]]
    BY <1>2, <1>5
  <2>2. [push[n] EXCEPT !.left = @ \ {c}] \in Broadcast
    BY <1>1 DEF Broadcast
  <2>3. /\ push' \in Seq(Broadcast) /\ Len(push') = started
        /\ \A m \in Begun : m # n => push'[m] = push[m]
        /\ push'[n] = [push[n] EXCEPT !.left = @ \ {c}]
    BY <1>1, <2>1, <2>2
  <2>4. push'[n].left = push[n].left \ {c} /\ push'[n].dead = push[n].dead
    BY <2>3
  <2> QED
    BY <1>1, <1>2, <1>3, <1>4, <1>5, <2>3, <2>4
<1>6. CASE conn[c] # "open"
  <2>1. push' = [push EXCEPT ![n] = [left |-> push[n].left \ {c}, dead |-> push[n].dead \cup {c}]]
    BY <1>1, <1>2, <1>6 DEF Broadcast
  <2>2. [left |-> push[n].left \ {c}, dead |-> push[n].dead \cup {c}] \in Broadcast
    BY <1>1 DEF Broadcast
  <2>3. /\ push' \in Seq(Broadcast) /\ Len(push') = started
        /\ \A m \in Begun : m # n => push'[m] = push[m]
        /\ push'[n] = [left |-> push[n].left \ {c}, dead |-> push[n].dead \cup {c}]
    BY <1>1, <2>1, <2>2
  <2> QED
    BY <1>1, <1>2, <1>3, <1>4, <1>6, <2>3
<1> QED
  BY <1>5, <1>6

\* What Drop does to the broadcasts and the clients.
LEMMA Dropping ==
  ASSUME Shapes, NEW n \in 1 .. MaxEvents, Drop(n)
  PROVE  /\ n \in Begun /\ Begun' = Begun
         /\ push' \in Seq(Broadcast) /\ Len(push') = started
         /\ \A m \in Begun : push'[m].left = push[m].left
                             /\ push'[m].dead \subseteq push[m].dead
         /\ clients' = clients \ push[n].dead
<1>1. /\ push \in Seq(Broadcast) /\ Len(push) = started /\ started \in Nat
      /\ n \in DOMAIN push /\ n \in Begun /\ Begun = DOMAIN push /\ started' = started
      /\ push[n] \in Broadcast
      /\ clients' = clients \ push[n].dead
  BY DEF Shapes, Drop, Begun
<1>2. push' = [push EXCEPT ![n] = [left |-> push[n].left, dead |-> {}]]
  <2>1. push' = [push EXCEPT ![n] = [push[n] EXCEPT !.dead = {}]]
    BY DEF Drop
  <2>2. PICK l \in SUBSET Clients, d \in SUBSET Clients : push[n] = [left |-> l, dead |-> d]
    BY <1>1 DEF Broadcast
  <2>3. [[left |-> l, dead |-> d] EXCEPT !.dead = {}] = [left |-> l, dead |-> {}]
    OBVIOUS
  <2> QED
    BY <2>1, <2>2, <2>3
<1>3. [left |-> push[n].left, dead |-> {}] \in Broadcast
  BY <1>1 DEF Broadcast
<1>4. /\ push' \in Seq(Broadcast) /\ Len(push') = started
      /\ \A m \in Begun : m # n => push'[m] = push[m]
      /\ push'[n] = [left |-> push[n].left, dead |-> {}]
  BY <1>1, <1>2, <1>3
<1>5. Begun' = Begun
  BY <1>1 DEF Begun
<1> QED
  BY <1>1, <1>4, <1>5

\* What Remembered keeps.
LEMMA Remembering ==
  ASSUME Shapes, Latest, RingCapacity \in Nat, Begin
  PROVE  ring' \in Seq(Nat) /\ Latest'
<1>1. /\ ring \in Seq(Nat) /\ started \in Nat /\ started' = started + 1
      /\ Len(ring) = IF started < RingCapacity THEN started ELSE RingCapacity
      /\ \A i \in DOMAIN ring : ring[i] = started - Len(ring) + i
  BY DEF Shapes, Latest, Begin
<1> DEFINE all == Append(ring, started + 1)
<1>2. /\ all \in Seq(Nat) /\ Len(all) = Len(ring) + 1
      /\ \A i \in 1 .. Len(all) : all[i] = started - Len(ring) + i
  <2>1. /\ all \in Seq(Nat) /\ Len(all) = Len(ring) + 1 /\ Len(ring) \in Nat
        /\ DOMAIN ring = 1 .. Len(ring)
        /\ all[Len(ring) + 1] = started + 1
        /\ \A i \in 1 .. Len(ring) : all[i] = ring[i]
    BY <1>1
  <2>2. started - Len(ring) + (Len(ring) + 1) = started + 1
    BY <1>1, <2>1
  <2>3. \A i \in 1 .. Len(all) : i = Len(ring) + 1 \/ i \in 1 .. Len(ring)
    BY <2>1
  <2> HIDE DEF all
  <2> QED
    BY <1>1, <2>1, <2>2, <2>3
<1>3. ring' = IF Len(all) > RingCapacity THEN Tail(all) ELSE all
  BY DEF Begin, Remembered
<1> HIDE DEF all
<1>4. CASE Len(all) > RingCapacity
  <2>1. ring' = Tail(all) /\ all # <<>>
    BY <1>2, <1>3, <1>4
  <2>2. /\ ring' \in Seq(Nat) /\ Len(ring') = Len(all) - 1
        /\ \A i \in 1 .. Len(ring') : ring'[i] = all[i + 1]
    BY <1>2, <2>1
  <2>3. Len(ring') = RingCapacity /\ started >= RingCapacity
    BY <1>1, <1>2, <1>4, <2>2
  <2>4. \A i \in 1 .. Len(ring') : ring'[i] = started' - Len(ring') + i
    BY <1>1, <1>2, <2>2, <2>3
  <2>5. DOMAIN ring' = 1 .. Len(ring') /\ ~(started' < RingCapacity)
    BY <1>1, <2>2, <2>3
  <2> QED
    BY <2>2, <2>3, <2>4, <2>5 DEF Latest
<1>5. CASE ~(Len(all) > RingCapacity)
  <2>1. ring' = all
    BY <1>3, <1>5
  <2>2. Len(ring') = started' /\ started < RingCapacity
    BY <1>1, <1>2, <1>5, <2>1
  <2>3. \A i \in 1 .. Len(ring') : ring'[i] = started' - Len(ring') + i
    BY <1>1, <1>2, <2>1, <2>2
  <2> QED
    BY <1>2, <2>1, <2>2 DEF Latest
<1> QED
  BY <1>4, <1>5

-----------------------------------------------------------------------------
(* Every step keeps every part of the invariant.                           *)

\* Every step keeps to the values.
LEMMA ShapesKept ==
  ASSUME IInv, RingCapacity \in Nat, [BridgeNext]_bridgeVars
  PROVE  Shapes'
<1> USE DEF IInv
<1>1. ASSUME Publish PROVE Shapes'
  BY <1>1 DEF Publish, Shapes
<1>2. ASSUME Begin PROVE Shapes'
  BY <1>2, Beginning, Remembering DEF Begin, Shapes
<1>3. ASSUME NEW n \in 1 .. MaxEvents, Send(n) PROVE Shapes'
  <2>0. n \in Nat
    BY Sending
  <2>1. /\ UNCHANGED <<started, conn, clients, ring, fetched>>
        /\ push' \in Seq(Broadcast) /\ Len(push') = started
    BY <1>3, Sending DEF Send
  <2>2. PICK c \in Clients : got' = got \/ got' = [got EXCEPT ![c] = got[c] \cup {n}]
    BY <1>3, Sending
  <2>3. got' \in [Clients -> SUBSET Nat]
    <3>1. got \in [Clients -> SUBSET Nat]
      BY DEF Shapes
    <3>2. got[c] \cup {n} \in SUBSET Nat
      BY <2>0, <3>1
    <3> HIDE DEF IInv
    <3> QED
      BY <2>2, <3>1, <3>2
  <2> QED
    BY <2>1, <2>3 DEF Shapes
<1>4. ASSUME NEW n \in 1 .. MaxEvents, Drop(n) PROVE Shapes'
  <2>1. /\ UNCHANGED <<started, conn, ring, got, fetched>>
        /\ push' \in Seq(Broadcast) /\ Len(push') = started
        /\ clients' \subseteq clients
    BY <1>4, Dropping DEF Drop
  <2> QED
    BY <2>1 DEF Shapes
<1>5. ASSUME NEW c \in Clients,
             Accept(c) \/ Stall(c) \/ Resume(c) \/ Vanish(c) \/ Closed(c) \/ Fetch(c)
      PROVE  Shapes'
  <2>1. UNCHANGED <<started, push, ring>>
    BY <1>5 DEF Accept, Stall, Resume, Vanish, Closed, Fetch, Turns
  <2>2. /\ conn' \in [Clients -> {"out", "open", "stalled", "gone", "closed"}]
        /\ clients' \subseteq Clients
    BY <1>5 DEF Accept, Stall, Resume, Vanish, Closed, Fetch, Turns, Shapes
  <2>3. got' \in [Clients -> SUBSET Nat]
    BY <1>5 DEF Accept, Stall, Resume, Vanish, Closed, Fetch, Turns, Shapes
  <2>4. {Entry[n] : n \in ToSet(ring)} \subseteq Entries
    <3>1. ToSet(ring) \subseteq Nat
      BY DEF ToSet, Shapes
    <3> QED
      BY <3>1 DEF Entries
  <2>5. fetched' \in [Clients -> {Unread} \cup SUBSET Entries]
    BY <1>5, <2>4 DEF Accept, Stall, Resume, Vanish, Closed, Fetch, Turns, Shapes
  <2> QED
    BY <2>1, <2>2, <2>3, <2>5 DEF Shapes
<1>6. CASE UNCHANGED bridgeVars
  BY <1>6 DEF bridgeVars, Shapes
<1> QED
  BY <1>1, <1>2, <1>3, <1>4, <1>5, <1>6 DEF BridgeNext

\* Only Begin changes the ring and what has begun.
LEMMA LatestKept ==
  ASSUME IInv, RingCapacity \in Nat, [BridgeNext]_bridgeVars
  PROVE  Latest' /\ (~Begin => Begun' = Begun /\ started' = started /\ ring' = ring)
<1>1. CASE Begin
  BY <1>1, Remembering DEF IInv
<1>2. CASE ~Begin
  <2>1. UNCHANGED <<started, ring>>
    BY <1>2 DEF BridgeNext, Publish, Send, Drop, Accept, Stall, Resume, Vanish, Closed, Fetch,
           Turns, bridgeVars
  <2> QED
    BY <2>1 DEF IInv, Latest, Begun
<1> QED
  BY <1>1, <1>2

\* A client is registered from its connection to its end.
LEMMA RegisteredKept ==
  ASSUME IInv, RingCapacity \in Nat, [BridgeNext]_bridgeVars
  PROVE  Registered'
<1> USE DEF IInv
<1>1. ASSUME Publish PROVE Registered'
  BY <1>1 DEF Publish, Registered, Lost, Begun
<1>2. ASSUME Begin PROVE Registered'
  <2>1. UNCHANGED <<conn, clients>>
    BY <1>2 DEF Begin
  <2>2. /\ Begun' = Begun \cup {started + 1}
        /\ \A n \in Begun : push'[n] = push[n]
        /\ push'[started + 1].dead = {}
    BY <1>2, Beginning
  <2>3. \A n \in Begun' : \A c \in push'[n].dead : n \in Begun /\ c \in push[n].dead
    BY <2>2
  <2> QED
    BY <2>1, <2>3 DEF Registered, Lost
<1>3. ASSUME NEW n \in 1 .. MaxEvents, Send(n) PROVE Registered'
  <2>1. UNCHANGED <<conn, clients>>
    BY <1>3 DEF Send
  <2>2. PICK c \in Clients :
          /\ c \in push[n].left
          /\ \/ push'[n].dead = push[n].dead
             \/ conn[c] \in {"out", "gone", "closed"} /\ push'[n].dead = push[n].dead \cup {c}
    BY <1>3, Sending
  <2>3. conn[c] # "out" /\ n \in Begun /\ Begun' = Begun
    BY <1>3, <2>2, Sending DEF Unheard
  <2>4. \A m \in Begun : m # n => push'[m] = push[m]
    BY <1>3, Sending
  <2> QED
    BY <2>1, <2>2, <2>3, <2>4 DEF Registered, Lost
<1>4. ASSUME NEW n \in 1 .. MaxEvents, Drop(n) PROVE Registered'
  <2>1. /\ conn' = conn /\ Begun' = Begun /\ n \in Begun
        /\ clients' = clients \ push[n].dead
        /\ \A m \in Begun : push'[m].dead \subseteq push[m].dead
    BY <1>4, Dropping DEF Drop
  <2> QED
    BY <2>1 DEF Registered, Lost
<1>5. ASSUME NEW c \in Clients,
             Accept(c) \/ Stall(c) \/ Resume(c) \/ Vanish(c) \/ Closed(c) \/ Fetch(c)
      PROVE  Registered'
  <2>1. Begun' = Begun /\ push' = push
    BY <1>5 DEF Accept, Stall, Resume, Vanish, Closed, Fetch, Turns, Begun
  <2>2. /\ \A d \in Clients \ {c} : conn'[d] = conn[d] /\ (d \in clients => d \in clients')
        /\ conn'[c] \in {"open", "stalled"} => c \in clients'
    BY <1>5 DEF Accept, Stall, Resume, Vanish, Closed, Fetch, Turns, Registered, Shapes
  <2>3. Lost(c) => conn'[c] \in {"gone", "closed"}
    BY <1>5 DEF Accept, Stall, Resume, Vanish, Closed, Fetch, Turns, Lost, Shapes
  <2>4. \A n \in Begun : push[n].dead \subseteq Clients
    <3>1. \A n \in Begun : push[n] \in Broadcast
      BY DEF Shapes, Begun
    <3> QED
      BY <3>1 DEF Broadcast
  <2> QED
    BY <2>1, <2>2, <2>3, <2>4 DEF Registered, Lost
<1>6. CASE UNCHANGED bridgeVars
  BY <1>6 DEF bridgeVars, Registered, Lost, Begun
<1> QED
  BY <1>1, <1>2, <1>3, <1>4, <1>5, <1>6 DEF BridgeNext

\* Nothing is known of a client before it connects.
LEMMA UnheardKept ==
  ASSUME IInv, RingCapacity \in Nat, [BridgeNext]_bridgeVars
  PROVE  Unheard'
<1> USE DEF IInv
<1>1. ASSUME Publish PROVE Unheard'
  BY <1>1 DEF Publish, Unheard, Begun
<1>2. ASSUME Begin PROVE Unheard'
  <2>1. UNCHANGED <<conn, clients, fetched>>
    BY <1>2 DEF Begin
  <2>2. /\ Begun' = Begun \cup {started + 1}
        /\ \A n \in Begun : push'[n] = push[n]
        /\ push'[started + 1].left = clients
    BY <1>2, Beginning
  <2> QED
    BY <2>1, <2>2 DEF Unheard
<1>3. ASSUME NEW n \in 1 .. MaxEvents, Send(n) PROVE Unheard'
  <2>1. UNCHANGED <<conn, clients, fetched>>
    BY <1>3 DEF Send
  <2>2. Begun' = Begun /\ \A m \in Begun : push'[m].left \subseteq push[m].left
    BY <1>3, Sending
  <2> QED
    BY <2>1, <2>2 DEF Unheard
<1>4. ASSUME NEW n \in 1 .. MaxEvents, Drop(n) PROVE Unheard'
  <2>1. /\ UNCHANGED <<conn, fetched>> /\ Begun' = Begun
        /\ clients' \subseteq clients
        /\ \A m \in Begun : push'[m].left = push[m].left
    BY <1>4, Dropping DEF Drop
  <2> QED
    BY <2>1 DEF Unheard
<1>5. ASSUME NEW c \in Clients,
             Accept(c) \/ Stall(c) \/ Resume(c) \/ Vanish(c) \/ Closed(c) \/ Fetch(c)
      PROVE  Unheard'
  <2>1. Begun' = Begun /\ push' = push
    BY <1>5 DEF Accept, Stall, Resume, Vanish, Closed, Fetch, Turns, Begun
  <2>2. /\ conn'[c] # "out"
        /\ \A d \in Clients \ {c} :
             conn'[d] = conn[d] /\ fetched'[d] = fetched[d] /\ (d \in clients' => d \in clients)
    BY <1>5 DEF Accept, Stall, Resume, Vanish, Closed, Fetch, Turns, Shapes
  <2> QED
    BY <2>1, <2>2 DEF Unheard
<1>6. CASE UNCHANGED bridgeVars
  BY <1>6 DEF bridgeVars, Unheard, Begun
<1> QED
  BY <1>1, <1>2, <1>3, <1>4, <1>5, <1>6 DEF BridgeNext

\* The events in the ring's reach that the ring does hold.
LEMMA Reach ==
  ASSUME Shapes, Latest, RingCapacity \in Nat, NEW n \in Begun, n > started - RingCapacity
  PROVE  n \in ToSet(ring)
<1>1. /\ ring \in Seq(Nat) /\ started \in Nat /\ n \in 1 .. started
      /\ Len(ring) = IF started < RingCapacity THEN started ELSE RingCapacity
      /\ \A i \in DOMAIN ring : ring[i] = started - Len(ring) + i
  BY DEF Shapes, Latest, Begun
<1> DEFINE i == n - started + Len(ring)
<1>2. i \in DOMAIN ring /\ started - Len(ring) + i = n
  BY <1>1
<1>3. ring[i] = n
  BY <1>1, <1>2
<1> QED
  BY <1>2, <1>3 DEF ToSet

\* No step lets a client miss an event.
LEMMA InformedKept ==
  ASSUME IInv, RingCapacity \in Nat, [BridgeNext]_bridgeVars
  PROVE  Informed'
<1> USE DEF IInv
<1>1. ASSUME Publish PROVE Informed'
  BY <1>1 DEF Publish, Informed, Begun, OnItsWay
<1>2. ASSUME Begin PROVE Informed'
  <2>1. UNCHANGED <<conn, fetched, got>>
    BY <1>2 DEF Begin
  <2>2. /\ started' = started + 1 /\ Begun' = Begun \cup {started + 1}
        /\ \A n \in Begun : push'[n] = push[n]
        /\ push'[started + 1] = [left |-> clients, dead |-> {}]
    BY <1>2, Beginning
  <2>3. \A n \in Begun : n > started' - RingCapacity => n > started - RingCapacity
    BY <2>2 DEF Begun, Shapes
  <2>4. \A c \in Clients : conn[c] \in {"open", "stalled"} => c \in push'[started + 1].left
    BY <2>2 DEF Registered
  <2> QED
    BY <2>1, <2>2, <2>3, <2>4 DEF Informed, OnItsWay
<1>3. ASSUME NEW n \in 1 .. MaxEvents, Send(n) PROVE Informed'
  <2>1. UNCHANGED <<conn, fetched, started>>
    BY <1>3 DEF Send
  <2>2. /\ n \in Begun /\ Begun' = Begun
        /\ \A m \in Begun : m # n => push'[m] = push[m]
    BY <1>3, Sending
  <2>3. PICK c \in Clients :
          /\ push'[n].left = push[n].left \ {c}
          /\ \/ got' = [got EXCEPT ![c] = @ \cup {n}]
             \/ conn[c] \in {"out", "gone", "closed"} /\ got' = got
    BY <1>3, Sending
  <2>4. /\ \A d \in Clients : got[d] \subseteq got'[d]
        /\ n \in got'[c] \/ conn[c] \notin {"open", "stalled"}
    BY <2>3 DEF Shapes
  <2>5. \A d \in Clients, m \in Begun :
          d \in push[m].left => d \in push'[m].left \/ (m = n /\ d = c)
    BY <2>2, <2>3
  <2> QED
    BY <2>1, <2>2, <2>4, <2>5 DEF Informed, OnItsWay
<1>4. ASSUME NEW n \in 1 .. MaxEvents, Drop(n) PROVE Informed'
  <2>1. /\ UNCHANGED <<conn, fetched, got, started>> /\ Begun' = Begun
        /\ \A m \in Begun : push'[m].left = push[m].left
    BY <1>4, Dropping DEF Drop
  <2> QED
    BY <2>1 DEF Informed, OnItsWay
<1>5. ASSUME NEW c \in Clients, Accept(c) \/ Stall(c) \/ Resume(c) \/ Vanish(c) \/ Closed(c)
      PROVE  Informed'
  <2>1. Begun' = Begun /\ push' = push /\ started' = started
    BY <1>5 DEF Accept, Stall, Resume, Vanish, Closed, Turns, Begun
  <2>2. \A d \in Clients \ {c} : UNCHANGED <<conn[d], fetched[d], got[d]>>
    BY <1>5 DEF Accept, Stall, Resume, Vanish, Closed, Turns, Shapes
  <2>3. conn'[c] \in {"open", "stalled"} =>
          /\ fetched' = fetched /\ got' = got
          /\ conn[c] \in {"open", "stalled"} \/ fetched[c] = Unread
    BY <1>5 DEF Accept, Stall, Resume, Vanish, Closed, Turns, Shapes, Unheard
  <2> QED
    BY <2>1, <2>2, <2>3 DEF Informed, OnItsWay
<1>6. ASSUME NEW c \in Clients, Fetch(c) PROVE Informed'
  <2>1. /\ UNCHANGED <<conn, got, started, push>> /\ Begun' = Begun
        /\ fetched'[c] = {Entry[n] : n \in ToSet(ring)}
        /\ \A d \in Clients \ {c} : fetched'[d] = fetched[d]
    BY <1>6 DEF Fetch, Begun, Shapes
  <2>2. \A n \in Begun : n > started - RingCapacity => Entry[n] \in fetched'[c]
    BY <2>1, Reach
  <2> QED
    BY <2>1, <2>2 DEF Informed, OnItsWay
<1>7. CASE UNCHANGED bridgeVars
  BY <1>7 DEF bridgeVars, Informed, Begun, OnItsWay
<1> QED
  BY <1>1, <1>2, <1>3, <1>4, <1>5, <1>6, <1>7 DEF BridgeNext

-----------------------------------------------------------------------------

LEMMA InitIInv == BridgeInit => IInv
<1> SUFFICES ASSUME BridgeInit PROVE IInv
  OBVIOUS
<1>1. Shapes
  <2>1. push \in Seq(Broadcast) /\ Len(push) = 0 /\ ring \in Seq(Nat)
    BY DEF BridgeInit
  <2> QED
    BY <2>1 DEF BridgeInit, Shapes
<1>2. Latest
  BY RingAssumption DEF BridgeInit, Latest
<1>3. Registered /\ Unheard /\ Informed
  BY DEF BridgeInit, Registered, Unheard, Informed, Begun
<1> QED
  BY <1>1, <1>2, <1>3 DEF IInv

\* What the ring, the clients and the broadcasts know of one another.
THEOREM Inductive == BridgeSpec => []IInv
<1>1. IInv /\ [BridgeNext]_bridgeVars => IInv'
  BY RingAssumption, ShapesKept, LatestKept, RegisteredKept, UnheardKept, InformedKept DEF IInv
<1> QED
  BY InitIInv, <1>1, PTL DEF BridgeSpec

\* api_bridge.py: a page that connects and then reads the activity log misses no event, of
\* as many as the log keeps: two that say the same may share one entry of it.
THEOREM NoneMissed == BridgeSpec => []NothingMissed
<1>1. IInv => NothingMissed
  BY DEF IInv, Informed, NothingMissed
<1> QED
  BY Inductive, <1>1, PTL
=============================================================================

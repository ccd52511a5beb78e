-------------------------------- MODULE Broker --------------------------------
(***************************************************************************)
(* broker.Broker and the SSE handlers that use it.  Broadcasts run in the     *)
(* goroutines of the watcher, of the dispatcher and of HTTP handlers; every    *)
(* browser tab has a goroutine in handleSSE that subscribes a channel, drains  *)
(* it, and unsubscribes when the request's context ends.  A sync.RWMutex       *)
(* guards the set of channels: a writer that has announced itself holds up     *)
(* new readers, and its Unlock admits the readers it held up.                 *)
(***************************************************************************)
EXTENDS Naturals, Sequences

CONSTANTS Clients,       \* the browser tabs, each with one SSE request
          Broadcasters,  \* the goroutines that broadcast
          MaxEvents,     \* bound: the events each of them broadcasts
          Cap,           \* the capacity of a client's channel (64 in the code)
          Nobody         \* no writer

ASSUME BrokerAssumption == /\ Nobody \notin Clients
                           /\ MaxEvents \in Nat /\ Cap \in Nat \ {0}

VARIABLES place,    \* where a client's goroutine is in handleSSE
          writer,   \* the client that holds RWMutex.w: it announced or holds the lock
          clients,  \* Broker.clients
          chan,     \* the content of a client's channel
          closed,   \* the clients whose channel is closed
          act,      \* where a broadcaster is in broadcast
          todo,     \* the clients its loop has not come to
          sent,     \* the number of events it has begun to broadcast
          got,      \* history: the events written to a client's response
          lossy     \* history: the clients for which an event was dropped

mutexVars == <<writer, clients>>
clientVars == <<place, closed, got>>
senderVars == <<act, todo, sent>>
vars == <<clientVars, mutexVars, senderVars, chan, lossy>>

Events == Broadcasters \X (1..MaxEvents)

TypeOK ==
  /\ place \in [Clients -> {"new", "adding", "open",
                            "leaving", "removing", "closing", "gone"}]
  /\ writer \in Clients \cup {Nobody}
  /\ clients \subseteq Clients
  /\ chan \in [Clients -> Seq(Events)]
  /\ \A c \in Clients : Len(chan[c]) <= Cap
  /\ closed \subseteq Clients
  /\ act \in [Broadcasters -> {"idle", "blocked", "reading"}]
  /\ todo \in [Broadcasters -> SUBSET Clients]
  /\ sent \in [Broadcasters -> 0..MaxEvents]
  /\ \A b \in Broadcasters : act[b] # "idle" => sent[b] > 0
  /\ got \in [Clients -> Seq(Events)]
  /\ lossy \subseteq Clients

Init ==
  /\ place = [c \in Clients |-> "new"]
  /\ writer = Nobody
  /\ clients = {}
  /\ chan = [c \in Clients |-> <<>>]
  /\ closed = {}
  /\ act = [b \in Broadcasters |-> "idle"]
  /\ todo = [b \in Broadcasters |-> {}]
  /\ sent = [b \in Broadcasters |-> 0]
  /\ got = [c \in Clients |-> <<>>]
  /\ lossy = {}

Readers == {b \in Broadcasters : act[b] = "reading"}
Move(c, from, to) == place[c] = from /\ place' = [place EXCEPT ![c] = to]

\* RWMutex.Lock: the writer announces itself; it holds the lock once the readers
\* that came before it are gone.
Announce(c, from, to) ==
  /\ Move(c, from, to)
  /\ writer = Nobody /\ writer' = c

\* RWMutex.Unlock, with what the critical section did to the set of channels.
Release(set) ==
  /\ clients' = set
  /\ writer' = Nobody
  /\ LET admitted == {b \in Broadcasters : act[b] = "blocked"} IN
     /\ act' = [b \in Broadcasters |-> IF b \in admitted THEN "reading" ELSE act[b]]
     /\ todo' = [b \in Broadcasters |-> IF b \in admitted THEN set ELSE todo[b]]

-------------------------------------------------------------------------------
(* Slips a maintainer could make; no specification uses them.                  *)

\* The channel is closed first and taken out of the set afterwards.
LeaveClosing(c) ==
  /\ Announce(c, "leaving", "removing")
  /\ closed' = closed \cup {c}
  /\ UNCHANGED <<got, clients, senderVars, chan, lossy>>

\* The send waits for room.
SendBlocking(b, c) ==
  /\ act[b] = "reading" /\ c \in todo[b]
  /\ Len(chan[c]) < Cap
  /\ chan' = [chan EXCEPT ![c] = Append(@, <<b, sent[b]>>)]
  /\ todo' = [todo EXCEPT ![b] = @ \ {c}]
  /\ UNCHANGED <<lossy, act, sent, clientVars, mutexVars>>

\* When the channel is full the oldest event makes room, at the wrong end.
SendToFront(b, c) ==
  /\ act[b] = "reading" /\ c \in todo[b]
  /\ todo' = [todo EXCEPT ![b] = @ \ {c}]
  /\ IF Len(chan[c]) < Cap
       THEN chan' = [chan EXCEPT ![c] = Append(@, <<b, sent[b]>>)] /\ UNCHANGED lossy
       ELSE /\ chan' = [chan EXCEPT ![c] = <<<<b, sent[b]>>>> \o Tail(@)]
            /\ lossy' = lossy \cup {c}
  /\ UNCHANGED <<act, sent, clientVars, mutexVars>>

\* The event goes out whatever the channel holds.
SendUncounted(b, c) ==
  /\ act[b] = "reading" /\ c \in todo[b]
  /\ todo' = [todo EXCEPT ![b] = @ \ {c}]
  /\ chan' = [chan EXCEPT ![c] = Append(@, <<b, sent[b]>>)]
  /\ UNCHANGED <<lossy, act, sent, clientVars, mutexVars>>

-------------------------------------------------------------------------------
(* Subscribe, the loop of handleSSE, Unsubscribe.                             *)

Join(c) ==
  /\ Announce(c, "new", "adding")
  /\ UNCHANGED <<closed, got, clients, senderVars, chan, lossy>>

Add(c) ==
  /\ writer = c /\ Readers = {}
  /\ Move(c, "adding", "open")
  /\ Release(clients \cup {c})
  /\ UNCHANGED <<closed, got, sent, chan, lossy>>

Receive(c) ==
  /\ place[c] = "open" /\ chan[c] # <<>>
  /\ got' = [got EXCEPT ![c] = Append(@, Head(chan[c]))]
  /\ chan' = [chan EXCEPT ![c] = Tail(@)]
  /\ UNCHANGED <<place, closed, mutexVars, senderVars, lossy>>

\* The request's context is done at any moment; the deferred Unsubscribe follows.
Disconnect(c) ==
  /\ Move(c, "open", "leaving")
  /\ UNCHANGED <<closed, got, mutexVars, senderVars, chan, lossy>>

Leave(c) ==
  /\ Announce(c, "leaving", "removing")
  /\ UNCHANGED <<closed, got, clients, senderVars, chan, lossy>>

Remove(c) ==
  /\ writer = c /\ Readers = {}
  /\ Move(c, "removing", "closing")
  /\ Release(clients \ {c})
  /\ UNCHANGED <<closed, got, sent, chan, lossy>>

\* The channel, the response and what is known of them go with the handler.
Close(c) ==
  /\ Move(c, "closing", "gone")
  /\ closed' = closed \cup {c}
  /\ chan' = [chan EXCEPT ![c] = <<>>]
  /\ got' = [got EXCEPT ![c] = <<>>]
  /\ lossy' = lossy \ {c}
  /\ UNCHANGED <<mutexVars, senderVars>>

Handler(c) == Add(c) \/ Leave(c) \/ Remove(c) \/ Close(c)

-------------------------------------------------------------------------------
(* broadcast.                                                                 *)

RLock(b) ==
  /\ act[b] = "idle" /\ sent[b] < MaxEvents
  /\ sent' = [sent EXCEPT ![b] = @ + 1]
  /\ IF writer = Nobody
       THEN /\ act' = [act EXCEPT ![b] = "reading"]
            /\ todo' = [todo EXCEPT ![b] = clients]
       ELSE act' = [act EXCEPT ![b] = "blocked"] /\ UNCHANGED todo
  /\ UNCHANGED <<clientVars, mutexVars, chan, lossy>>

\* One turn of the loop; the order of a range over a map is arbitrary.
SendTo(b, c) ==
  /\ act[b] = "reading" /\ c \in todo[b]
  /\ todo' = [todo EXCEPT ![b] = @ \ {c}]
  /\ IF Len(chan[c]) < Cap
       THEN chan' = [chan EXCEPT ![c] = Append(@, <<b, sent[b]>>)] /\ UNCHANGED lossy
       ELSE lossy' = lossy \cup {c} /\ UNCHANGED chan
  /\ UNCHANGED <<act, sent, clientVars, mutexVars>>

RUnlock(b) ==
  /\ act[b] = "reading" /\ todo[b] = {}
  /\ act' = [act EXCEPT ![b] = "idle"]
  /\ UNCHANGED <<todo, sent, clientVars, mutexVars, chan, lossy>>

Broadcast(b) == RUnlock(b) \/ \E c \in Clients : SendTo(b, c)

Next == \/ \E c \in Clients : Join(c) \/ Receive(c) \/ Disconnect(c) \/ Handler(c)
        \/ \E b \in Broadcasters : RLock(b) \/ Broadcast(b)

SafeSpec == Init /\ [][Next]_vars

\* Goroutines that can run do.  Nobody has to open or close a tab, and a browser
\* may stop reading: Receive is not fair, so channels can stay full for ever.
Fairness == /\ \A c \in Clients : WF_vars(Handler(c))
            /\ \A b \in Broadcasters : WF_vars(Broadcast(b))

Spec == SafeSpec /\ Fairness

-------------------------------------------------------------------------------
(* Properties.                                                                *)

\* No broadcast sends on a closed channel, which would panic and end the daemon:
\* the lock orders every loop before or after the removal that precedes the close.
NoSendOnClosed ==
  \A b \in Readers : todo[b] \cap closed = {}

\* The events a client got, and behind them those that wait in its channel.
Stream(c) == got[c] \o chan[c]

\* A client sees the events of each goroutine in the order they were broadcast: the
\* form of an operation never arrives after the event that clears it.  While it is
\* connected it misses none from the first it sees on, up to the one being
\* broadcast, unless its own channel was full: one slow tab costs the others nothing.
InOrder ==
  \A c \in Clients, b \in Broadcasters :
    LET s == Stream(c)
        own == {i \in DOMAIN s : s[i][1] = b} IN
    /\ \A i, j \in own : i < j => s[i][2] < s[j][2]
    /\ c \in clients \ lossy =>
         \A i \in own, n \in 1..sent[b] :
           n >= s[i][2] => \/ n = sent[b] /\ act[b] # "idle"
                           \/ \E j \in own : s[j][2] = n

\* Whoever has stopped reading, connects or disconnects, a broadcast ends, so the
\* watcher and the dispatcher never hang on a browser, and a tab that goes away is
\* removed from the set and its channel is closed.
NobodyHangs ==
  /\ \A b \in Broadcasters : act[b] # "idle" ~> act[b] = "idle"
  /\ \A c \in Clients : place[c] = "leaving" ~> c \in closed \ clients
===============================================================================

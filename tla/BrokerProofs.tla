----------------------------- MODULE BrokerProofs -----------------------------
(* Proofs about Broker, for any number of tabs, goroutines and events.         *)
EXTENDS Broker, SequenceTheorems, TLAPS

USE BrokerAssumption

\* A broker without clients is well typed.
LEMMA InitTyped == Init => TypeOK
BY DEF Init, TypeOK

\* Every step of a handler or of a broadcast keeps the types and the capacities.
LEMMA TypeStep == TypeOK /\ [Next]_vars => TypeOK'
<1> SUFFICES ASSUME TypeOK, [Next]_vars PROVE TypeOK'
  OBVIOUS
<1> USE DEF TypeOK, Move, Announce, Release, vars, mutexVars, clientVars, senderVars
<1>0. /\ clients \subseteq Clients
      /\ act \in [Broadcasters -> {"idle", "blocked", "reading"}]
      /\ todo \in [Broadcasters -> SUBSET Clients]
      /\ sent \in [Broadcasters -> 0..MaxEvents]
      /\ \A b \in Broadcasters : act[b] # "idle" => sent[b] > 0
  OBVIOUS
<1>1. ASSUME NEW c \in Clients, Join(c) \/ Leave(c) \/ Disconnect(c) PROVE TypeOK'
  BY <1>1 DEF Join, Leave, Disconnect
<1>2. ASSUME NEW c \in Clients, Add(c) PROVE TypeOK'
  BY <1>2 DEF Add
<1>3. ASSUME NEW c \in Clients, Remove(c) PROVE TypeOK'
  BY <1>3 DEF Remove
<1>4. ASSUME NEW c \in Clients, Receive(c) PROVE TypeOK'
  <2>1. /\ Head(chan[c]) \in Events
        /\ Tail(chan[c]) \in Seq(Events) /\ Len(Tail(chan[c])) <= Cap
    BY <1>4 DEF Receive
  <2>2. Append(got[c], Head(chan[c])) \in Seq(Events)
    BY <2>1
  <2> QED BY <1>4, <2>1, <2>2 DEF Receive
<1>5. ASSUME NEW b \in Broadcasters, RLock(b) PROVE TypeOK'
  <2>1. sent[b] + 1 \in 1..MaxEvents
    BY <1>5 DEF RLock
  <2>2. /\ sent' \in [Broadcasters -> 0..MaxEvents]
        /\ \A d \in Broadcasters : act'[d] # "idle" => sent'[d] > 0
    BY <1>5, <2>1 DEF RLock
  <2>3. /\ act' \in [Broadcasters -> {"idle", "blocked", "reading"}]
        /\ todo' \in [Broadcasters -> SUBSET Clients]
    <3> HIDE DEF TypeOK
    <3>1. CASE writer = Nobody
      BY <1>0, <1>5, <3>1 DEF RLock
    <3>2. CASE writer # Nobody
      BY <1>0, <1>5, <3>2 DEF RLock
    <3> QED BY <3>1, <3>2
  <2> QED BY <1>5, <2>2, <2>3 DEF RLock
<1>6. ASSUME NEW b \in Broadcasters, NEW c \in Clients, SendTo(b, c) PROVE TypeOK'
  <2>1. CASE Len(chan[c]) < Cap
    <3> DEFINE q == Append(chan[c], <<b, sent[b]>>)
    <3>1. q \in Seq(Events) /\ Len(q) <= Cap
      <4> HIDE DEF TypeOK
      <4>1. sent[b] \in 1..MaxEvents
        BY <1>0, <1>6 DEF SendTo
      <4>2. <<b, sent[b]>> \in Events
        BY <4>1 DEF Events
      <4> QED BY <4>2, <2>1 DEF TypeOK
    <3> HIDE DEF q
    <3>2. chan' = [chan EXCEPT ![c] = q]
      BY <1>6, <2>1 DEF SendTo, q
    <3> QED BY <1>6, <2>1, <3>1, <3>2 DEF SendTo
  <2>2. CASE ~ (Len(chan[c]) < Cap)
    BY <1>6, <2>2 DEF SendTo
  <2> QED BY <2>1, <2>2
<1>7. ASSUME NEW b \in Broadcasters, RUnlock(b) PROVE TypeOK'
  BY <1>7 DEF RUnlock
<1>8. ASSUME NEW c \in Clients, Close(c) PROVE TypeOK'
  <2>1. <<>> \in Seq(Events) /\ Len(<<>>) <= Cap
    OBVIOUS
  <2>2. chan' \in [Clients -> Seq(Events)] /\ got' \in [Clients -> Seq(Events)]
    BY <1>8, <2>1 DEF Close
  <2>3. \A d \in Clients : Len(chan'[d]) <= Cap
    BY <1>8, <2>1 DEF Close
  <2> QED BY <1>8, <2>2, <2>3 DEF Close
<1>9. CASE UNCHANGED vars
  BY <1>9
<1> QED BY <1>1, <1>2, <1>3, <1>4, <1>5, <1>6, <1>7, <1>8, <1>9
        DEF Next, Handler, Broadcast

\* Every reachable state of the broker is well typed.
THEOREM TypeCorrect == SafeSpec => []TypeOK
BY InitTyped, TypeStep, PTL DEF SafeSpec

-------------------------------------------------------------------------------
(* The lock at work: one writer at a time, no loop while the set changes, and  *)
(* a channel closed only after it has left the set.                           *)

WriterInv == \A c \in Clients : place[c] \in {"adding", "removing"} <=> writer = c

SetInv == /\ \A c \in clients : place[c] \in {"open", "leaving", "removing"}
          /\ \A c \in closed : place[c] = "gone"

LoopInv == \A b \in Readers : todo[b] \subseteq clients

LockInv == TypeOK /\ WriterInv /\ SetInv /\ LoopInv

\* No step of Subscribe, Unsubscribe or broadcast breaks the discipline of the lock.
LEMMA LockStep == LockInv /\ [Next]_vars => LockInv'
<1> SUFFICES ASSUME LockInv, [Next]_vars PROVE LockInv'
  OBVIOUS
<1>0. TypeOK'
  BY TypeStep DEF LockInv
<1> USE DEF LockInv, TypeOK, Readers, Move, Announce, Release,
            vars, mutexVars, clientVars, senderVars
<1>1. ASSUME NEW c \in Clients, Join(c) \/ Leave(c) PROVE LockInv'
  <2>1. WriterInv'
    BY <1>1 DEF Join, Leave, WriterInv
  <2>2. SetInv'
    BY <1>1 DEF Join, Leave, SetInv, WriterInv
  <2>3. LoopInv'
    BY <1>1 DEF Join, Leave, LoopInv
  <2> QED BY <1>0, <2>1, <2>2, <2>3
<1>2. ASSUME NEW c \in Clients, Add(c) PROVE LockInv'
  <2>1. WriterInv'
    BY <1>2 DEF Add, WriterInv
  <2>2. SetInv'
    BY <1>2 DEF Add, SetInv, WriterInv
  <2>3. LoopInv'
    BY <1>2 DEF Add, LoopInv
  <2> QED BY <1>0, <2>1, <2>2, <2>3
<1>3. ASSUME NEW c \in Clients, Remove(c) PROVE LockInv'
  <2>1. WriterInv'
    BY <1>3 DEF Remove, WriterInv
  <2>2. SetInv'
    BY <1>3 DEF Remove, SetInv, WriterInv
  <2>3. LoopInv'
    BY <1>3 DEF Remove, LoopInv
  <2> QED BY <1>0, <2>1, <2>2, <2>3
<1>4. ASSUME NEW c \in Clients, Receive(c) \/ Disconnect(c) PROVE LockInv'
  <2>1. WriterInv'
    BY <1>4 DEF Receive, Disconnect, WriterInv
  <2>2. SetInv'
    BY <1>4 DEF Receive, Disconnect, SetInv, WriterInv
  <2>3. LoopInv'
    BY <1>4 DEF Receive, Disconnect, LoopInv
  <2> QED BY <1>0, <2>1, <2>2, <2>3
<1>5. ASSUME NEW c \in Clients, Close(c) PROVE LockInv'
  <2>0. /\ place[c] = "closing" /\ place' = [place EXCEPT ![c] = "gone"]
        /\ closed' = closed \cup {c} /\ UNCHANGED <<writer, clients, act, todo>>
    BY <1>5 DEF Close
  <2>1. WriterInv'
    BY <2>0 DEF WriterInv
  <2>2. SetInv'
    BY <2>0 DEF SetInv
  <2>3. LoopInv'
    BY <2>0 DEF LoopInv
  <2> QED BY <1>0, <2>1, <2>2, <2>3
<1>6. ASSUME NEW b \in Broadcasters, RLock(b) \/ RUnlock(b) PROVE LockInv'
  <2>1. WriterInv'
    BY <1>6 DEF RLock, RUnlock, WriterInv
  <2>2. SetInv'
    BY <1>6 DEF RLock, RUnlock, SetInv, WriterInv
  <2>3. LoopInv'
    BY <1>6 DEF RLock, RUnlock, LoopInv
  <2> QED BY <1>0, <2>1, <2>2, <2>3
<1>7. ASSUME NEW b \in Broadcasters, NEW c \in Clients, SendTo(b, c) PROVE LockInv'
  <2>1. WriterInv'
    BY <1>7 DEF SendTo, WriterInv
  <2>2. SetInv'
    BY <1>7 DEF SendTo, SetInv, WriterInv
  <2>3. LoopInv'
    BY <1>7 DEF SendTo, LoopInv
  <2> QED BY <1>0, <2>1, <2>2, <2>3
<1>8. CASE UNCHANGED vars
  BY <1>0, <1>8 DEF WriterInv, SetInv, LoopInv
<1> QED BY <1>1, <1>2, <1>3, <1>4, <1>5, <1>6, <1>7, <1>8
        DEF Next, Handler, Broadcast

\* For any number of tabs and goroutines no broadcast ever sends on a closed
\* channel: Unsubscribe closes after the lock has taken the channel out of the set.
THEOREM NeverSendOnClosed == SafeSpec => []NoSendOnClosed
<1>1. Init => LockInv
  BY InitTyped DEF Init, LockInv, WriterInv, SetInv, LoopInv, Readers
<1>2. LockInv => NoSendOnClosed
  BY DEF LockInv, SetInv, LoopInv, NoSendOnClosed
<1> QED BY <1>1, <1>2, LockStep, PTL DEF SafeSpec

-------------------------------------------------------------------------------
(* The order of the events.  What a client got and what waits for it is one     *)
(* sequence, Stream(c): receiving an event does not change it, a send that finds *)
(* room makes it longer by one.                                              *)

\* The head of a channel may count as the last event that was got.
LEMMA HeadMoves ==
  ASSUME NEW S, NEW s \in Seq(S), NEW t \in Seq(S), t # <<>>
  PROVE  Append(s, Head(t)) \o Tail(t) = s \o t
<1>1. /\ Head(t) \in S /\ Tail(t) \in Seq(S) /\ Len(Tail(t)) = Len(t) - 1
      /\ t = <<Head(t)>> \o Tail(t)
  BY HeadTailProperties
<1>2. Append(s, Head(t)) = s \o <<Head(t)>>
  BY <1>1, AppendIsConcat
<1>3. <<Head(t)>> \in Seq(S)
  BY <1>1
<1> QED BY <1>1, <1>2, <1>3, ConcatAssociative

\* A send that finds room makes the client's sequence longer by its event.
LEMMA StreamGrows ==
  ASSUME NEW S, NEW s \in Seq(S), NEW t \in Seq(S), NEW e \in S
  PROVE  s \o Append(t, e) = Append(s \o t, e)
<1>1. <<e>> \in Seq(S) /\ s \o t \in Seq(S)
  BY ConcatProperties
<1>2. Append(t, e) = t \o <<e>> /\ Append(s \o t, e) = (s \o t) \o <<e>>
  BY <1>1, AppendIsConcat
<1> QED BY <1>1, <1>2, ConcatAssociative

\* b has begun an event that it has not offered to c yet.
Due(b, c) == act[b] = "blocked" \/ (act[b] = "reading" /\ c \in todo[b])

\* What holds of the sequence s of a client c: it is empty before the client is
\* connected; its events are events their goroutines have begun, and the one still
\* due to c is not among them; each goroutine's are in their order; and as long as
\* nothing was dropped, from the first one on none is missing but the one due.
Sound(c, s) ==
  /\ place[c] \in {"new", "adding"} => s = <<>>
  /\ \A i \in DOMAIN s : /\ s[i][2] <= sent[s[i][1]]
                         /\ Due(s[i][1], c) => s[i][2] < sent[s[i][1]]
  /\ \A i, j \in DOMAIN s : i < j /\ s[i][1] = s[j][1] => s[i][2] < s[j][2]
  /\ c \in clients \ lossy =>
       \A i \in DOMAIN s : \A n \in s[i][2]..sent[s[i][1]] :
         \/ n = sent[s[i][1]] /\ Due(s[i][1], c)
         \/ \E j \in DOMAIN s : s[j] = <<s[i][1], n>>

OrderInv == LockInv /\ \A c \in Clients : Sound(c, Stream(c))

\* No step of a client's own, and no step of the lock, makes its sequence unsound.
LEMMA HandlerSound ==
  ASSUME LockInv, NEW c \in Clients, NEW s \in Seq(Events), Sound(c, s),
         NEW d \in Clients, Join(d) \/ Receive(d) \/ Disconnect(d) \/ Leave(d)
                            \/ Add(d) \/ Remove(d)
  PROVE  Sound(c, s)'
<1>0. \A i \in DOMAIN s : s[i][1] \in Broadcasters /\ s[i][2] \in 1..MaxEvents
  BY DEF Events
<1> USE DEF LockInv, TypeOK, SetInv, Move, Announce, Due
<1>1. CASE Join(d) \/ Receive(d) \/ Disconnect(d) \/ Leave(d)
  BY <1>0, <1>1 DEF Sound, Join, Receive, Disconnect, Leave,
     vars, mutexVars, clientVars, senderVars
<1>2. CASE Add(d)
  <2>1. CASE d = c
    BY <1>2, <2>1 DEF Sound, Add
  <2>2. CASE d # c
    BY <1>0, <1>2, <2>2 DEF Sound, Add, Release, Readers
  <2> QED BY <2>1, <2>2
<1>3. CASE Remove(d)
  BY <1>0, <1>3 DEF Sound, Remove, Release, Readers
<1> QED BY <1>1, <1>2, <1>3

\* Neither does the lock of a broadcast, which makes one more event due, nor its
\* unlock, after which none is, nor a send to another client.
LEMMA SenderSound ==
  ASSUME LockInv, NEW c \in Clients, NEW s \in Seq(Events), Sound(c, s),
         NEW b \in Broadcasters, NEW d \in Clients,
         RLock(b) \/ RUnlock(b) \/ (SendTo(b, d) /\ d # c)
  PROVE  Sound(c, s)'
<1>0. \A i \in DOMAIN s : s[i][1] \in Broadcasters /\ s[i][2] \in 1..MaxEvents
  BY DEF Events
<1> USE DEF LockInv, TypeOK, SetInv, Due, mutexVars, clientVars
<1>1. CASE RLock(b) /\ writer = Nobody
  BY <1>0, <1>1 DEF Sound, RLock
<1>2. CASE RLock(b) /\ writer # Nobody
  BY <1>0, <1>2 DEF Sound, RLock
<1>3. CASE RUnlock(b)
  BY <1>0, <1>3 DEF Sound, RUnlock
<1>4. CASE SendTo(b, d) /\ d # c
  BY <1>0, <1>4 DEF Sound, SendTo
<1> QED BY <1>1, <1>2, <1>3, <1>4

\* A send to the client itself: the event that was due is the last one now, or the
\* client is one for which an event was dropped.
LEMMA SendSound ==
  ASSUME LockInv, NEW c \in Clients, NEW s \in Seq(Events), Sound(c, s),
         NEW b \in Broadcasters, SendTo(b, c)
  PROVE  \/ Len(chan[c]) < Cap /\ Sound(c, Append(s, <<b, sent[b]>>))'
         \/ ~ (Len(chan[c]) < Cap) /\ Sound(c, s)'
<1>0. \A i \in DOMAIN s : s[i][1] \in Broadcasters /\ s[i][2] \in 1..MaxEvents
  BY DEF Events
<1>1. /\ c \in clients /\ place[c] \notin {"new", "adding"}
      /\ Due(b, c) /\ sent[b] \in 1..MaxEvents
  <2>1. act[b] = "reading" /\ c \in todo[b]
    BY DEF SendTo
  <2>2. c \in clients
    BY <2>1 DEF Readers, LockInv, LoopInv
  <2>3. place[c] \in {"open", "leaving", "removing"}
    BY <2>2 DEF LockInv, SetInv
  <2>4. sent[b] \in 0..MaxEvents /\ sent[b] > 0
    BY <2>1 DEF LockInv, TypeOK
  <2> QED BY <2>1, <2>2, <2>3, <2>4 DEF Due
<1>2. /\ todo' = [todo EXCEPT ![b] = @ \ {c}]
      /\ UNCHANGED <<act, sent, place, clients>>
      /\ act[b] = "reading" /\ todo \in [Broadcasters -> SUBSET Clients]
  BY DEF SendTo, clientVars, mutexVars, LockInv, TypeOK
<1>3. \A a \in Broadcasters : Due(a, c)' => Due(a, c) /\ a # b
  BY <1>2 DEF Due
<1>4. \A a \in Broadcasters \ {b} : Due(a, c)' = Due(a, c)
  BY <1>2 DEF Due
<1>5. CASE Len(chan[c]) < Cap
  <2> PICK e : e = <<b, sent[b]>>
    OBVIOUS
  <2> PICK k : k = sent[b]
    OBVIOUS
  <2>1. e[1] = b /\ e[2] = k /\ e = <<b, k>> /\ e \in Events /\ k \in 1..MaxEvents
    BY <1>1 DEF Events
  <2> DEFINE t == Append(s, e)
  <2>2. /\ t \in Seq(Events) /\ DOMAIN s = 1..Len(s) /\ DOMAIN t = 1..(Len(s) + 1)
        /\ \A i \in 1..Len(s) : t[i] = s[i]
        /\ t[Len(s) + 1] = e /\ Len(s) \in Nat
    BY <2>1
  <2> HIDE DEF t
  <2>3. lossy' = lossy
    BY <1>5 DEF SendTo
  <2>4. \A i \in DOMAIN t : /\ t[i][2] <= sent[t[i][1]]
                            /\ Due(t[i][1], c)' => t[i][2] < sent[t[i][1]]
    BY <1>0, <1>3, <2>1, <2>2 DEF Sound
  <2>5. \A i, j \in DOMAIN t : i < j /\ t[i][1] = t[j][1] => t[i][2] < t[j][2]
    BY <1>0, <1>1, <2>1, <2>2 DEF Sound
  <2>6. ASSUME c \notin lossy, NEW i \in DOMAIN t, NEW n \in t[i][2]..sent[t[i][1]]
        PROVE  \/ n = sent[t[i][1]] /\ Due(t[i][1], c)'
               \/ \E j \in DOMAIN t : t[j] = <<t[i][1], n>>
    <3>1. CASE i = Len(s) + 1
      BY <2>1, <2>2, <3>1
    <3>2. CASE i \in DOMAIN s
      <4>1. \/ n = sent[s[i][1]] /\ Due(s[i][1], c)
            \/ \E j \in DOMAIN s : s[j] = <<s[i][1], n>>
        BY <1>1, <2>2, <2>6, <3>2 DEF Sound
      <4>2. CASE s[i][1] = b
        <5>1. CASE n = sent[b]
          <6>1. t[Len(s) + 1] = <<t[i][1], n>>
            BY <2>1, <2>2, <3>2, <4>2, <5>1
          <6> QED BY <2>2, <6>1
        <5>2. CASE n # sent[b]
          BY <2>1, <2>2, <3>2, <4>1, <4>2, <5>2
        <5> QED BY <5>1, <5>2
      <4>3. CASE s[i][1] # b
        BY <1>0, <1>4, <2>2, <3>2, <4>1, <4>3
      <4> QED BY <4>2, <4>3
    <3> QED BY <2>2, <2>6, <3>1, <3>2
  <2>7. Sound(c, t)'
    BY <1>1, <1>2, <2>3, <2>4, <2>5, <2>6 DEF Sound
  <2>8. (Append(s, <<b, sent[b]>>))' = t /\ (Len(chan[c]) < Cap)
    BY <1>2, <1>5 DEF t
  <2> QED BY <2>7, <2>8, <1>5
<1>6. CASE ~ (Len(chan[c]) < Cap)
  <2>1. c \in lossy'
    BY <1>6 DEF SendTo
  <2> QED BY <1>0, <1>1, <1>2, <1>3, <1>6, <2>1 DEF Sound
<1> QED BY <1>5, <1>6

\* Every step keeps every client's sequence sound.
LEMMA OrderStep == OrderInv /\ [Next]_vars => OrderInv'
<1> SUFFICES ASSUME OrderInv, [Next]_vars PROVE OrderInv'
  OBVIOUS
<1>0. LockInv /\ LockInv'
  BY LockStep DEF OrderInv
<1> SUFFICES ASSUME NEW c \in Clients PROVE Sound(c, Stream(c))'
  BY <1>0 DEF OrderInv
<1> PICK s : s = Stream(c)
  OBVIOUS
<1> PICK S : S = Events
  OBVIOUS
<1>1. chan \in [Clients -> Seq(S)] /\ got \in [Clients -> Seq(S)]
  BY <1>0 DEF LockInv, TypeOK
<1>2. s = got[c] \o chan[c] /\ s \in Seq(S) /\ Sound(c, s)
  BY <1>1, ConcatProperties DEF OrderInv, Stream
<1>3. s \in Seq(Events)
  BY <1>2
<1>4. ASSUME NEW d \in Clients, Join(d) \/ Disconnect(d) \/ Leave(d) \/ Add(d) \/ Remove(d)
      PROVE  Sound(c, Stream(c))'
  <2>1. Sound(c, s)'
    BY <1>0, <1>2, <1>3, <1>4, HandlerSound
  <2>2. chan' = chan /\ got' = got
    BY <1>4 DEF Join, Disconnect, Leave, Add, Remove
  <2> QED BY <1>2, <2>1, <2>2 DEF Stream
<1>5. ASSUME NEW d \in Clients, Receive(d) PROVE Sound(c, Stream(c))'
  <2>1. Sound(c, s)'
    BY <1>0, <1>2, <1>3, <1>5, HandlerSound
  <2>2. CASE d # c
    <3>1. chan'[c] = chan[c] /\ got'[c] = got[c]
      BY <1>1, <1>5, <2>2 DEF Receive
    <3> QED BY <1>2, <2>1, <3>1 DEF Stream
  <2>3. CASE d = c
    <3>1. /\ got'[c] = Append(got[c], Head(chan[c])) /\ chan'[c] = Tail(chan[c])
          /\ chan[c] # <<>> /\ got[c] \in Seq(S) /\ chan[c] \in Seq(S)
      BY <1>1, <1>5, <2>3 DEF Receive
    <3>2. got'[c] \o chan'[c] = got[c] \o chan[c]
      BY <3>1, HeadMoves
    <3> QED BY <1>2, <2>1, <3>2 DEF Stream
  <2> QED BY <2>2, <2>3
<1>6. ASSUME NEW d \in Clients, Close(d) PROVE Sound(c, Stream(c))'
  <2>1. CASE d # c
    <3>1. chan'[c] = chan[c] /\ got'[c] = got[c]
      BY <1>1, <1>6, <2>1 DEF Close
    <3>2. /\ place'[c] = place[c] /\ (c \in lossy' <=> c \in lossy)
          /\ UNCHANGED <<clients, act, todo, sent>>
      <4>1. place' = [place EXCEPT ![d] = "gone"] /\ lossy' = lossy \ {d}
        BY <1>6 DEF Close, Move
      <4>2. UNCHANGED <<clients, act, todo, sent>>
        BY <1>6 DEF Close, mutexVars, senderVars
      <4>3. DOMAIN place = Clients
        BY <1>0 DEF LockInv, TypeOK
      <4> QED BY <2>1, <4>1, <4>2, <4>3
    <3>3. Sound(c, s)'
      BY <1>2, <3>2 DEF Sound, Due
    <3> QED BY <1>2, <3>1, <3>3 DEF Stream
  <2>2. CASE d = c
    <3>1. got'[c] = <<>> /\ chan'[c] = <<>>
      BY <1>1, <1>6, <2>2 DEF Close
    <3>2. (Stream(c))' = <<>>
      BY <3>1 DEF Stream
    <3> QED BY <3>2 DEF Sound
  <2> QED BY <2>1, <2>2
<1>7. ASSUME NEW b \in Broadcasters, RLock(b) \/ RUnlock(b) PROVE Sound(c, Stream(c))'
  <2>1. Sound(c, s)'
    BY <1>0, <1>2, <1>3, <1>7, SenderSound
  <2>2. chan' = chan /\ got' = got
    BY <1>7 DEF RLock, RUnlock, clientVars
  <2> QED BY <1>2, <2>1, <2>2 DEF Stream
<1>8. ASSUME NEW b \in Broadcasters, NEW d \in Clients, SendTo(b, d)
      PROVE  Sound(c, Stream(c))'
  <2>1. CASE d # c
    <3>1. Sound(c, s)'
      BY <1>0, <1>2, <1>3, <1>8, <2>1, SenderSound
    <3>2. chan'[c] = chan[c] /\ got' = got
      BY <1>1, <1>8, <2>1 DEF SendTo, clientVars
    <3> QED BY <1>2, <3>1, <3>2 DEF Stream
  <2>2. CASE d = c /\ Len(chan[c]) < Cap
    <3> PICK e : e = <<b, sent[b]>>
      OBVIOUS
    <3>1. Sound(c, Append(s, e))'
      <4>1. (Append(s, <<b, sent[b]>>))' = Append(s, e)
        BY <1>8 DEF SendTo
      <4>2. \/ Len(chan[c]) < Cap /\ Sound(c, Append(s, <<b, sent[b]>>))'
            \/ ~ (Len(chan[c]) < Cap) /\ Sound(c, s)'
        BY <1>0, <1>2, <1>3, <1>8, <2>2, SendSound
      <4> HIDE DEF Sound
      <4> QED BY <4>1, <4>2, <2>2
    <3>2. e \in S
      <4>1. sent[b] \in 0..MaxEvents /\ sent[b] > 0
        BY <1>0, <1>8 DEF SendTo, LockInv, TypeOK
      <4> QED BY <4>1 DEF Events
    <3>3. chan'[c] = Append(chan[c], e) /\ got' = got
      BY <1>1, <1>8, <2>2 DEF SendTo, clientVars
    <3>4. got'[c] \o chan'[c] = Append(s, e)
      BY <1>1, <1>2, <3>2, <3>3, StreamGrows
    <3> QED BY <3>1, <3>4 DEF Stream
  <2>3. CASE d = c /\ ~ (Len(chan[c]) < Cap)
    <3>1. Sound(c, s)'
      BY <1>0, <1>2, <1>3, <1>8, <2>3, SendSound
    <3>2. chan' = chan /\ got' = got
      BY <1>8, <2>3 DEF SendTo, clientVars
    <3> QED BY <1>2, <3>1, <3>2 DEF Stream
  <2> QED BY <2>1, <2>2, <2>3
<1>9. CASE UNCHANGED vars
  <2>1. UNCHANGED <<place, clients, act, todo, sent, got, chan, lossy>>
    BY <1>9 DEF vars, clientVars, mutexVars, senderVars
  <2>2. Sound(c, s)'
    BY <1>2, <2>1 DEF Sound, Due
  <2> QED BY <1>2, <2>1, <2>2 DEF Stream
<1> QED BY <1>4, <1>5, <1>6, <1>7, <1>8, <1>9 DEF Next, Handler, Broadcast

\* For any number of tabs, goroutines and events and any capacity, a client sees each
\* goroutine's events in order, and all of them from the first on unless one was
\* dropped at its own full channel.
THEOREM SeenInOrder == SafeSpec => []InOrder
<1>1. Init => OrderInv
  <2> SUFFICES ASSUME Init PROVE OrderInv
    OBVIOUS
  <2>1. LockInv
    BY InitTyped DEF Init, LockInv, WriterInv, SetInv, LoopInv, Readers
  <2>2. ASSUME NEW c \in Clients PROVE Sound(c, Stream(c))
    <3>1. Stream(c) = <<>>
      BY DEF Init, Stream
    <3> QED BY <3>1 DEF Sound
  <2> QED BY <2>1, <2>2 DEF OrderInv
<1>2. OrderInv => InOrder
  <2> SUFFICES ASSUME OrderInv, NEW c \in Clients, NEW b \in Broadcasters
               PROVE  LET s == Stream(c)
                          own == {i \in DOMAIN s : s[i][1] = b}
                      IN  /\ \A i, j \in own : i < j => s[i][2] < s[j][2]
                          /\ c \in clients \ lossy =>
                               \A i \in own, n \in 1..sent[b] :
                                 n >= s[i][2] => \/ n = sent[b] /\ act[b] # "idle"
                                                 \/ \E j \in own : s[j][2] = n
    BY DEF InOrder
  <2> PICK s : s = Stream(c)
    OBVIOUS
  <2> PICK S : S = Events
    OBVIOUS
  <2>1. s \in Seq(S) /\ Sound(c, s)
    <3>1. chan \in [Clients -> Seq(S)] /\ got \in [Clients -> Seq(S)]
      BY DEF OrderInv, LockInv, TypeOK
    <3> QED BY <3>1, ConcatProperties DEF OrderInv, Stream
  <2>2. sent[b] \in Nat
    BY DEF OrderInv, LockInv, TypeOK
  <2>3. \A i \in DOMAIN s : s[i][2] \in Nat
    BY <2>1 DEF Events
  <2>4. ASSUME c \in clients \ lossy, NEW i \in DOMAIN s, s[i][1] = b,
               NEW n \in 1..sent[b], n >= s[i][2]
        PROVE  \/ n = sent[b] /\ act[b] # "idle"
               \/ \E j \in DOMAIN s : s[j] = <<b, n>>
    <3>1. n \in s[i][2]..sent[s[i][1]]
      BY <2>2, <2>3, <2>4
    <3> QED BY <2>1, <2>4, <3>1 DEF Sound, Due
  <2>5. \A i, j \in DOMAIN s : i < j /\ s[i][1] = s[j][1] => s[i][2] < s[j][2]
    BY <2>1 DEF Sound
  <2> DEFINE own == {i \in DOMAIN s : s[i][1] = b}
  <2>6. \A i, j \in own : i < j => s[i][2] < s[j][2]
    BY <2>5
  <2>7. ASSUME c \in clients \ lossy, NEW i \in own, NEW n \in 1..sent[b], n >= s[i][2]
        PROVE  \/ n = sent[b] /\ act[b] # "idle"
               \/ \E j \in own : s[j][2] = n
    <3>1. CASE \E j \in DOMAIN s : s[j] = <<b, n>>
      BY <3>1
    <3> QED BY <2>4, <2>7, <3>1
  <2> QED BY <2>6, <2>7
<1> QED BY <1>1, <1>2, OrderStep, PTL DEF SafeSpec
===============================================================================

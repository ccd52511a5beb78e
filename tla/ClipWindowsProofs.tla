-------------------------- MODULE ClipWindowsProofs --------------------------
(***************************************************************************)
(* Proofs about ClipWindows, for any texts, any number of writers and any      *)
(* sizes, and whatever the other programs do with the clipboard.              *)
(***************************************************************************)
EXTENDS ClipWindows, TLAPS

USE TextAssumption, ActorAssumption, BoundAssumption
USE DEF vars, clipboardVars, watchVars, boundVars

-------------------------------------------------------------------------------
(* Types, in two halves: the queues and the rest.                              *)

Contents == Texts \cup {Empty}
Calls == {"idle", "open", "empty", "set", "close", "ok", "error"}
Holding == {"empty", "set", "close"}
Messages == {"update", "quit"}

QueuesOK == /\ queue \in Seq(Messages)
            /\ channel \in Seq(Contents) /\ Len(channel) <= ChannelSize

PlainOK ==
  /\ text \in Contents /\ got \in Contents /\ last \in Contents /\ offered \in Contents
  /\ owner \in Writers \cup {Nobody, Reader, Other}
  /\ mu \in Writers \cup {Nobody, Reader}
  /\ mode \in {"starting", "listen", "poll", "closed"}
  /\ at \in {"idle", "open", "read", "send"}
  /\ pc \in [Writers -> Calls]
  /\ cancelled \in BOOLEAN /\ crashed \in BOOLEAN
  /\ excused \subseteq {"early", "dropped", "contended", "failed"}
  /\ \A w \in Writers : pc[w] \in Holding <=> owner = w

LEMMA Halves == TypeOK <=> QueuesOK /\ PlainOK
<1>1. {cancelled, crashed} \subseteq BOOLEAN <=> cancelled \in BOOLEAN /\ crashed \in BOOLEAN
  BY Zenon
<1> QED BY <1>1, Zenon DEF TypeOK, QueuesOK, PlainOK, Contents, Calls, Holding, Messages

\* Who is at which call, and who has the mutex and the clipboard.
LockInv ==
  /\ \A w \in Writers : pc[w] \in {"open"} \cup Holding <=> mu = w
  /\ ~ crashed => (mode = "poll" /\ at \in {"open", "read"} <=> mu = Reader)
  /\ mode = "starting" => at = "idle"
  /\ ~ crashed => (owner = Reader <=> at = "read")

\* The goroutine owes nothing for a text it can know of.
ArriveInv ==
  LET handed == IF at = "send" THEN got ELSE offered IN
  /\ mode = "starting" => "early" \in excused /\ offered = last
  /\ mode = "poll" => handed = last
  /\ mode = "listen" /\ excused = {} /\ text # Empty =>
       handed = text \/ queue # <<>> \/ at \in {"open", "read"} \/ owner \in Writers

IInv == QueuesOK /\ PlainOK /\ LockInv /\ ArriveInv

LEMMA MessageLists ==
  <<>> \in Seq(Messages) /\ <<"quit">> \in Seq(Messages)
  /\ \A q \in Seq(Messages) : /\ Append(q, "update") \in Seq(Messages) /\ Append(q, "update") # <<>>
                              /\ Append(q, "quit") \in Seq(Messages) /\ Append(q, "quit") # <<>>
                              /\ q # <<>> => Tail(q) \in Seq(Messages)
<1> "update" \in Messages /\ "quit" \in Messages
  BY DEF Messages
<1>1. PICK S : S = Messages /\ "update" \in S /\ "quit" \in S
  OBVIOUS
<1>2. <<>> \in Seq(S) /\ <<"quit">> \in Seq(S)
  BY <1>1
<1>3. \A q \in Seq(S) : /\ Append(q, "update") \in Seq(S) /\ Append(q, "update") # <<>>
                        /\ Append(q, "quit") \in Seq(S) /\ Append(q, "quit") # <<>>
                        /\ q # <<>> => Tail(q) \in Seq(S)
  BY <1>1
<1> QED BY <1>1, <1>2, <1>3

LEMMA InitIInv == Init => IInv
<1> SUFFICES ASSUME Init PROVE IInv
  OBVIOUS
<1>1. QueuesOK
  <2>1. <<>> \in Seq(Contents) /\ Len(<<>>) = 0
    OBVIOUS
  <2> QED BY <2>1, MessageLists DEF Init, QueuesOK
<1>2. PlainOK
  BY DEF Init, PlainOK, Contents, Calls, Holding, Texts
<1>3. LockInv
  BY DEF Init, LockInv, Holding
<1>4. ArriveInv
  BY DEF Init, ArriveInv
<1> QED BY <1>1, <1>2, <1>3, <1>4 DEF IInv

LEMMA QueuesStep == ASSUME QueuesOK, PlainOK, [Next]_vars PROVE QueuesOK'
<1> USE DEF QueuesOK
<1>1. CASE StartWatch
  BY <1>1, MessageLists DEF StartWatch
<1>2. CASE TakeMessage
  BY <1>2, MessageLists DEF TakeMessage
<1>3. CASE Poll
  BY <1>3 DEF Poll
<1>4. CASE OpenToRead
  BY <1>4 DEF OpenToRead
<1>5. CASE ReadAndClose
  BY <1>5 DEF ReadAndClose
<1>6. CASE Send
  <2>1. PICK S : S = Contents /\ got \in S /\ channel \in Seq(S)
    BY DEF PlainOK
  <2>2. Append(channel, got) \in Seq(S) /\ Len(Append(channel, got)) = Len(channel) + 1
    BY <2>1
  <2>3. Len(channel) \in Nat /\ ChannelSize \in Nat
    BY <2>1
  <2>4. UNCHANGED queue /\ (channel' = channel \/ (Len(channel) < ChannelSize /\ channel' = Append(channel, got)))
    BY <1>6 DEF Send
  <2>5. CASE channel' = channel
    BY <2>4, <2>5
  <2>6. CASE Len(channel) < ChannelSize /\ channel' = Append(channel, got)
    <3>1. Len(channel') <= ChannelSize
      BY <2>2, <2>3, <2>6
    <3>2. channel' \in Seq(Contents)
      BY <2>1, <2>2, <2>6
    <3> QED BY <2>4, <3>1, <3>2
  <2> QED BY <2>4, <2>5, <2>6
<1>7. CASE EndWatch
  BY <1>7, MessageLists DEF EndWatch
<1>8. CASE Consume
  BY <1>8 DEF Consume
<1>9. CASE Cancel
  BY <1>9, MessageLists DEF Cancel
<1>10. ASSUME NEW w \in Writers, Write(w) PROVE QueuesOK'
  BY <1>10, MessageLists DEF Write, LockToWrite, OpenToWrite, EmptyClipboard, SetText, CloseAndUnlock, Notified
<1>11. ASSUME NEW t \in Copies, Copy(t) PROVE QueuesOK'
  BY <1>11, MessageLists DEF Copy, Notified
<1>12. CASE OtherOpens \/ OtherCloses \/ UNCHANGED vars
  BY <1>12 DEF OtherOpens, OtherCloses
<1> QED BY <1>1, <1>2, <1>3, <1>4, <1>5, <1>6, <1>7, <1>8, <1>9, <1>10, <1>11, <1>12
        DEF Next, Watching

LEMMA AnswersAreTexts == Copies \subseteq Contents /\ \A w \in Writers : Answer[w] \in Contents
BY DEF Contents, Texts

\* The goroutine of Watch and the others move between their calls; a writer moves one
\* call on, with the mutex and the clipboard in step.
LEMMA PlainStep == ASSUME PlainOK, LockInv, [Next]_vars PROVE PlainOK' /\ LockInv'
<1> USE DEF PlainOK, LockInv, Holding, Calls
<1>1. CASE StartWatch
  BY <1>1 DEF StartWatch
<1>2. CASE TakeMessage
  BY <1>2 DEF TakeMessage
<1>3. CASE Poll
  BY <1>3 DEF Poll
<1>4. CASE OpenToRead /\ ~ crashed
  BY <1>4 DEF OpenToRead
<1>5. CASE ReadAndClose /\ ~ crashed
  BY <1>5 DEF ReadAndClose, Contents
<1>6. CASE Send
  BY <1>6 DEF Send
<1>7. CASE EndWatch
  BY <1>7 DEF EndWatch
<1>8. CASE Consume
  BY <1>8 DEF Consume
<1>9. CASE Cancel
  BY <1>9 DEF Cancel
<1>10. ASSUME NEW w \in Writers, LockToWrite(w) PROVE PlainOK' /\ LockInv'
  BY <1>10 DEF LockToWrite, Goto
<1>11. ASSUME NEW w \in Writers, OpenToWrite(w) PROVE PlainOK' /\ LockInv'
  BY <1>11 DEF OpenToWrite, Goto
<1>12. ASSUME NEW w \in Writers, EmptyClipboard(w) PROVE PlainOK' /\ LockInv'
  BY <1>12 DEF EmptyClipboard, Goto, Contents
<1>13. ASSUME NEW w \in Writers, SetText(w) PROVE PlainOK' /\ LockInv'
  BY <1>13, AnswersAreTexts DEF SetText, Goto, Contents
<1>14. ASSUME NEW w \in Writers, CloseAndUnlock(w) PROVE PlainOK' /\ LockInv'
  BY <1>14 DEF CloseAndUnlock, Goto, Fresh
<1>15. ASSUME NEW t \in Copies, Copy(t) PROVE PlainOK' /\ LockInv'
  BY <1>15, AnswersAreTexts DEF Copy, Fresh
<1>16. CASE OtherOpens \/ OtherCloses \/ UNCHANGED vars
  BY <1>16 DEF OtherOpens, OtherCloses
<1> QED BY <1>1, <1>2, <1>3, <1>4, <1>5, <1>6, <1>7, <1>8, <1>9, <1>10, <1>11, <1>12,
           <1>13, <1>14, <1>15, <1>16 DEF Next, Watching, Write

LEMMA ArriveStep ==
  ASSUME QueuesOK, PlainOK, LockInv, ArriveInv, [Next]_vars
  PROVE  ArriveInv'
<1> USE DEF ArriveInv
<1>1. CASE StartWatch
  BY <1>1 DEF StartWatch, LockInv
<1>2. CASE TakeMessage
  BY <1>2 DEF TakeMessage
<1>3. CASE Poll
  BY <1>3 DEF Poll
<1>4. CASE OpenToRead /\ ~ crashed
  BY <1>4 DEF OpenToRead, PlainOK, LockInv
<1>5. CASE ReadAndClose /\ ~ crashed
  BY <1>5 DEF ReadAndClose, LockInv
<1>6. CASE Send
  BY <1>6 DEF Send, LockInv
<1>7. CASE EndWatch
  BY <1>7 DEF EndWatch
<1>8. CASE Consume
  BY <1>8 DEF Consume
<1>9. CASE Cancel
  BY <1>9, MessageLists DEF Cancel, QueuesOK
<1>10. ASSUME NEW w \in Writers, Write(w), ~ crashed PROVE ArriveInv'
  <2>1. CASE LockToWrite(w) \/ OpenToWrite(w)
    BY <1>10, <2>1 DEF LockToWrite, OpenToWrite
  <2>2. CASE EmptyClipboard(w)
    BY <1>10, <2>2 DEF EmptyClipboard
  <2>3. CASE SetText(w)
    BY <1>10, <2>3 DEF SetText, Goto, PlainOK, Holding
  <2>4. CASE CloseAndUnlock(w)
    BY <1>10, <2>4, MessageLists DEF CloseAndUnlock, Notified, Fresh, QueuesOK
  <2> QED BY <1>10, <2>1, <2>2, <2>3, <2>4 DEF Write
<1>11. ASSUME NEW t \in Copies, Copy(t), ~ crashed PROVE ArriveInv'
  BY <1>11, MessageLists DEF Copy, Notified, Fresh, QueuesOK
<1>12. CASE OtherOpens \/ OtherCloses \/ UNCHANGED vars
  BY <1>12 DEF OtherOpens, OtherCloses, PlainOK, LockInv
<1> QED BY <1>1, <1>2, <1>3, <1>4, <1>5, <1>6, <1>7, <1>8, <1>9, <1>10, <1>11, <1>12
        DEF Next, Watching

LEMMA Invariance == SafeSpec => []IInv
<1>1. IInv /\ [Next]_vars => IInv'
  BY QueuesStep, PlainStep, ArriveStep DEF IInv
<1> QED BY InitIInv, <1>1, PTL DEF SafeSpec

-------------------------------------------------------------------------------
(* The theorems.                                                              *)

\* Every variable keeps its type, the channel its capacity, and a writer has the
\* clipboard open exactly between its OpenClipboard and its CloseClipboard.
THEOREM TypeCorrect == SafeSpec => []TypeOK
BY Invariance, Halves, PTL DEF IInv

\* No text is lost to the daemon's own writes, although the window procedure takes no
\* mutex and gives up when the clipboard is open.
THEOREM LatestSent == SafeSpec => []LatestArrives
<1>1. IInv => LatestArrives
  BY DEF IInv, ArriveInv, LockInv, PlainOK, LatestArrives, Quiet
<1> QED BY Invariance, <1>1, PTL

\* No Write fails because of another one.
THEOREM NoCollision == SafeSpec => WritesDoNotCollide
<1>1. IInv /\ [Next]_vars =>
        [\A w \in Writers : pc[w] = "open" /\ pc'[w] = "error" => owner \notin Writers]_vars
  <2> SUFFICES ASSUME IInv, NEW w \in Writers, pc[w] = "open", owner \in Writers
               PROVE  FALSE
    OBVIOUS
  <2>1. mu = w /\ pc[owner] \in Holding
    BY DEF IInv, LockInv, PlainOK
  <2>2. mu = owner
    BY <2>1 DEF IInv, LockInv
  <2> QED BY <2>1, <2>2 DEF Holding
<1> QED BY Invariance, <1>1, PTL DEF SafeSpec, WritesDoNotCollide
===============================================================================

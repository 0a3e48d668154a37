-------------------------- MODULE TcpServerProofs --------------------------
(***************************************************************************)
(* The server uses its semaphore as the semaphore's specification asks,    *)
(* and so runs at most MaxConnections handlers, for any number of          *)
(* connections and parts of requests and replies.                          *)
(***************************************************************************)
EXTENDS TcpServer, FiniteSetTheorems, SequenceTheorems, TLAPS

SemP == INSTANCE SemaphoreProofs WITH Threads <- Conns, Limit <- MaxConnections

\* A connection is somewhere once it has been dialled.
PlaceInv ==
  /\ conn \in [Conns -> {"none", "queued", "accepted"} \cup Serving \cup Closed]
  /\ cpc \in [Conns -> {"off", "prompt", "sent", "gone"}]
  /\ \A c \in Conns : cpc[c] = "off" <=> conn[c] = "none"

\* A connection is being served exactly while it has its slot.
SlotInv == \A c \in Conns : conn[c] \in Serving <=> spc[c] = "in"

IInv == SemP!IInv /\ PlaceInv /\ SlotInv

\* Every step of the server is a step of the semaphore or leaves it alone.
LEMMA SemStep == [Next]_vars => [SemP!Next]_semVars
<1> SUFFICES ASSUME Next PROVE [SemP!Next]_semVars
  BY DEF vars, semVars
<1>1. ASSUME NEW c \in Conns, AcquireSlot(c) PROVE SemP!Next
  BY <1>1 DEF AcquireSlot, Sem!Acquire, Sem!Wake, Sem!TakeOrWait,
    SemP!Next, SemP!Acquire, SemP!Wake, SemP!TakeOrWait
<1>2. ASSUME NEW c \in Conns, ReleaseSlot(c) PROVE SemP!Next
  BY <1>2 DEF ReleaseSlot, Sem!Release, Sem!Signal, SemP!Next, SemP!Release,
    SemP!Signal
<1>3. ASSUME NEW c \in Conns, HandleConnections(c) \/ Client(c)
      PROVE  ReleaseSlot(c) \/ UNCHANGED semVars
  BY <1>3 DEF HandleConnections, Client, Read, ReadFails, Handle,
    HandlePanics, Write, WriteFails, Close, Dial, Send, Receive, Timeout,
    ConnectionLost, Leave
<1>4. CASE Shutdown \/ HandleClientQueries
  BY <1>4 DEF Shutdown, HandleClientQueries, CloseListener, WaitGroupDone
<1>5. CASE AcceptLoop
  BY <1>1, <1>5 DEF AcceptLoop, AcceptClosed, Accept
<1> QED
  BY <1>2, <1>3, <1>4, <1>5 DEF Next

\* Initially no connection has a slot.
LEMMA InitIInv == Init => IInv
<1> SUFFICES ASSUME Init PROVE IInv
  OBVIOUS
<1>1. MaxConnections \in Nat \ {0}
  BY TcpAssumption
<1>2. SemP!Init
  BY DEF Init, Sem!Init, SemP!Init
<1>3. SemP!IInv
  BY <1>1, <1>2, SemP!InitIInv
<1>4. PlaceInv /\ SlotInv
  BY DEF Init, Sem!Init, PlaceInv, SlotInv, Serving
<1> QED
  BY <1>3, <1>4 DEF IInv

\* Connections move as they are dialled, accepted, served and closed.
LEMMA PlaceStep == PlaceInv /\ [Next]_vars => PlaceInv'
<1> SUFFICES ASSUME PlaceInv, [Next]_vars PROVE PlaceInv'
  OBVIOUS
<1> USE DEF Goto, PlaceInv, Serving, Closed, clientVars
<1>1. ASSUME NEW c \in Conns, HandleConnections(c) PROVE PlaceInv'
  BY <1>1 DEF HandleConnections, Read, ReadFails, Handle, HandlePanics,
    Write, WriteFails, Close, ReleaseSlot
<1>2. ASSUME NEW c \in Conns, Client(c) PROVE PlaceInv'
  BY <1>2 DEF Client, Dial, Send, Receive, Timeout, ConnectionLost, Leave
<1>3. ASSUME NEW c \in Conns, Accept(c) \/ AcquireSlot(c) PROVE PlaceInv'
  BY <1>3 DEF Accept, AcquireSlot
<1>4. CASE \/ Shutdown \/ CloseListener \/ WaitGroupDone \/ AcceptClosed
           \/ UNCHANGED vars
  BY <1>4 DEF Shutdown, CloseListener, WaitGroupDone, AcceptClosed, vars
<1> QED
  BY <1>1, <1>2, <1>3, <1>4 DEF Next, HandleClientQueries, AcceptLoop

\* A slot changes hands only where the connection enters or leaves Serving.
LEMMA SlotStep == IInv /\ [Next]_vars => SlotInv'
<1> SUFFICES ASSUME IInv, [Next]_vars PROVE SlotInv'
  OBVIOUS
<1> USE DEF IInv, Goto
<1>0. /\ spc \in [Conns -> {"out", "wait", "woken", "in"}]
      /\ waiters # <<>> => /\ Head(waiters) \in Conns
                           /\ spc[Head(waiters)] = "wait"
  BY DEF SemP!IInv, SemP!TypeOK, SemP!WaitersInv
<1>1. ASSUME NEW c \in Conns, AcquireSlot(c) PROVE SlotInv'
  BY <1>0, <1>1 DEF AcquireSlot, Sem!Acquire, Sem!Wake, Sem!TakeOrWait,
    PlaceInv, SlotInv, Serving, Closed, clientVars
<1>2. ASSUME NEW c \in Conns, ReleaseSlot(c) PROVE SlotInv'
  BY <1>0, <1>2 DEF ReleaseSlot, Sem!Release, Sem!Signal, PlaceInv, SlotInv,
    Serving, Closed, clientVars
<1>3. ASSUME NEW c \in Conns, HandleConnections(c), ~ReleaseSlot(c)
      PROVE  SlotInv'
  BY <1>3 DEF HandleConnections, Read, ReadFails, Handle, HandlePanics,
    Write, WriteFails, Close, semVars, PlaceInv, SlotInv, Serving, Closed,
    clientVars
<1>4. ASSUME NEW c \in Conns, Accept(c) \/ Client(c) PROVE SlotInv'
  BY <1>4 DEF Accept, Client, Dial, Send, Receive, Timeout, ConnectionLost,
    Leave, semVars, PlaceInv, SlotInv, Serving, Closed, clientVars
<1>5. CASE CloseListener
  BY <1>5 DEF CloseListener, semVars, PlaceInv, SlotInv, Serving, Closed,
    clientVars
<1>6. CASE Shutdown \/ WaitGroupDone \/ AcceptClosed \/ UNCHANGED vars
  BY <1>6 DEF Shutdown, WaitGroupDone, AcceptClosed, vars, semVars,
    clientVars, PlaceInv, SlotInv
<1> QED
  BY <1>1, <1>2, <1>3, <1>4, <1>5, <1>6
    DEF Next, AcceptLoop, HandleClientQueries

\* Every step keeps the invariant.
LEMMA NextIInv == IInv /\ [Next]_vars => IInv'
<1> SUFFICES ASSUME IInv, [Next]_vars PROVE IInv'
  OBVIOUS
<1>1. MaxConnections \in Nat \ {0}
  BY TcpAssumption
<1>2. [SemP!Next]_(SemP!semVars)
  BY SemStep DEF semVars, SemP!semVars
<1>3. SemP!IInv'
  BY <1>1, <1>2, SemP!NextIInv DEF IInv
<1> QED
  BY <1>3, PlaceStep, SlotStep DEF IInv

\* Accept loop and handlers together use the semaphore as its specification
\* says: the detailed server implements the semaphore.
THEOREM ImplementsSemaphore == Spec => Sem!Spec
<1>1. Init => Sem!Init
  BY DEF Init
<1>2. [Next]_vars => [Sem!Next]_(Sem!semVars)
  BY SemStep DEF semVars, Sem!semVars, Sem!Next, SemP!Next, Sem!Acquire,
    SemP!Acquire, Sem!Wake, SemP!Wake, Sem!Release, SemP!Release,
    Sem!TakeOrWait, SemP!TakeOrWait, Sem!Signal, SemP!Signal
<1> QED
  BY <1>1, <1>2, PTL DEF Spec, Sem!Spec

\* At most max_connections handlers run, whatever clients and handlers do.
THEOREM HandlersAreBounded == Spec => []HandlersBounded
<1>1. IInv => HandlersBounded
  <2> SUFFICES ASSUME IInv PROVE HandlersBounded
    OBVIOUS
  <2>1. {c \in Conns : conn[c] \in Serving} = SemP!Inside
    BY DEF IInv, SlotInv, SemP!Inside
  <2>2. Cardinality(SemP!Inside) <= MaxConnections
    BY Zenon DEF IInv, SemP!IInv, SemP!CountInv, SemP!Cardinality, Cardinality,
      SemP!IsFiniteSet, IsFiniteSet
  <2> QED
    BY <2>1, <2>2 DEF HandlersBounded
<1> QED
  BY <1>1, InitIInv, NextIInv, PTL DEF Spec

-----------------------------------------------------------------------------
(***************************************************************************)
(* Types.                                                                  *)
(***************************************************************************)

\* One Read cuts what has arrived in two.
LEMMA Cut ==
  ASSUME NEW S, NEW q \in Seq(S), NEW n \in Nat \ {0}, n <= Len(q)
  PROVE  /\ SubSeq(q, 1, n) \in Seq(S)
         /\ SubSeq(q, 1, n) # <<>>
         /\ SubSeq(q, n + 1, Len(q)) \in Seq(S)
<1>1. Len(q) \in Nat /\ \A i \in 1..Len(q) : q[i] \in S
  OBVIOUS
<1>2. SubSeq(q, 1, n) \in Seq(S) /\ Len(SubSeq(q, 1, n)) = n
  BY <1>1, SubSeqProperties
<1>3. SubSeq(q, n + 1, Len(q)) \in Seq(S)
  BY <1>1, SubSeqProperties
<1> QED
  BY <1>2, <1>3

\* What is left of TypeOK beside the semaphore and SlotInv.
DataOK ==
  /\ cancelled \in BOOLEAN
  /\ listening \in BOOLEAN
  /\ mpc \in {"ctx", "wg", "returned"}
  /\ apc \in {"accept", "acquire", "exit"}
  /\ query \in [Conns -> Seq(1..MaxParts)]
  /\ inbox \in [Conns -> Seq(1..MaxParts)]
  /\ outbox \in [Conns -> Seq(Seq(1..MaxParts))]
  /\ sent \in [Conns -> 0..MaxParts]
  /\ answer \in [Conns -> Seq(Seq(1..MaxParts)) \cup {None}]
  /\ late \subseteq Conns
  /\ long \subseteq Conns

\* A sequence with others behind it.
LEMMA Extended ==
  ASSUME NEW S, NEW q \in Seq(S), NEW k \in Nat, NEW r \in [1..k -> S]
  PROVE  /\ q \o r \in Seq(S)
         /\ q = <<>> /\ k = 1 => q \o r = <<r[1]>>
<1>1. r \in Seq(S) /\ Len(r) = k
  BY SeqDef, LenProperties
<1>2. q \o r \in Seq(S) /\ Len(q \o r) = Len(q) + Len(r)
  BY <1>1, ConcatProperties
<1>3. ASSUME q = <<>>, k = 1 PROVE q \o r = <<r[1]>>
  <2>1. q \o r = r
    BY <1>1, <1>3, ConcatEmptySeq
  <2>2. r[1] \in S /\ <<r[1]>> \in Seq(S) /\ Len(<<r[1]>>) = 1
    BY <1>3
  <2>3. \A i \in 1..1 : r[i] = <<r[1]>>[i]
    OBVIOUS
  <2>4. r = <<r[1]>>
    BY <1>1, <1>3, <2>2, <2>3, SeqEqual
  <2> QED
    BY <2>1, <2>4
<1> QED
  BY <1>2, <1>3

\* Reading, writing and sending keep the types of buffers and counters.
LEMMA DataStep == DataOK /\ [Next]_vars => DataOK'
<1> SUFFICES ASSUME DataOK, [Next]_vars PROVE DataOK'
  OBVIOUS
<1> USE DEF mainVars, netVars, clientVars
<1>1. ASSUME NEW c \in Conns, Read(c) PROVE DataOK'
  <2>1. PICK n \in 1..BufferSize :
          /\ n <= Len(inbox[c])
          /\ query' = [query EXCEPT ![c] = SubSeq(inbox[c], 1, n)]
          /\ inbox' = [inbox EXCEPT ![c] = SubSeq(@, n + 1, Len(@))]
    BY <1>1 DEF Read
  <2>2. n \in Nat \ {0} /\ inbox[c] \in Seq(1..MaxParts)
    BY TcpAssumption DEF DataOK
  <2>3. /\ SubSeq(inbox[c], 1, n) \in Seq(1..MaxParts)
        /\ SubSeq(inbox[c], n + 1, Len(inbox[c])) \in Seq(1..MaxParts)
    BY <2>1, <2>2, Cut
  <2>4. /\ query' \in [Conns -> Seq(1..MaxParts)]
        /\ inbox' \in [Conns -> Seq(1..MaxParts)]
    BY <2>1, <2>3 DEF DataOK
  <2> QED
    BY <1>1, <2>4 DEF Read, DataOK
<1>2. ASSUME NEW c \in Conns, Receive(c) PROVE DataOK'
  <2>1. PICK n \in 1..MaxMessageSize :
          /\ n <= Len(outbox[c])
          /\ answer' = [answer EXCEPT ![c] = SubSeq(outbox[c], 1, n)]
          /\ outbox' = [outbox EXCEPT ![c] = SubSeq(@, n + 1, Len(@))]
    BY <1>2 DEF Receive
  <2> DEFINE Replies == Seq(1..MaxParts)
  <2>2. n \in Nat \ {0} /\ outbox[c] \in Seq(Replies)
    BY TcpAssumption DEF DataOK
  <2> HIDE DEF Replies
  <2>3. /\ SubSeq(outbox[c], 1, n) \in Seq(Replies)
        /\ SubSeq(outbox[c], n + 1, Len(outbox[c])) \in Seq(Replies)
    BY <2>1, <2>2, Cut
  <2>4. /\ answer' \in [Conns -> Seq(Replies) \cup {None}]
        /\ outbox' \in [Conns -> Seq(Replies)]
    BY <2>1, <2>3 DEF DataOK, Replies
  <2> QED
    BY <1>2, <2>4 DEF Receive, DataOK, Replies
<1>3. ASSUME NEW c \in Conns, NEW k \in 1..MaxParts, Send(c, k) PROVE DataOK'
  <2> DEFINE r == [i \in 1..k |-> sent[c] + i]
  <2>1. /\ k \in Nat /\ sent[c] \in Nat /\ sent[c] + k <= MaxParts
        /\ sent'[c] = sent[c] + k
    BY <1>3, TcpAssumption DEF Send, DataOK
  <2>2. r \in [1..k -> 1..MaxParts]
    BY <2>1, TcpAssumption
  <2>3. sent' \in [Conns -> 0..MaxParts]
    BY <1>3, <2>1, TcpAssumption DEF Send, DataOK
  <2>4. answer' \in [Conns -> Seq(Seq(1..MaxParts)) \cup {None}]
    BY <1>3 DEF Send, DataOK
  <2> HIDE DEF r
  <2>5. inbox[c] \in Seq(1..MaxParts)
    BY DEF DataOK
  <2>6. inbox[c] \o r \in Seq(1..MaxParts)
    BY <2>1, <2>2, <2>5, Extended
  <2>7. inbox' = inbox \/ inbox' = [inbox EXCEPT ![c] = @ \o r]
    BY <1>3 DEF Send, r
  <2>8. inbox' \in [Conns -> Seq(1..MaxParts)]
    BY <2>6, <2>7 DEF DataOK
  <2> QED
    BY <1>3, <2>3, <2>4, <2>8 DEF Send, DataOK
<1>4. ASSUME NEW c \in Conns, Write(c) PROVE DataOK'
  <2> DEFINE Replies == Seq(1..MaxParts)
  <2>1. PICK k \in 1..ReplyParts :
          /\ outbox' = [outbox EXCEPT ![c] = @ \o [i \in 1..k |-> query[c]]]
          /\ long' = IF k = 1 THEN long ELSE long \cup {c}
    BY <1>4 DEF Write
  <2>2. k \in Nat
    BY TcpAssumption
  <2>3. outbox[c] \in Seq(Replies) /\ query[c] \in Replies
    BY DEF DataOK
  <2> HIDE DEF Replies
  <2>4. [i \in 1..k |-> query[c]] \in [1..k -> Replies]
    BY <2>3
  <2>5. outbox[c] \o [i \in 1..k |-> query[c]] \in Seq(Replies)
    BY <2>2, <2>3, <2>4, Extended
  <2>6. outbox' \in [Conns -> Seq(Replies)]
    BY <2>1, <2>5 DEF DataOK, Replies
  <2>7. query' \in [Conns -> Seq(1..MaxParts)]
    BY <1>4, EmptySeq DEF Write, DataOK
  <2> QED
    BY <1>4, <2>1, <2>6, <2>7 DEF Write, DataOK, Replies
<1>5. ASSUME NEW c \in Conns,
             \/ ReadFails(c) \/ Handle(c) \/ HandlePanics(c)
             \/ WriteFails(c) \/ ReleaseSlot(c) \/ Dial(c) \/ Timeout(c)
      PROVE  DataOK'
  BY <1>5 DEF ReadFails, Handle, HandlePanics, WriteFails, ReleaseSlot, Dial,
    Timeout, DataOK
<1>6. ASSUME NEW c \in Conns, Close(c) \/ ConnectionLost(c) \/ Leave(c)
      PROVE  DataOK'
  <2>1. CASE Close(c)
    <3>1. /\ query' \in [Conns -> Seq(1..MaxParts)]
          /\ inbox' \in [Conns -> Seq(1..MaxParts)]
      BY <2>1, EmptySeq DEF Close, DataOK
    <3> QED
      BY <2>1, <3>1 DEF Close, DataOK
  <2>2. CASE ConnectionLost(c) \/ Leave(c)
    <3>1. outbox' \in [Conns -> Seq(Seq(1..MaxParts))]
      BY <2>2, EmptySeq DEF ConnectionLost, Leave, DataOK
    <3> QED
      BY <2>2, <3>1 DEF ConnectionLost, Leave, DataOK
  <2> QED
    BY <1>6, <2>1, <2>2
<1>7. ASSUME NEW c \in Conns, Accept(c) \/ AcquireSlot(c) PROVE DataOK'
  BY <1>7 DEF Accept, AcquireSlot, DataOK
<1>8. CASE \/ Shutdown \/ CloseListener \/ WaitGroupDone \/ AcceptClosed
           \/ UNCHANGED vars
  BY <1>8 DEF Shutdown, CloseListener, WaitGroupDone, AcceptClosed, vars,
    DataOK
<1> QED
  BY <1>1, <1>2, <1>3, <1>4, <1>5, <1>6, <1>7, <1>8
    DEF Next, HandleClientQueries, AcceptLoop, HandleConnections, Client

\* Initially the channels are empty.
LEMMA InitData == Init => DataOK
<1> SUFFICES ASSUME Init PROVE DataOK
  OBVIOUS
<1>1. /\ query \in [Conns -> Seq(1..MaxParts)]
      /\ inbox \in [Conns -> Seq(1..MaxParts)]
  BY EmptySeq DEF Init
<1>2. outbox \in [Conns -> Seq(Seq(1..MaxParts))]
  BY EmptySeq DEF Init
<1>3. sent \in [Conns -> 0..MaxParts]
  BY TcpAssumption DEF Init
<1>4. answer \in [Conns -> Seq(Seq(1..MaxParts)) \cup {None}]
  BY DEF Init
<1> QED
  BY <1>1, <1>2, <1>3, <1>4 DEF Init, DataOK

\* The state of server, connections and clients keeps its types.
THEOREM TypeCorrect == Spec => []TypeOK
<1>1. IInv /\ DataOK => TypeOK
  BY DEF IInv, PlaceInv, DataOK, TypeOK, SemP!IInv, SemP!TypeOK, Sem!TypeOK
<1> QED
  BY <1>1, InitIInv, NextIInv, InitData, DataStep, PTL DEF Spec

-----------------------------------------------------------------------------
(***************************************************************************)
(* Replies.                                                                *)
(***************************************************************************)

\* The client's last request is in one place: not yet read by the server,
\* read by its handler, or answered.
OnItsWay(c) ==
  \/ inbox[c] = <<sent[c]>> /\ query[c] = <<>> /\ outbox[c] = <<>>
  \/ inbox[c] = <<>> /\ query[c] = <<sent[c]>> /\ outbox[c] = <<>>
  \/ inbox[c] = <<>> /\ query[c] = <<>> /\ outbox[c] = <<<<sent[c]>>>>

\* Nothing is on its way.
Idle(c) == inbox[c] = <<>> /\ query[c] = <<>> /\ outbox[c] = <<>>

\* A client that has always waited for its replies, all messages being of
\* one part, has at most one request under way.  Once the server has closed the connection, all that can be
\* left of it is its reply.
ChannelInv(c) ==
  /\ cpc[c] = "off" => Idle(c)
  /\ cpc[c] = "prompt" =>
       outbox[c] = <<>> /\ (conn[c] \notin Closed => Idle(c))
  /\ cpc[c] = "sent" =>
       /\ outbox[c] \in {<<>>, <<<<sent[c]>>>>}
       /\ conn[c] \notin Closed => OnItsWay(c)
  /\ answer[c] # None => answer[c] = <<<<sent[c]>>>>

\* A handler that is to answer has a request to answer.
ReplyInv ==
  /\ \A c \in Conns : conn[c] \in {"handle", "write"} => query[c] # <<>>
  /\ \A c \in Conns \ (late \cup long) : ChannelInv(c)

\* What the invariant says of c, whatever its history.
ReplyAt(c) ==
  /\ conn[c] \in {"handle", "write"} => query[c] # <<>>
  /\ c \notin late \cup long => ChannelInv(c)

\* The state of c's connection and of its client.
Local(c) ==
  <<conn[c], query[c], inbox[c], outbox[c], cpc[c], sent[c], answer[c]>>

\* A step that leaves c alone keeps what the invariant says of it.
LEMMA ReplyFrame ==
  ASSUME NEW c \in Conns, ReplyAt(c), Local(c)' = Local(c),
         late \subseteq late', long \subseteq long'
  PROVE  ReplyAt(c)'
<1>1. /\ conn'[c] = conn[c] /\ query'[c] = query[c] /\ inbox'[c] = inbox[c]
      /\ outbox'[c] = outbox[c] /\ cpc'[c] = cpc[c] /\ sent'[c] = sent[c]
      /\ answer'[c] = answer[c]
  BY DEF Local
<1> QED
  BY <1>1 DEF ReplyAt, ChannelInv, Idle, OnItsWay, Closed

\* Handlers and clients change the state of their own connection only.
LEMMA OthersAlone ==
  ASSUME PlaceInv, DataOK, NEW c \in Conns, NEW d \in Conns \ {c},
         HandleConnections(c) \/ Client(c) \/ Accept(c) \/ AcquireSlot(c)
  PROVE  Local(d)' = Local(d)
<1> USE DEF netVars, clientVars, Goto, Local, PlaceInv, DataOK
<1>1. CASE HandleConnections(c)
  BY <1>1 DEF HandleConnections, Read, ReadFails, Handle, HandlePanics,
    Write, WriteFails, Close, ReleaseSlot
<1>2. CASE Client(c)
  BY <1>2 DEF Client, Dial, Send, Receive, Timeout, ConnectionLost, Leave
<1>3. CASE Accept(c) \/ AcquireSlot(c)
  BY <1>3 DEF Accept, AcquireSlot
<1> QED
  BY <1>1, <1>2, <1>3

\* One Read of a channel that holds one message takes that message.
LEMMA CutOne ==
  ASSUME NEW S, NEW x \in S, NEW n \in Nat \ {0}, n <= Len(<<x>>)
  PROVE  /\ SubSeq(<<x>>, 1, n) = <<x>>
         /\ SubSeq(<<x>>, n + 1, Len(<<x>>)) = <<>>
<1>1. <<x>> \in Seq(S) /\ Len(<<x>>) = 1 /\ n = 1
  OBVIOUS
<1>2. /\ SubSeq(<<x>>, 1, 1) \in Seq(S)
      /\ Len(SubSeq(<<x>>, 1, 1)) = 1
      /\ SubSeq(<<x>>, 1, 1)[1] = x
  BY <1>1, SubSeqProperties
<1>3. SubSeq(<<x>>, 2, 1) \in Seq(S) /\ Len(SubSeq(<<x>>, 2, 1)) = 0
  BY <1>1, SubSeqProperties
<1>4. SubSeq(<<x>>, 1, 1) = <<x>>
  <2>1. \A i \in 1..1 : SubSeq(<<x>>, 1, 1)[i] = <<x>>[i]
    BY <1>2
  <2> QED
    BY <1>1, <1>2, <2>1, SeqEqual
<1>5. SubSeq(<<x>>, 2, 1) = <<>>
  BY <1>3
<1> QED
  BY <1>1, <1>4, <1>5

\* The server's Read: the request moves from the wire to the handler.
LEMMA ReadReply ==
  ASSUME PlaceInv, DataOK, NEW c \in Conns, ReplyAt(c), Read(c)
  PROVE  ReplyAt(c)'
<1>1. PICK n \in 1..BufferSize :
        /\ n <= Len(inbox[c])
        /\ query' = [query EXCEPT ![c] = SubSeq(inbox[c], 1, n)]
        /\ inbox' = [inbox EXCEPT ![c] = SubSeq(@, n + 1, Len(@))]
  BY DEF Read
<1>2. n \in Nat \ {0} /\ inbox[c] \in Seq(1..MaxParts)
  BY TcpAssumption DEF DataOK
<1>3. /\ conn[c] = "read" /\ conn'[c] = "handle"
      /\ query'[c] = SubSeq(inbox[c], 1, n)
      /\ inbox'[c] = SubSeq(inbox[c], n + 1, Len(inbox[c]))
      /\ outbox' = outbox /\ cpc' = cpc /\ sent' = sent /\ answer' = answer
      /\ late' = late /\ long' = long
  BY <1>1 DEF Read, Goto, PlaceInv, DataOK, clientVars
<1>4. query'[c] # <<>>
  BY <1>1, <1>2, <1>3, Cut
<1>5. Len(inbox[c]) # 0
  BY <1>1, <1>2
<1>6. ASSUME inbox[c] = <<sent[c]>>
      PROVE  query'[c] = <<sent[c]>> /\ inbox'[c] = <<>>
  BY <1>1, <1>2, <1>3, <1>6, CutOne
<1>7. inbox[c] # <<>>
  BY <1>5
<1>8. ASSUME c \notin late \cup long PROVE ChannelInv(c)'
  BY <1>3, <1>6, <1>7, <1>8
    DEF ReplyAt, ChannelInv, Idle, OnItsWay, Closed
<1> QED
  BY <1>3, <1>4, <1>8 DEF ReplyAt

\* The handler's Write: the request becomes its reply.
LEMMA WriteReply ==
  ASSUME PlaceInv, DataOK, NEW c \in Conns, ReplyAt(c), Write(c)
  PROVE  ReplyAt(c)'
<1>0. PICK k \in 1..ReplyParts :
        /\ outbox' = [outbox EXCEPT ![c] = @ \o [i \in 1..k |-> query[c]]]
        /\ long' = IF k = 1 THEN long ELSE long \cup {c}
  BY DEF Write
<1>1. /\ conn[c] = "write" /\ conn'[c] = "read"
      /\ query'[c] = <<>>
      /\ outbox'[c] = outbox[c] \o [i \in 1..k |-> query[c]]
      /\ inbox' = inbox /\ cpc' = cpc /\ sent' = sent /\ answer' = answer
      /\ late' = late
  BY <1>0 DEF Write, Goto, PlaceInv, DataOK
<1>2. ASSUME outbox[c] = <<>>, query[c] = <<sent[c]>>, k = 1
      PROVE  outbox'[c] = <<<<sent[c]>>>>
  <2> DEFINE Replies == Seq(1..MaxParts)
             r == [i \in 1..k |-> query[c]]
  <2>1. query[c] \in Replies /\ outbox[c] \in Seq(Replies)
    BY DEF DataOK
  <2> HIDE DEF Replies
  <2>2. k \in Nat /\ r \in [1..k -> Replies] /\ r[1] = query[c]
    BY <1>2, <2>1
  <2> HIDE DEF r
  <2>3. outbox[c] \o r = <<r[1]>>
    BY <1>2, <2>1, <2>2, Extended
  <2> QED
    BY <1>1, <1>2, <2>2, <2>3 DEF r
<1>3. query[c] # <<>>
  BY <1>1 DEF ReplyAt
<1>4. ASSUME c \notin (late \cup long)' PROVE ChannelInv(c)'
  <2>1. k = 1 /\ c \notin late \cup long
    BY <1>0, <1>1, <1>4
  <2> QED
    BY <1>1, <1>2, <1>3, <2>1
      DEF ReplyAt, ChannelInv, Idle, OnItsWay, Closed, PlaceInv
<1> QED
  BY <1>1, <1>4 DEF ReplyAt

\* The other steps of the handler neither make nor answer requests.
LEMMA HandlerReply ==
  ASSUME PlaceInv, DataOK, NEW c \in Conns, ReplyAt(c), HandleConnections(c)
  PROVE  ReplyAt(c)'
<1> USE DEF PlaceInv, DataOK, Goto, netVars, clientVars
<1>1. CASE ReadFails(c) \/ Handle(c) \/ HandlePanics(c) \/ WriteFails(c)
  BY <1>1 DEF ReadFails, Handle, HandlePanics, WriteFails, ReplyAt,
    ChannelInv, Idle, OnItsWay, Closed
<1>2. CASE Close(c)
  BY <1>2 DEF Close, ReplyAt, ChannelInv, Idle, OnItsWay, Closed, Serving
<1>3. CASE ReleaseSlot(c)
  BY <1>3 DEF ReleaseSlot, ReplyAt, ChannelInv, Idle, OnItsWay, Closed
<1> QED
  BY <1>1, <1>2, <1>3, ReadReply, WriteReply DEF HandleConnections

\* The client's Read: all there is to read is the reply to its request.
LEMMA ReceiveReply ==
  ASSUME PlaceInv, DataOK, NEW c \in Conns, ReplyAt(c), Receive(c)
  PROVE  ReplyAt(c)'
<1>1. PICK n \in 1..MaxMessageSize :
        /\ n <= Len(outbox[c])
        /\ answer' = [answer EXCEPT ![c] = SubSeq(outbox[c], 1, n)]
        /\ outbox' = [outbox EXCEPT ![c] = SubSeq(@, n + 1, Len(@))]
  BY DEF Receive
<1>2. n \in Nat \ {0} /\ outbox[c] \in Seq(Seq(1..MaxParts))
  BY TcpAssumption DEF DataOK
<1>3. /\ cpc[c] = "sent" /\ cpc'[c] = "prompt"
      /\ answer'[c] = SubSeq(outbox[c], 1, n)
      /\ outbox'[c] = SubSeq(outbox[c], n + 1, Len(outbox[c]))
      /\ inbox' = inbox /\ query' = query /\ sent' = sent /\ conn' = conn
      /\ late' = late /\ long' = long
  BY <1>1 DEF Receive, PlaceInv, DataOK
<1>4. Len(outbox[c]) # 0
  BY <1>1, <1>2
<1>5. outbox[c] # <<>>
  BY <1>4
<1>6. ASSUME outbox[c] = <<<<sent[c]>>>>
      PROVE  answer'[c] = <<<<sent[c]>>>> /\ outbox'[c] = <<>>
  <2>1. n <= Len(<<<<sent[c]>>>>)
    BY <1>1, <1>6
  <2>2. /\ SubSeq(<<<<sent[c]>>>>, 1, n) = <<<<sent[c]>>>>
        /\ SubSeq(<<<<sent[c]>>>>, n + 1, Len(<<<<sent[c]>>>>)) = <<>>
    BY <1>2, <2>1, CutOne
  <2> QED
    BY <1>3, <1>6, <2>2
<1>7. ASSUME c \notin late \cup long PROVE ChannelInv(c)'
  BY <1>3, <1>5, <1>6, <1>7
    DEF ReplyAt, ChannelInv, Idle, OnItsWay, Closed
<1> QED
  BY <1>3, <1>7 DEF ReplyAt

\* The other steps of the client: a request goes out only when nothing is
\* under way, and a client that gives up is late from then on.
LEMMA ClientReply ==
  ASSUME PlaceInv, DataOK, NEW c \in Conns, ReplyAt(c), Client(c)
  PROVE  ReplyAt(c)'
<1> USE DEF PlaceInv, DataOK
<1>1. CASE Dial(c)
  BY <1>1 DEF Dial, Goto, netVars, ReplyAt, ChannelInv, Idle, OnItsWay, Closed
<1>2. ASSUME NEW k \in 1..MaxParts, Send(c, k) PROVE ReplyAt(c)'
  <2> DEFINE r == [i \in 1..k |-> sent[c] + i]
  <2>1. /\ cpc[c] = "prompt" /\ cpc'[c] = "sent"
        /\ answer'[c] = None /\ sent'[c] = sent[c] + k
        /\ conn' = conn /\ query' = query /\ outbox' = outbox /\ late' = late
        /\ long' = IF k = 1 THEN long ELSE long \cup {c}
    BY <1>2 DEF Send
  <2>2. conn[c] \in {"handle", "write"} => query[c] # <<>>
    BY DEF ReplyAt
  <2>3. CASE k # 1
    BY <2>1, <2>2, <2>3 DEF ReplyAt
  <2>4. CASE k = 1 /\ conn[c] \in Closed
    BY <1>2, <2>1, <2>4 DEF ReplyAt, ChannelInv, Closed
  <2>5. CASE k = 1 /\ conn[c] \notin Closed
    <3>1. inbox'[c] = inbox[c] \o r
      BY <1>2, <2>5 DEF Send
    <3>2. inbox[c] \in Seq(Nat) /\ sent[c] \in Nat
      BY TcpAssumption DEF DataOK
    <3>3. r \in [1..k -> Nat] /\ r[1] = sent[c] + k /\ k \in Nat
      BY <2>5, <3>2
    <3> HIDE DEF r
    <3>4. inbox[c] = <<>> => inbox'[c] = <<sent'[c]>>
      BY <2>1, <2>5, <3>1, <3>2, <3>3, Extended
    <3> QED
      BY <2>1, <2>5, <3>4 DEF ReplyAt, ChannelInv, Idle, OnItsWay
  <2> QED
    BY <2>3, <2>4, <2>5
<1>3. CASE Timeout(c) \/ ConnectionLost(c) \/ Leave(c)
  BY <1>3 DEF Timeout, ConnectionLost, Leave, netVars, ReplyAt, ChannelInv,
    Idle, OnItsWay
<1> QED
  BY <1>1, <1>2, <1>3, ReceiveReply DEF Client

\* Every step keeps the invariant of the replies.
LEMMA ReplyStep == PlaceInv /\ DataOK /\ ReplyInv /\ [Next]_vars => ReplyInv'
<1> SUFFICES ASSUME PlaceInv, DataOK, ReplyInv, [Next]_vars,
                    NEW d \in Conns
             PROVE  ReplyAt(d)'
  BY DEF ReplyInv, ReplyAt
<1>0. \A c \in Conns : ReplyAt(c)
  BY DEF ReplyInv, ReplyAt
<1> USE DEF PlaceInv
<1>1. ASSUME NEW c \in Conns,
             HandleConnections(c) \/ Client(c) \/ Accept(c) \/ AcquireSlot(c)
      PROVE  ReplyAt(d)'
  <2>1. CASE c # d
    <3>1. late \subseteq late' /\ long \subseteq long'
      BY <1>1 DEF HandleConnections, Read, ReadFails, Handle, HandlePanics,
        Write, WriteFails, Close, ReleaseSlot, Client, Dial, Send, Receive,
        Timeout, ConnectionLost, Leave, Accept, AcquireSlot, clientVars
    <3> QED
      BY <1>0, <1>1, <2>1, <3>1, OthersAlone, ReplyFrame
  <2>2. CASE c = d /\ (HandleConnections(c) \/ Client(c))
    BY <1>0, <2>2, HandlerReply, ClientReply
  <2>3. CASE c = d /\ (Accept(c) \/ AcquireSlot(c))
    BY <1>0, <2>3 DEF Accept, AcquireSlot, Goto, netVars, clientVars,
      ReplyAt, ChannelInv, Idle, OnItsWay, Closed
  <2> QED
    BY <1>1, <2>1, <2>2, <2>3
<1>2. CASE CloseListener
  BY <1>0, <1>2 DEF CloseListener, netVars, clientVars, ReplyAt, ChannelInv,
    Idle, OnItsWay, Closed
<1>3. CASE Shutdown \/ WaitGroupDone \/ AcceptClosed \/ UNCHANGED vars
  BY <1>0, <1>3 DEF Shutdown, WaitGroupDone, AcceptClosed, vars, netVars,
    clientVars, ReplyAt, ChannelInv, Idle, OnItsWay, Closed
<1> QED
  BY <1>1, <1>2, <1>3 DEF Next, HandleClientQueries, AcceptLoop

\* Initially nothing is under way.
LEMMA InitReply == Init => ReplyInv
BY DEF Init, ReplyInv, ChannelInv, Idle

\* A client that has never timed out, and whose requests and replies are of
\* one part each, gets from every SendAndReceive that succeeds the reply to
\* the request it has just sent and nothing else: through closed connections,
\* panics and shutdown, though a Read could take more than one part.
THEOREM RepliesAreMatched == Spec => []RepliesMatch
<1>1. IInv => PlaceInv
  BY DEF IInv
<1>2. ReplyInv => RepliesMatch
  BY DEF ReplyInv, ChannelInv, RepliesMatch
<1> QED
  BY <1>1, <1>2, InitReply, InitData, InitIInv, NextIInv, DataStep, ReplyStep, PTL
    DEF Spec

=============================================================================

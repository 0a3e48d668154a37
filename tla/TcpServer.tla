----------------------------- MODULE TcpServer -----------------------------
(***************************************************************************)
(* TCPServer with the clients of the command line tool: the accept loop,   *)
(* which takes a slot of the semaphore for every connection, one handler   *)
(* goroutine per connection, the shutdown of HandleClientQueries, and      *)
(* TCPClient.SendAndReceive called from the prompt loop.                   *)
(*                                                                         *)
(* A connection carries bytes each way, in order but without boundaries:   *)
(* one Read returns the beginning of what has arrived, up to the size of   *)
(* the buffer, however it was written.  What no Read divides is a part.  A *)
(* request or a reply is one part, or several if the network has cut it or *)
(* it is longer than the buffer that reads it.  The parts of the requests  *)
(* are numbered on their connection; a query is the sequence of the parts  *)
(* that one Read has taken, and a part of a reply is the query it answers. *)
(***************************************************************************)
EXTENDS Integers, Sequences, FiniteSets

CONSTANTS
  Conns,            \* connections, each with its client; each is dialled once
  None,             \* no reply yet
  MaxConnections,   \* max_connections
  BufferSize,       \* bufferSize of the server, in parts
  MaxMessageSize,   \* maxMessageSize of the client, in parts
  MaxParts,         \* bound: parts of all requests of one client
  ReplyParts        \* bound: parts of one reply

ASSUME TcpAssumption ==
  /\ MaxConnections \in Nat \ {0}
  /\ BufferSize \in Nat \ {0}
  /\ MaxMessageSize \in Nat \ {0}
  /\ MaxParts \in Nat
  /\ ReplyParts \in Nat \ {0}

VARIABLES
  cancelled,  \* the context is done
  listening,  \* the listener is open
  mpc,        \* HandleClientQueries: ctx, wg (in wg.Wait), returned
  apc,        \* the accept loop: accept, acquire, exit
  count, waiters, spc,    \* the semaphore
  conn,       \* the connection, as seen by the server
  query,      \* what its handler has read
  inbox,      \* parts of requests the server has not read
  outbox,     \* parts of replies the client has not read
  cpc,        \* the client: off, prompt, sent, gone
  sent,       \* how many parts of requests it has sent
  answer,     \* what its last SendAndReceive returned
  late,       \* history: the clients that have given up on a reply
  long        \* history: those with a request or a reply of several parts

mainVars == <<cancelled, listening, mpc>>
semVars == <<count, waiters, spc>>
netVars == <<inbox, outbox>>
clientVars == <<cpc, sent, answer, late, long>>
vars == <<mainVars, apc, semVars, conn, query, netVars, clientVars>>

\* The loop acquires a slot for a connection, the connection's handler
\* releases it.
Sem == INSTANCE Semaphore WITH Threads <- Conns, Limit <- MaxConnections

\* queued     in the backlog of the listener
\* accepted   held by the accept loop, which needs a slot for it
\* read, handle, write   in the loop of HandleConnections
\* closing    in its deferred function
\* release    closed, in the deferred Release of the goroutine
\* reset      in the backlog when the listener was closed
Serving == {"read", "handle", "write", "closing", "release"}
Closed == {"release", "done", "reset"}

TypeOK ==
  /\ cancelled \in BOOLEAN
  /\ listening \in BOOLEAN
  /\ mpc \in {"ctx", "wg", "returned"}
  /\ apc \in {"accept", "acquire", "exit"}
  /\ Sem!TypeOK
  /\ conn \in [Conns -> {"none", "queued", "accepted"} \cup Serving \cup Closed]
  /\ query \in [Conns -> Seq(1..MaxParts)]
  /\ inbox \in [Conns -> Seq(1..MaxParts)]
  /\ outbox \in [Conns -> Seq(Seq(1..MaxParts))]
  /\ cpc \in [Conns -> {"off", "prompt", "sent", "gone"}]
  /\ sent \in [Conns -> 0..MaxParts]
  /\ answer \in [Conns -> Seq(Seq(1..MaxParts)) \cup {None}]
  /\ late \subseteq Conns
  /\ long \subseteq Conns

Init ==
  /\ cancelled = FALSE
  /\ listening = TRUE
  /\ mpc = "ctx"
  /\ apc = "accept"
  /\ Sem!Init
  /\ conn = [c \in Conns |-> "none"]
  /\ query = [c \in Conns |-> <<>>]
  /\ inbox = [c \in Conns |-> <<>>]
  /\ outbox = [c \in Conns |-> <<>>]
  /\ cpc = [c \in Conns |-> "off"]
  /\ sent = [c \in Conns |-> 0]
  /\ answer = [c \in Conns |-> None]
  /\ late = {}
  /\ long = {}

Goto(c, place) == conn' = [conn EXCEPT ![c] = place]

-----------------------------------------------------------------------------
(***************************************************************************)
(* HandleClientQueries and its accept loop.                                *)
(***************************************************************************)

Shutdown ==
  /\ ~cancelled
  /\ cancelled' = TRUE
  /\ UNCHANGED <<listening, mpc, apc, semVars, conn, query, netVars, clientVars>>

\* The system resets what is in the backlog of a listener that is closed.
CloseListener ==
  /\ mpc = "ctx"
  /\ cancelled
  /\ listening' = FALSE
  /\ mpc' = "wg"
  /\ conn' = [c \in Conns |-> IF conn[c] = "queued" THEN "reset" ELSE conn[c]]
  /\ UNCHANGED <<cancelled, apc, semVars, query, netVars, clientVars>>

\* The WaitGroup counts the accept loop only.
WaitGroupDone ==
  /\ mpc = "wg"
  /\ apc = "exit"
  /\ mpc' = "returned"
  /\ UNCHANGED <<cancelled, listening, apc, semVars, conn, query, netVars, clientVars>>

Accept(c) ==
  /\ apc = "accept"
  /\ conn[c] = "queued"
  /\ apc' = "acquire"
  /\ Goto(c, "accepted")
  /\ UNCHANGED <<mainVars, semVars, query, netVars, clientVars>>

\* Accept returns net.ErrClosed.
AcceptClosed ==
  /\ apc = "accept"
  /\ ~listening
  /\ apc' = "exit"
  /\ UNCHANGED <<mainVars, semVars, conn, query, netVars, clientVars>>

\* semaphore.Acquire(), perhaps in several steps, then the go statement.
AcquireSlot(c) ==
  /\ conn[c] = "accepted"
  /\ Sem!Acquire(c) \/ Sem!Wake(c)
  /\ IF spc'[c] = "in"
       THEN Goto(c, "read") /\ apc' = "accept"
       ELSE UNCHANGED <<conn, apc>>
  /\ UNCHANGED <<mainVars, query, netVars, clientVars>>

-----------------------------------------------------------------------------
(***************************************************************************)
(* HandleConnections.                                                      *)
(***************************************************************************)

\* Mutant: the handler goes on with what it has read before.
ReadAgain(c) ==
  /\ conn[c] = "read"
  /\ \E n \in 1..BufferSize :
       /\ n <= Len(inbox[c])
       /\ query' = [query EXCEPT ![c] = SubSeq(inbox[c], 1, n)]
  /\ Goto(c, "handle")
  /\ UNCHANGED <<mainVars, apc, semVars, netVars, clientVars>>

Read(c) ==
  /\ conn[c] = "read"
  /\ \E n \in 1..BufferSize :
       /\ n <= Len(inbox[c])
       /\ query' = [query EXCEPT ![c] = SubSeq(inbox[c], 1, n)]
       /\ inbox' = [inbox EXCEPT ![c] = SubSeq(@, n + 1, Len(@))]
  /\ Goto(c, "handle")
  /\ UNCHANGED <<mainVars, apc, semVars, outbox, clientVars>>

\* Mutant: without a read deadline, only the end of the client ends a Read.
ReadFailsNoDeadline(c) ==
  /\ conn[c] = "read"
  /\ cpc[c] = "gone"
  /\ Goto(c, "closing")
  /\ UNCHANGED <<mainVars, apc, semVars, query, netVars, clientVars>>

\* End of file or reset, when the client is gone; or the read deadline,
\* which the server always has: the initializer replaces a timeout of 0.
ReadFails(c) ==
  /\ conn[c] = "read"
  /\ cpc[c] = "gone" \/ inbox[c] = <<>>
  /\ Goto(c, "closing")
  /\ UNCHANGED <<mainVars, apc, semVars, query, netVars, clientVars>>

Handle(c) ==
  /\ conn[c] = "handle"
  /\ Goto(c, "write")
  /\ UNCHANGED <<mainVars, apc, semVars, query, netVars, clientVars>>

\* Mutant: the recovered panic gives the slot back, and the deferred
\* Release does so again.
HandlePanicsReleases(c) ==
  /\ conn[c] = "handle"
  /\ Goto(c, "closing")
  /\ count' = count - 1
  /\ UNCHANGED <<mainVars, apc, waiters, spc, query, netVars, clientVars>>

\* Mutant: Release is not deferred, and a panic skips it.
HandlePanicsKeepsSlot(c) ==
  /\ conn[c] = "handle"
  /\ Goto(c, "done")
  /\ UNCHANGED <<mainVars, apc, semVars, query, netVars, clientVars>>

\* The handler panics; the deferred function recovers.
HandlePanics(c) ==
  /\ conn[c] = "handle"
  /\ Goto(c, "closing")
  /\ UNCHANGED <<mainVars, apc, semVars, query, netVars, clientVars>>

\* Mutant: an answer that is an error is written where it is found, and
\* once more at the end of the loop.
WriteTwice(c) ==
  /\ conn[c] = "write"
  /\ outbox' = [outbox EXCEPT ![c] = @ \o <<query[c], query[c]>>]
  /\ Goto(c, "read")
  /\ query' = [query EXCEPT ![c] = <<>>]
  /\ UNCHANGED <<mainVars, apc, semVars, inbox, clientVars>>

\* The reply goes out, and the loop starts again.
Write(c) ==
  /\ conn[c] = "write"
  /\ \E k \in 1..ReplyParts :
       /\ outbox' = [outbox EXCEPT ![c] = @ \o [i \in 1..k |-> query[c]]]
       /\ long' = IF k = 1 THEN long ELSE long \cup {c}
  /\ Goto(c, "read")
  /\ query' = [query EXCEPT ![c] = <<>>]
  /\ UNCHANGED <<mainVars, apc, semVars, inbox, cpc, sent, answer, late>>

\* Writing to a client that is gone may fail.
WriteFails(c) ==
  /\ conn[c] = "write"
  /\ cpc[c] = "gone"
  /\ Goto(c, "closing")
  /\ UNCHANGED <<mainVars, apc, semVars, query, netVars, clientVars>>

\* The deferred connection.Close().  Requests not read are lost.
Close(c) ==
  /\ conn[c] = "closing"
  /\ Goto(c, "release")
  /\ query' = [query EXCEPT ![c] = <<>>]
  /\ inbox' = [inbox EXCEPT ![c] = <<>>]
  /\ UNCHANGED <<mainVars, apc, semVars, outbox, clientVars>>

\* The deferred semaphore.Release().
ReleaseSlot(c) ==
  /\ conn[c] = "release"
  /\ Sem!Release(c)
  /\ Goto(c, "done")
  /\ UNCHANGED <<mainVars, apc, query, netVars, clientVars>>

-----------------------------------------------------------------------------
(***************************************************************************)
(* TCPClient and the prompt loop of the command line tool.                 *)
(***************************************************************************)

\* NewTCPClient.  The system completes the connection: neither the accept
\* loop nor the semaphore has seen it yet.
Dial(c) ==
  /\ cpc[c] = "off"
  /\ listening
  /\ cpc' = [cpc EXCEPT ![c] = "prompt"]
  /\ Goto(c, "queued")
  /\ UNCHANGED <<mainVars, apc, semVars, query, netVars, sent, answer, late, long>>

\* The first half of SendAndReceive, with a request of k parts.  What is
\* sent to a closed connection is dropped.
Send(c, k) ==
  /\ cpc[c] = "prompt"
  /\ sent[c] + k <= MaxParts
  /\ sent' = [sent EXCEPT ![c] = @ + k]
  /\ inbox' = IF conn[c] \in Closed THEN inbox
              ELSE [inbox EXCEPT ![c] = @ \o [i \in 1..k |-> sent[c] + i]]
  /\ long' = IF k = 1 THEN long ELSE long \cup {c}
  /\ answer' = [answer EXCEPT ![c] = None]
  /\ cpc' = [cpc EXCEPT ![c] = "sent"]
  /\ UNCHANGED <<mainVars, apc, semVars, conn, query, outbox, late>>

\* The second half: one Read, whose result is returned, however much of the
\* reply it is.
Receive(c) ==
  /\ cpc[c] = "sent"
  /\ \E n \in 1..MaxMessageSize :
       /\ n <= Len(outbox[c])
       /\ answer' = [answer EXCEPT ![c] = SubSeq(outbox[c], 1, n)]
       /\ outbox' = [outbox EXCEPT ![c] = SubSeq(@, n + 1, Len(@))]
  /\ cpc' = [cpc EXCEPT ![c] = "prompt"]
  /\ UNCHANGED <<mainVars, apc, semVars, conn, query, inbox, sent, late, long>>

\* The idle timeout of the client.  The prompt loop reports it and goes on
\* with the same connection.
Timeout(c) ==
  /\ cpc[c] = "sent"
  /\ cpc' = [cpc EXCEPT ![c] = "prompt"]
  /\ late' = late \cup {c}
  /\ UNCHANGED <<mainVars, apc, semVars, conn, query, netVars, sent, answer, long>>

\* Write or Read fails because the server has closed the connection; a
\* reset takes unread replies with it.  The prompt loop goes on here, too.
ConnectionLost(c) ==
  /\ cpc[c] = "sent"
  /\ conn[c] \in Closed
  /\ cpc' = [cpc EXCEPT ![c] = "prompt"]
  /\ outbox' = [outbox EXCEPT ![c] = <<>>]
  /\ UNCHANGED <<mainVars, apc, semVars, conn, query, inbox, sent, answer, late, long>>

\* The user types exit, closes the input or interrupts the program.
Leave(c) ==
  /\ cpc[c] \in {"prompt", "sent"}
  /\ cpc' = [cpc EXCEPT ![c] = "gone"]
  /\ outbox' = [outbox EXCEPT ![c] = <<>>]
  /\ UNCHANGED <<mainVars, apc, semVars, conn, query, inbox, sent, answer, late, long>>

-----------------------------------------------------------------------------
AcceptLoop == AcceptClosed \/ \E c \in Conns : Accept(c) \/ AcquireSlot(c)

HandleClientQueries == CloseListener \/ WaitGroupDone

HandleConnections(c) ==
  \/ Read(c) \/ ReadFails(c)
  \/ Handle(c) \/ HandlePanics(c)
  \/ Write(c) \/ WriteFails(c)
  \/ Close(c) \/ ReleaseSlot(c)

Client(c) ==
  \/ Dial(c) \/ Receive(c)
  \/ \E k \in 1..MaxParts : Send(c, k)
  \/ Timeout(c) \/ ConnectionLost(c) \/ Leave(c)

Next ==
  \/ Shutdown \/ HandleClientQueries \/ AcceptLoop
  \/ \E c \in Conns : HandleConnections(c) \/ Client(c)

Spec == Init /\ [][Next]_vars

\* Goroutines run, and read deadlines expire.  Handlers answer while the
\* server runs (see Wal!WritersUnblock), but nobody answers a write that the
\* flusher has missed before it returned (see Wal!DrainsInFlight): once the
\* context is cancelled, a handler may wait for ever.  A client may do as it
\* likes, but for one thing that MaxParts says: it does not send for ever.
Fairness ==
  /\ WF_vars(HandleClientQueries)
  /\ WF_vars(AcceptLoop)
  /\ \A c \in Conns :
       WF_vars((cancelled => conn[c] # "handle") /\ HandleConnections(c))

FairSpec == Spec /\ Fairness

-----------------------------------------------------------------------------
\* No more handler goroutines than max_connections, through panics, failed
\* reads and writes, and shutdown: every handler gives its slot back once.
HandlersBounded ==
  Cardinality({c \in Conns : conn[c] \in Serving}) <= MaxConnections

\* A client that has never given up on a reply, and whose requests and
\* replies are in one part each, gets the reply to its own request, alone,
\* from every SendAndReceive that succeeds: what is read never belongs to an
\* earlier request, and never holds two replies.  For longer messages it is
\* not so: at both ends a Read takes the parts that are there for a whole
\* message, and the rest of a cut one answers the next request.
RepliesMatch ==
  \A c \in Conns \ (late \cup long) :
    answer[c] # None => answer[c] = <<<<sent[c]>>>>

\* A connection that the system has completed gets a handler, however many
\* came before it, or the server is shut down: every slot is given back, by
\* the deadline of a read if by nothing else, as no client sends for ever.
DialledIsServed ==
  \A c \in Conns : conn[c] = "queued" ~> conn[c] = "read" \/ cancelled

\* HandleClientQueries returns after the context is cancelled.  This fails
\* if the accept loop is waiting for the slot of a handler that nobody
\* answers any more (see Wal!DrainsInFlight).
ServerStops == cancelled ~> mpc = "returned"

\* That is the only thing that can keep it: if every handler is answered in
\* the end, HandleClientQueries returns, also when the accept loop is waiting
\* for a slot and the clients neither send nor leave.
ServerStopsIfAnswered ==
  (\A c \in Conns : conn[c] = "handle" ~> conn[c] # "handle") => ServerStops

=============================================================================

------------------------------- MODULE Server -------------------------------
(***************************************************************************)
(* The whole service: TcpServer with its clients, the database handler as  *)
(* its callback, and DurableLog in the place of the engine, which Wal is   *)
(* shown to implement.  The components run side by side; they meet where a *)
(* connection handler parses what it has read, hands a write to the engine *)
(* and waits for the verdict, and when the process ends.                   *)
(***************************************************************************)
EXTENDS Compute, FiniteSets

CONSTANTS
  Conns, None, MaxConnections, BufferSize, MaxMessageSize, MaxParts, ReplyParts,
  Lines         \* the lines users may type, each as the texts of its parts

Texts == Seq(Seq(Pieces)) \ {<<>>}

ASSUME ServerAssumption ==
  /\ IsFiniteSet(Conns)
  /\ MaxConnections \in Nat \ {0}
  /\ BufferSize \in Nat \ {0}
  /\ MaxMessageSize \in Nat \ {0}
  /\ MaxParts \in Nat
  /\ ReplyParts \in Nat \ {0}
  /\ Lines \subseteq Seq(Texts) \ {<<>>}

VARIABLES
  cancelled, listening, mpc, apc, count, waiters, spc, conn, query,
  inbox, outbox, cpc, sent, answer, late, long, \* TcpServer
  log, pend, verdict, acked,                    \* DurableLog
  up,       \* the server process runs
  line,     \* the texts of the parts that each client has sent
  told      \* the replies the handler has given, with their queries

tcpVars == <<cancelled, listening, mpc, apc, count, waiters, spc, conn, query,
             inbox, outbox, cpc, sent, answer, late, long>>
storeVars == <<log, pend, verdict, acked>>
vars == <<tcpVars, storeVars, up, line, told>>

Tcp == INSTANCE TcpServer

\* A write as the engine gets it, and where it came from; the latter is
\* history, and tells equal writes apart.
Record ==
  [conn : Conns, query : Seq(1..MaxParts),
   call : [call : {"Set", "Del"}, args : Seq(Seq(Pieces))]]

ASSUME NoneAssumption == None \notin Record

Store == INSTANCE DurableLog WITH Clients <- Conns, Records <- Record

Replies == {"OK", "DELETED", "failed SET", "failed DEL", "VALUE or NOT_FOUND",
            "refused"}

TypeOK ==
  /\ Tcp!TypeOK
  /\ log \in Seq(Seq(Record))
  /\ pend \in [Conns -> Record \cup {None}]
  /\ verdict \in [Conns -> {"none", "ok", "err"}]
  /\ acked \subseteq Record
  /\ up \in BOOLEAN
  /\ line \in [Conns -> Seq(Texts)]
  /\ told \in [Conns -> SUBSET (Seq(1..MaxParts) \X Replies)]

Init ==
  /\ Tcp!Init
  /\ Store!Init
  /\ up = TRUE
  /\ line = [c \in Conns |-> <<>>]
  /\ told = [c \in Conns |-> {}]

-----------------------------------------------------------------------------
(***************************************************************************)
(* DatabaseHandler, called with what one Read has returned.                *)
(***************************************************************************)

\* The text that the handler of c has read.
Text(c) == GlueAll([i \in DOMAIN query[c] |-> line[c][query[c][i]]])

CallOf(c) == DatabaseHandler(Text(c))

\* The write that it asks for, if its call is a Set or a Del.
WriteOf(c) == [conn |-> c, query |-> query[c], call |-> CallOf(c)]

\* The callback returns the reply.
Return(c, reply) ==
  /\ Tcp!Handle(c)
  /\ told' = [told EXCEPT ![c] = @ \cup {<<query[c], reply>>}]

\* A query that does not parse, is no command or has the wrong arguments.
Refuse(c) ==
  /\ up
  /\ conn[c] = "handle"
  /\ CallOf(c).call = "none"
  /\ Return(c, "refused")
  /\ UNCHANGED <<storeVars, up, line>>

\* Storage.Get.  Which value it finds is left open here.
Get(c) ==
  /\ up
  /\ conn[c] = "handle"
  /\ CallOf(c).call = "Get"
  /\ Return(c, "VALUE or NOT_FOUND")
  /\ UNCHANGED <<storeVars, up, line>>

\* Storage.Set or Storage.Del, down to the engine.
BeginWrite(c) ==
  /\ up
  /\ conn[c] = "handle"
  /\ CallOf(c).call \in {"Set", "Del"}
  /\ Store!Begin(c, WriteOf(c))
  /\ UNCHANGED <<tcpVars, up, line, told>>

\* Mutants: a failed write has an empty reply; the error of the storage
\* layer is logged and forgotten.
WriteReplyEmpty(call, result) ==
  IF result = "ok" THEN IF call = "Set" THEN "OK" ELSE "DELETED" ELSE ""

WriteReplyAlways(call, result) == IF call = "Set" THEN "OK" ELSE "DELETED"

\* The second halves of handleSet and handleDel.
WriteReply(call, result) ==
  IF result = "ok"
  THEN IF call = "Set" THEN "OK" ELSE "DELETED"
  ELSE IF call = "Set" THEN "failed SET" ELSE "failed DEL"

EndWrite(c) ==
  /\ up
  /\ conn[c] = "handle"
  /\ Store!Answer(c)
  /\ Return(c, WriteReply(pend[c].call.call, verdict[c]))
  /\ UNCHANGED <<up, line>>

-----------------------------------------------------------------------------
(***************************************************************************)
(* The other steps of the components.                                      *)
(***************************************************************************)

\* The engine logs writes in doubt, or gives verdicts.
Engine ==
  /\ up
  /\ \/ Store!Commit /\ Last(log') # <<>>
     \/ \E c \in Store!Undecided, v \in {"ok", "err"} : Store!Resolve({c}, v)
  /\ UNCHANGED <<tcpVars, up, line, told>>

Network ==
  /\ up
  /\ \/ Tcp!Shutdown \/ Tcp!HandleClientQueries \/ Tcp!AcceptLoop
     \/ \E c \in Conns :
          \/ Tcp!Read(c) \/ Tcp!ReadFails(c)
          \/ Tcp!Write(c) \/ Tcp!WriteFails(c)
          \/ Tcp!Close(c) \/ Tcp!ReleaseSlot(c)
  /\ UNCHANGED <<storeVars, up, line, told>>

\* SendAndReceive, with the line that the user has typed.
SendLine(c, parts) ==
  /\ Tcp!Send(c, Len(parts))
  /\ line' = [line EXCEPT ![c] = @ \o parts]
  /\ UNCHANGED <<storeVars, up, told>>

Client ==
  /\ \E c \in Conns :
       \/ Tcp!Dial(c) \/ Tcp!Receive(c)
       \/ Tcp!Timeout(c) \/ Tcp!ConnectionLost(c) \/ Tcp!Leave(c)
  /\ UNCHANGED <<storeVars, up, line, told>>

\* The process is killed, or main returns five seconds after the signal:
\* connections are reset, what the server has not read is lost, and writes
\* in doubt are in the log or not.
Die ==
  /\ up
  /\ up' = FALSE
  /\ Store!End
  /\ listening' = FALSE
  /\ conn' = [c \in Conns |-> IF conn[c] \in {"none", "done"} THEN conn[c] ELSE "reset"]
  /\ query' = [c \in Conns |-> <<>>]
  /\ inbox' = [c \in Conns |-> <<>>]
  /\ UNCHANGED <<cancelled, mpc, apc, count, waiters, spc, outbox, cpc, sent,
                 answer, late, long, line, told>>

Next ==
  \/ \E c \in Conns : Refuse(c) \/ Get(c) \/ BeginWrite(c) \/ EndWrite(c)
  \/ \E c \in Conns, parts \in Lines : SendLine(c, parts)
  \/ Engine \/ Network \/ Client \/ Die

Spec == Init /\ [][Next]_vars

-----------------------------------------------------------------------------
(***************************************************************************)
(* Properties.                                                             *)
(***************************************************************************)

\* A command that the server accepts by itself.
WellFormed(text) == DatabaseHandler(text) # NoCall

\* The places of the log, by group and place in it, and their order.
Places == UNION {{i} \X DOMAIN log[i] : i \in DOMAIN log}
Precedes(p, q) == p[1] < q[1] \/ (p[1] = q[1] /\ p[2] < q[2])

\* Where the writes of connection c are.
LogOf(c) == {p \in Places : log[p[1]][p[2]].conn = c}

\* Only what a user asked for is ever logged: the writes of a client that
\* types well-formed commands, none of them cut, are lines of its own, each
\* logged at most once and in the order they were typed.  There is no
\* framing, so after a timeout two lines can be read as one query; such a
\* query has too many arguments for every command, and is refused as a whole.
OnlyRequestedWrites ==
  \A c \in Conns \ long :
    (\A n \in DOMAIN line[c] : WellFormed(line[c][n])) =>
      /\ \A p \in LogOf(c) :
           \E n \in DOMAIN line[c] :
             /\ log[p[1]][p[2]].query = <<n>>
             /\ log[p[1]][p[2]].call = DatabaseHandler(line[c][n])
      /\ \A p, q \in LogOf(c) :
           Precedes(p, q) =>
             Head(log[p[1]][p[2]].query) < Head(log[q[1]][q[2]].query)

\* Commands are lines: what a client that has never given up on a reply has
\* in the log is a line that a user may type.  It is not: the first part of
\* a cut SET is a SET with the beginning of the value.
LogsWholeLines ==
  \A c \in Conns \ late :
    \A p \in LogOf(c) :
      \E parts \in Lines : log[p[1]][p[2]].call = DatabaseHandler(GlueAll(parts))

\* No query is handed to the engine twice: when a handler comes to write,
\* its write is neither in the log nor in doubt, also if all that the client
\* has sent was read at once or its earlier replies never went out.
WritesAreFresh ==
  \A c \in Conns :
    /\ conn[c] = "handle"
    /\ pend[c] = None
    /\ CallOf(c).call \in {"Set", "Del"}
    => /\ WriteOf(c) \notin Store!Logged
       /\ \A d \in Conns : pend[d] # WriteOf(c)

\* A client that has never given up on a reply, and none of whose requests
\* and replies was cut, reads the replies to its own requests, also when the
\* writes are in doubt, refused or failed and the server is killed.
RepliesMatch == Tcp!RepliesMatch

\* An answer is worth what it says, end to end: when a client that has never
\* given up on a reply, and none of whose requests and replies was cut, reads
\* OK or DELETED, the write it typed is in the durable log, even if the
\* server has been shut down or killed meanwhile.
AnswersAreTrue ==
  \A c \in Conns \ (late \cup long) :
    answer[c] # None =>
      \A reply \in {"OK", "DELETED"} :
        <<answer[c][1], reply>> \in told[c] =>
          \E r \in Store!Logged :
            r.conn = c /\ r.call = DatabaseHandler(line[c][sent[c]])
              /\ r.query = <<sent[c]>>

=============================================================================

--------------------------- MODULE BlockingServer ---------------------------
(***************************************************************************)
(* Stage 1, epoll-http-server/examples/main_stage1.cpp: one thread takes   *)
(* one connection at a time through accept, read, write and close, each of *)
(* which blocks, and answers whatever read() has returned.                 *)
(*                                                                         *)
(* Clients act at any time: they may stay silent, send what they have in   *)
(* several pieces of any length, also after the server has closed, or      *)
(* leave.  A piece is data that arrives at once.  An answer fits the       *)
(* socket's send buffer, so that write() does not block.                   *)
(***************************************************************************)
EXTENDS Naturals, Sequences

CONSTANTS
  Conns,     \* BOUND: the connections clients open, each one once
  NoConn,
  ReadSize,  \* the most one read() takes (sizeof(buf) - 1 bytes)
  MaxSends,  \* BOUND: pieces of data a client sends
  MaxPiece   \* BOUND: the length of a piece

ASSUME BlockingAssumption ==
  /\ ReadSize \in Nat \ {0}
  /\ MaxSends \in Nat
  /\ MaxPiece \in Nat
  /\ NoConn \notin Conns

VARIABLES
  client,   \* client[c]: "away", "here", "fin" (has shut its side down), or
            \* "reset"
  backlog,  \* the connections accept() has not taken, oldest first
  sends,    \* sends[c]: pieces the client has sent
  size,     \* HISTORY: size[c]: their length together
  inbox,    \* inbox[c]: how much of that has not been read
  closed,   \* connections the server has closed
  pc,       \* where its thread is
  cur,      \* conn_fd: the connection it serves
  failed    \* read() has returned the error of a reset

clients == <<client, sends, size, inbox>>
vars == <<clients, backlog, closed, pc, cur, failed>>

Init ==
  /\ client = [c \in Conns |-> "away"]
  /\ backlog = <<>>
  /\ sends = [c \in Conns |-> 0]
  /\ size = [c \in Conns |-> 0]
  /\ inbox = [c \in Conns |-> 0]
  /\ closed = {}
  /\ pc = "accept"
  /\ cur = NoConn
  /\ failed = FALSE

----------------------------------------------------------------------------
(* The clients; the kernel completes a connect() by itself.                *)
Connect(c) ==
  /\ client[c] = "away"
  /\ pc # "killed"
  /\ client' = [client EXCEPT ![c] = "here"]
  /\ backlog' = Append(backlog, c)
  /\ UNCHANGED <<sends, size, inbox, closed, pc, cur, failed>>

Send(c) ==
  /\ client[c] = "here"
  /\ sends[c] < MaxSends
  /\ sends' = [sends EXCEPT ![c] = @ + 1]
  /\ \E n \in 1 .. MaxPiece :
       /\ size' = [size EXCEPT ![c] = @ + n]
       /\ inbox' = [inbox EXCEPT ![c] = @ + n]
  /\ UNCHANGED <<client, backlog, closed, pc, cur, failed>>

(* shutdown() or close(); a reset throws away what has not been read.      *)
Leave(c) ==
  /\ c \notin closed
  /\ \/ /\ client[c] = "here"
        /\ client' = [client EXCEPT ![c] = "fin"]
        /\ UNCHANGED inbox
     \/ /\ client[c] \in {"here", "fin"}
        /\ client' = [client EXCEPT ![c] = "reset"]
        /\ inbox' = [inbox EXCEPT ![c] = 0]
  /\ UNCHANGED <<sends, size, backlog, closed, pc, cur, failed>>

----------------------------------------------------------------------------
(* accept() blocks until there is a connection, also one already reset.    *)
Accept ==
  /\ pc = "accept"
  /\ backlog # <<>>
  /\ cur' = Head(backlog)
  /\ backlog' = Tail(backlog)
  /\ pc' = "read"
  /\ UNCHANGED <<clients, closed, failed>>

ReadErrorContinues ==            \* seeded fault: conn_fd is not closed
  /\ pc = "read"
  /\ inbox[cur] = 0
  /\ client[cur] = "reset"
  /\ pc' = "accept"
  /\ UNCHANGED <<clients, backlog, closed, cur, failed>>

ReadUntilEnd ==                  \* seeded fault: reads on after a piece
  /\ pc = "read"
  /\ IF inbox[cur] > 0 THEN inbox' = [inbox EXCEPT ![cur] = 0] /\ UNCHANGED pc
     ELSE client[cur] # "here" /\ pc' = "write" /\ UNCHANGED inbox
  /\ UNCHANGED <<client, sends, size, backlog, closed, cur, failed>>

WriteAtOnce ==                   \* seeded fault: nothing is read
  /\ pc = "read"
  /\ pc' = "write"
  /\ UNCHANGED <<clients, backlog, closed, cur, failed>>

(* read() blocks until there is data, the end of the stream or an error;   *)
(* it is called once, and takes what is there, but no more than fits buf.  *)
Read ==
  /\ pc = "read"
  /\ \/ /\ inbox[cur] > 0
        /\ inbox' = [inbox EXCEPT ![cur] = IF @ > ReadSize THEN @ - ReadSize ELSE 0]
        /\ UNCHANGED failed
     \/ /\ inbox[cur] = 0
        /\ client[cur] \in {"fin", "reset"}
        /\ failed' = (client[cur] = "reset")
        /\ UNCHANGED inbox
  /\ pc' = "write"
  /\ UNCHANGED <<client, sends, size, backlog, closed, cur>>

(* write(), whatever read() has returned, its result ignored.  The error   *)
(* of a reset is reported once, by read() or by write(): a write() after   *)
(* that, or to a client that had shut its side down before, raises SIGPIPE *)
(* and ends the process.                                                   *)
Write ==
  /\ pc = "write"
  /\ \/ ~failed /\ pc' = "close"
     \/ client[cur] = "reset" /\ pc' = "killed"
  /\ UNCHANGED <<clients, backlog, closed, cur, failed>>

Close ==
  /\ pc = "close"
  /\ closed' = closed \cup {cur}
  /\ cur' = NoConn
  /\ pc' = "accept"
  /\ UNCHANGED <<clients, backlog, failed>>

----------------------------------------------------------------------------
Server == Accept \/ Read \/ Write \/ Close

Next == (\E c \in Conns : Connect(c) \/ Send(c) \/ Leave(c)) \/ Server

Spec == Init /\ [][Next]_vars

(* The thread runs on when its call can return.  No client has to act.     *)
FairSpec == Spec /\ WF_vars(Server)

----------------------------------------------------------------------------
Waiting == {backlog[i] : i \in DOMAIN backlog}

(* Types; an accepted connection is being served or closed, one at a time. *)
TypeOK ==
  /\ client \in [Conns -> {"away", "here", "fin", "reset"}]
  /\ backlog \in Seq(Conns)
  /\ sends \in [Conns -> 0 .. MaxSends]
  /\ size \in [Conns -> Nat]
  /\ inbox \in [Conns -> Nat]
  /\ closed \subseteq Conns
  /\ pc \in {"accept", "read", "write", "close", "killed"}
  /\ cur \in Conns \cup {NoConn}
  /\ failed \in BOOLEAN
  /\ pc = "accept" <=> cur = NoConn
  /\ Waiting \cap closed = {}
  /\ cur \notin Waiting \cup closed
  /\ \A i, j \in DOMAIN backlog : backlog[i] = backlog[j] => i = j

(* The kernel resets a connection that is closed with input unread, or     *)
(* that input arrives for later, and the answer may be lost: that happens  *)
(* only to a client whose request came in more than one piece, or did not  *)
(* fit the one read().                                                     *)
OnlyDividedOrLongAreCut ==
  \A c \in closed : inbox[c] > 0 => sends[c] > 1 \/ size[c] > ReadSize

(* "One thread serves all requests; until the one before is finished, the  *)
(* next can only queue" (README.md, stage 1).  The queue moves, unless one *)
(* client that sends nothing and does not leave keeps the thread in read() *)
(* for ever, or one that has reset its connection has ended the process.   *)
Blocks(c) == pc = "read" /\ cur = c /\ client[c] = "here" /\ sends[c] = 0

QueueMoves ==
  \A c \in Conns :
    c \in Waiting ~>
      c \in closed \/ pc = "killed" \/ \E d \in Conns : []Blocks(d)
=============================================================================

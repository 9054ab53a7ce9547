-------------------------------- MODULE Clients --------------------------------
(***************************************************************************)
(* The server's side of a connection (server.c): the accept thread, a      *)
(* receive thread per client and the disconnection that the receive thread *)
(* or, on a failing write, the event loop finds first.  They share the     *)
(* list of clients, the clients' reference counts and the event loop's     *)
(* queue, under the server's mutex.                                        *)
(***************************************************************************)
EXTENDS Integers, Sequences, FiniteSets

CONSTANTS MaxConnections, \* bound: connections in a behaviour
          MaxClients,    \* the limit the server is started with; 0: no limit
          MaxQueue,      \* bound: tasks waiting when a packet is received
          Orderly        \* what is asked of clients and network, see Membership

ASSUME ClientsAssumption == /\ MaxConnections \in Nat
                            /\ MaxClients \in Nat
                            /\ Orderly \in BOOLEAN

\* Connections are numbered in the order in which they are accepted.
Clients == 1 .. MaxConnections
None == 0

VARIABLES thread,  \* of each client: "none", "started", "receiving" or "gone"
          net,     \* what the threads share: the record of NetInit
          fault    \* the pointer through which something was used wrongly

NetInit == [listed |-> {},                          \* server->clients
            alive  |-> [c \in Clients |-> FALSE],   \* is_alive
            refs   |-> [c \in Clients |-> 0],       \* ref_counted.count
            freed  |-> {},                          \* clients freed
            queue  |-> << >>]                       \* the event loop's tasks

ClientsInit == /\ thread = [c \in Clients |-> "none"]
               /\ net = NetInit
               /\ fault = "none"

-----------------------------------------------------------------------------
\* PKRSRV_REF_COUNTED_USE and _LEAVE of a client.
UseClient(n, c) == [n EXCEPT !.refs[c] = @ + 1]
LeaveClient(n, c) == [n EXCEPT !.refs[c] = @ - 1,
                               !.freed = IF n.refs[c] = 1 THEN @ \cup {c} ELSE @]

AddClient(n, c) == [UseClient(n, c) EXCEPT !.listed = @ \cup {c}]
RemoveClient(n, c) == [LeaveClient(n, c) EXCEPT !.listed = @ \ {c}]

Task(op, c, arg) == [op |-> op, client |-> c, arg |-> arg]
Call(n, task) == [n EXCEPT !.queue = Append(@, task)]

\* client_disconnected: only the first of those who find the client gone
\* removes it, queues the task of its disconnection and drops the reference
\* of the receive thread, which may still be reading.
(* A mutant of Disconnect: whoever finds the client gone removes it. *)
DisconnectAnew(n, c) ==
  LeaveClient(Call(RemoveClient([n EXCEPT !.alive[c] = FALSE], c),
                   Task("disconnected", c, None)), c)
Disconnect(n, c) ==
  IF n.alive[c]
    THEN LeaveClient(Call(RemoveClient([n EXCEPT !.alive[c] = FALSE], c),
                          Task("disconnected", c, None)), c)
    ELSE n

-----------------------------------------------------------------------------
\* Threads work until something freed is used: what follows is undefined.
Sound == fault = "none"

Queued(c, ops) == \E i \in DOMAIN net.queue : /\ net.queue[i].client = c
                                             /\ net.queue[i].op \in ops

\* pkrsrv_server_listen: a new connection is added and counted, and gets a
\* thread with a reference of its own.
(* A mutant of Accepted: the thread is handed the client uncounted. *)
AcceptedUncounted(c) == AddClient([net EXCEPT !.alive[c] = TRUE], c)
Accepted(c) == UseClient(AddClient([net EXCEPT !.alive[c] = TRUE], c), c)

Connects(c) == /\ thread[c] = "none"
               /\ \A d \in 1 .. c - 1 : thread[d] # "none"
OverCapacity == MaxClients # 0 /\ Cardinality(net.listed) >= MaxClients

Accept(c) ==
  /\ Sound /\ Connects(c)
  /\ ~OverCapacity
  /\ net' = Accepted(c)
  /\ thread' = [thread EXCEPT ![c] = "started"]
  /\ UNCHANGED fault

\* A client over the limit has the list's reference only: removing it drops
\* that, which frees the client, and then takes the freed client off the list.
AcceptOverCapacity(c) ==
  /\ Sound /\ Connects(c)
  /\ OverCapacity
  /\ net' = RemoveClient(AddClient(net, c), c)
  /\ thread' = [thread EXCEPT ![c] = "gone"]
  /\ fault' = "list"

\* client_handler: tells the lobby, then reads.
Announce(c) ==
  /\ Sound /\ thread[c] = "started"
  /\ net' = Call(net, Task("connected", c, None))
  /\ thread' = [thread EXCEPT ![c] = "receiving"]
  /\ UNCHANGED fault

\* An opcode handler: a packet becomes a task.
Receive(c, op, arg) ==
  /\ Sound /\ thread[c] = "receiving"
  /\ Len(net.queue) < MaxQueue
  /\ net' = Call(net, Task(op, c, arg))
  /\ UNCHANGED <<thread, fault>>

\* A read fails: between packets the thread ends, within one its handler
\* returns to the loop and the next read fails as well.
ReadFails(c) ==
  /\ Sound /\ thread[c] = "receiving"
  /\ Orderly => ~Queued(c, {"connected"})
  /\ IF c \in net.freed
       THEN fault' = "thread" /\ UNCHANGED <<thread, net>>
       ELSE /\ net' = Disconnect(net, c)
            /\ \E next \in {"receiving", "gone"} : thread' = [thread EXCEPT ![c] = next]
            /\ UNCHANGED fault

\* The event loop fails to write to a client it sends something to; clients
\* whose protocol is not known yet are sent nothing.
WriteFails(c) ==
  /\ Sound /\ thread[c] = "receiving"
  /\ net.alive[c]
  /\ Orderly => ~Queued(c, {"connected"})
  /\ net' = Disconnect(net, c)
  /\ UNCHANGED <<thread, fault>>

ThreadEnds(c) == ReadFails(c) /\ thread'[c] = "gone"

ThreadStep(c) == \/ Accept(c) \/ AcceptOverCapacity(c) \/ Announce(c)
                 \/ ReadFails(c) \/ WriteFails(c)
=============================================================================

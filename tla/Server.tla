------------------------------- MODULE Server -------------------------------
(***************************************************************************)
(* The server of modules/net/src/server.c: the select loop, the fork of    *)
(* one child per accepted connection, the list of children and the SIGCHLD *)
(* handler that interrupts the loop, with the clients of client.c.         *)
(*                                                                         *)
(* The handler is a stack of frames over the main program: only the frame  *)
(* on top runs.  SIGCHLD is one bit (pending) whatever the number of deaths*)
(* and is delivered when it is not blocked; sa_mask is empty, so that      *)
(* delivery blocks SIGCHLD alone, and critical_end() inside the handler    *)
(* unblocks it before the handler returns.  A child is named by the client *)
(* it serves.                                                              *)
(***************************************************************************)
EXTENDS Integers, Sequences, FiniteSets, SequencesExt

CONSTANTS
  Clients,     \* programs run with the address of the server
  Known,       \* clients whose login and password are those of the server
  Rooms,       \* possible values of child_max
  NoClient

ASSUME ServerAssumption ==
  /\ IsFiniteSet(Clients)
  /\ Known \subseteq Clients
  /\ Rooms \subseteq Nat \ {0}
  /\ NoClient \notin Clients

VARIABLES
  max,        \* server->child_max
  n,          \* child_list.n
  list,       \* pids in child_list
  masked,     \* SIGCHLD is blocked
  pending,    \* SIGCHLD is pending
  frames,     \* running handlers, outermost first: program counter and pid
  pc,         \* where the main program is in server_loop
  ready,      \* the result of select()
  fd,         \* the connection just accepted
  backlog,    \* connections the kernel holds for accept()
  inbox,      \* identities received on the UDP port
  child,      \* what became of the child forked for a client
  client,     \* where each client is
  sent        \* clients whose identity can be received on the connection

mainVars   == <<pc, ready, fd>>
signalVars == <<masked, pending, frames>>
listVars   == <<n, list>>
netVars    == <<backlog, inbox>>
vars == <<max, mainVars, signalVars, listVars, netVars, child, client, sent>>

Init ==
  /\ max \in Rooms
  /\ n = 0 /\ list = {}
  /\ masked = FALSE /\ pending = FALSE /\ frames = <<>>
  /\ pc = "select" /\ ready = {} /\ fd = NoClient
  /\ backlog = <<>> /\ inbox = {}
  /\ child = [c \in Clients |-> "none"]
  /\ client = [c \in Clients |-> "idle"]
  /\ sent = {}

-----------------------------------------------------------------------------
(* The main program; a handler suspends it *)

At(step) == frames = <<>> /\ pc = step

Goto(step) == pc' = step

\* select() returns the descriptors that can be read.
Select ==
  /\ At("select")
  /\ ready' = (IF backlog # <<>> THEN {"tcp"} ELSE {})
              \cup (IF inbox # {} THEN {"udp"} ELSE {})
  /\ ready' # {}
  /\ Goto(IF "tcp" \in ready' THEN "accept" ELSE "reply")
  /\ UNCHANGED <<max, fd, signalVars, listVars, netVars, child, client, sent>>

\* What server_loop does once server_tcp_accept has returned.
AfterAccept == IF "udp" \in ready THEN "reply" ELSE "select"

Accept ==
  /\ At("accept")
  /\ fd' = Head(backlog)
  /\ backlog' = Tail(backlog)
  /\ Goto("room")
  /\ UNCHANGED <<max, ready, signalVars, listVars, inbox, child, client, sent>>

\* close(fd): a client that still waits sees the end of the connection.
Refuse ==
  /\ client' = [client EXCEPT ![fd] = IF @ = "quit" THEN @ ELSE "refused"]
  /\ fd' = NoClient
  /\ Goto(AfterAccept)

\* child_list.n < max, with n taken before or after a handler.
RoomFor(k) ==
  /\ At("room")
  /\ IF n < k
     THEN Goto("check") /\ UNCHANGED <<fd, client>>
     ELSE Refuse
  /\ UNCHANGED <<max, ready, signalVars, listVars, netVars, child, sent>>

\* Mutant: n <= max.
RoomForOneMore == RoomFor(max + 1)

Room == RoomFor(max)

\* Mutant: recv() again at the end of the connection.
CheckUntilIdentity ==
  /\ At("check")
  /\ fd \in sent
  /\ IF fd \in Known
     THEN Goto("enter") /\ UNCHANGED <<fd, client>>
     ELSE Refuse
  /\ UNCHANGED <<max, ready, signalVars, listVars, netVars, child, sent>>

\* check_id: recv() blocks until the identity, or the end of the connection.
Check ==
  /\ At("check")
  /\ fd \in sent \/ client[fd] = "quit"
  /\ IF fd \in sent \cap Known
     THEN Goto("enter") /\ UNCHANGED <<fd, client>>
     ELSE Refuse
  /\ UNCHANGED <<max, ready, signalVars, listVars, netVars, child, sent>>

\* Mutant: SIGCHLD is not blocked around fork() and child_list_add().
EnterUnmasked ==
  /\ At("enter")
  /\ Goto("fork")
  /\ UNCHANGED <<max, ready, fd, signalVars, listVars, netVars, child, client,
                 sent>>

\* critical_begin()
Enter ==
  /\ At("enter")
  /\ masked' = TRUE
  /\ Goto("fork")
  /\ UNCHANGED <<max, ready, fd, pending, frames, listVars, netVars, child,
                 client, sent>>

Fork ==
  /\ At("fork")
  /\ \/ /\ child' = [child EXCEPT ![fd] = "running"]
        /\ client' = [client EXCEPT ![fd] = IF @ = "quit" THEN @ ELSE "served"]
        /\ Goto("add")
     \/ /\ client' = [client EXCEPT ![fd] = IF @ = "quit" THEN @ ELSE "refused"]
        /\ Goto("leave")
        /\ UNCHANGED child
  /\ UNCHANGED <<max, ready, fd, signalVars, listVars, netVars, sent>>

\* Mutant: only what malloc() gave a cell to is counted.
AddAllocated ==
  /\ At("add")
  /\ \/ n' = n + 1 /\ list' = list \cup {fd}
     \/ UNCHANGED listVars
  /\ Goto("leave")
  /\ UNCHANGED <<max, ready, fd, signalVars, netVars, child, client, sent>>

\* child_list_add: n counts the child even when malloc() fails.
Add ==
  /\ At("add")
  /\ n' = n + 1
  /\ list' \in {list, list \cup {fd}}
  /\ Goto("leave")
  /\ UNCHANGED <<max, ready, fd, signalVars, netVars, child, client, sent>>

\* Mutant: critical_end() is forgotten, SIGCHLD stays blocked.
LeaveMasked ==
  /\ At("leave")
  /\ fd' = NoClient
  /\ Goto(AfterAccept)
  /\ UNCHANGED <<max, ready, masked, pending, frames, listVars, netVars, child,
                 client, sent>>

\* critical_end()
Leave ==
  /\ At("leave")
  /\ masked' = FALSE
  /\ fd' = NoClient
  /\ Goto(AfterAccept)
  /\ UNCHANGED <<max, ready, pending, frames, listVars, netVars, child, client,
                 sent>>

\* server_udp_reply answers a known client when there is room; the answer may
\* be lost.
Reply ==
  /\ At("reply")
  /\ \E c \in inbox :
       /\ inbox' = inbox \ {c}
       /\ \/ /\ c \in Known /\ n < max /\ client[c] = "waiting"
             /\ client' = [client EXCEPT ![c] = "invited"]
          \/ UNCHANGED client
  /\ Goto("select")
  /\ UNCHANGED <<max, ready, fd, signalVars, listVars, backlog, child, sent>>

Main == \/ Select \/ Accept \/ Room \/ Check \/ Enter \/ Fork \/ Add \/ Leave
        \/ Reply

-----------------------------------------------------------------------------
(* The handler child_died *)

Top == Len(frames)
InHandler(step) == frames # <<>> /\ frames[Top].pc = step

Deliver ==
  /\ pending /\ ~masked
  /\ pending' = FALSE
  /\ masked' = TRUE
  /\ frames' = Append(frames, [pc |-> "wait", pid |-> NoClient])
  /\ UNCHANGED <<max, mainVars, listVars, netVars, child, client, sent>>

Zombies == {c \in Clients : child[c] = "zombie"}

\* Mutant: wait() as long as there are dead children, but one is forgotten.
WaitAll ==
  /\ InHandler("wait")
  /\ \E c \in Zombies :
       /\ child' = [d \in Clients |-> IF d \in Zombies THEN "reaped" ELSE child[d]]
       /\ frames' = [frames EXCEPT ![Top] = [pc |-> "remove", pid |-> c]]
  /\ UNCHANGED <<max, mainVars, masked, pending, listVars, netVars, client, sent>>

\* wait() returns any of the dead children.
Wait ==
  /\ InHandler("wait")
  /\ \E c \in Zombies :
       /\ child' = [child EXCEPT ![c] = "reaped"]
       /\ frames' = [frames EXCEPT ![Top] = [pc |-> "remove", pid |-> c]]
  /\ UNCHANGED <<max, mainVars, masked, pending, listVars, netVars, client, sent>>

\* Mutant: n goes down for the children of the list only.
ListRemoveFound ==
  /\ InHandler("remove")
  /\ n' = IF frames[Top].pid \in list THEN n - 1 ELSE n
  /\ list' = list \ {frames[Top].pid}
  /\ frames' = [frames EXCEPT ![Top].pc = "return"]
  /\ masked' = FALSE
  /\ UNCHANGED <<max, mainVars, pending, netVars, child, client, sent>>

\* child_list_remove, between critical_begin() and critical_end(): n goes down
\* whether the pid is in the list or not.  SIGCHLD, blocked by the delivery,
\* is unblocked here.
ListRemove ==
  /\ InHandler("remove")
  /\ n' = n - 1
  /\ list' = list \ {frames[Top].pid}
  /\ frames' = [frames EXCEPT ![Top].pc = "return"]
  /\ masked' = FALSE
  /\ UNCHANGED <<max, mainVars, pending, netVars, child, client, sent>>

\* The mask of the delivery is restored: SIGCHLD was not blocked.
Return ==
  /\ InHandler("return")
  /\ frames' = Front(frames)
  /\ masked' = FALSE
  /\ UNCHANGED <<max, mainVars, pending, listVars, netVars, child, client, sent>>

Handler == Deliver \/ Wait \/ ListRemove \/ Return

-----------------------------------------------------------------------------
(* Children and clients *)

\* do_work() returns, or the child is killed.
Exit(c) ==
  /\ child[c] = "running"
  /\ child' = [child EXCEPT ![c] = "zombie"]
  /\ pending' = TRUE
  /\ client' = [client EXCEPT ![c] = IF @ = "served" THEN "done" ELSE @]
  /\ UNCHANGED <<max, mainVars, masked, frames, listVars, netVars, sent>>

\* broadcast_send: the datagram may be lost.
Broadcast(c) ==
  /\ client[c] = "idle"
  /\ client' = [client EXCEPT ![c] = "waiting"]
  /\ inbox' \in {inbox, inbox \cup {c}}
  /\ UNCHANGED <<max, mainVars, signalVars, listVars, backlog, child, sent>>

\* broadcast_handle: no answer within two seconds.
Timeout(c) ==
  /\ client[c] = "waiting"
  /\ client' = [client EXCEPT ![c] = "timeout"]
  /\ UNCHANGED <<max, mainVars, signalVars, listVars, netVars, child, sent>>

\* connection: the kernel accepts it whatever the server does, and
Connect(c) ==
  /\ client[c] = "invited"
  /\ client' = [client EXCEPT ![c] = "connected"]
  /\ backlog' = Append(backlog, c)
  /\ UNCHANGED <<max, mainVars, signalVars, listVars, inbox, child, sent>>

\* the identity follows.
SendIdentity(c) ==
  /\ client[c] = "connected" /\ c \notin sent
  /\ sent' = sent \cup {c}
  /\ UNCHANGED <<max, mainVars, signalVars, listVars, netVars, child, client>>

\* The client is killed, or reads the end of its input.
Quit(c) ==
  /\ client[c] \in {"connected", "served"}
  /\ client' = [client EXCEPT ![c] = "quit"]
  /\ UNCHANGED <<max, mainVars, signalVars, listVars, netVars, child, sent>>

ClientStep(c) ==
  Broadcast(c) \/ Timeout(c) \/ Connect(c) \/ SendIdentity(c) \/ Quit(c)

\* Nobody is left to send anything: the server stays in select().
Idle ==
  /\ At("select") /\ backlog = <<>> /\ inbox = {} /\ ~pending
  /\ \A c \in Clients : /\ client[c] \in {"timeout", "refused", "quit", "done"}
                        /\ child[c] # "running"
  /\ UNCHANGED vars

Next ==
  \/ Main \/ Handler \/ Idle
  \/ \E c \in Clients : ClientStep(c) \/ Exit(c)

Spec == Init /\ [][Next]_vars

\* The server is scheduled, signals are delivered, and a client that connected
\* sends its identity: nothing stands between the two calls of connection().
Fairness ==
  /\ WF_vars(Main)
  /\ WF_vars(Handler)
  /\ \A c \in Clients : WF_vars(SendIdentity(c))

FairSpec == Spec /\ Fairness

-----------------------------------------------------------------------------
(* Properties *)

MainPC == {"select", "accept", "room", "check", "enter", "fork", "add", "leave",
           "reply"}

\* The count of children never goes below zero (it is unsigned).
TypeOK ==
  /\ max \in Rooms /\ n \in Nat /\ list \subseteq Clients
  /\ masked \in BOOLEAN /\ pending \in BOOLEAN
  /\ frames \in Seq([pc : {"wait", "remove", "return"}, pid : Clients \cup {NoClient}])
  /\ pc \in MainPC /\ ready \subseteq {"tcp", "udp"} /\ fd \in Clients \cup {NoClient}
  /\ backlog \in Seq(Clients) /\ inbox \subseteq Clients
  /\ child \in [Clients -> {"none", "running", "zombie", "reaped"}]
  /\ client \in [Clients -> {"idle", "waiting", "timeout", "invited", "connected",
                             "served", "refused", "quit", "done"}]
  /\ sent \subseteq Clients

Removing == {c \in Clients : \E k \in 1 .. Top :
               frames[k].pc = "remove" /\ frames[k].pid = c}
Unreaped == {c \in Clients : child[c] \in {"running", "zombie"}}
Adding   == IF pc = "add" THEN {fd} ELSE {}

\* The count is that of the children forked and not removed yet, at every
\* point where the handler may interrupt the loop, or itself.
CountExact == n = Cardinality((Unreaped \ Adding) \cup (Removing \ Adding))

\* The list has no entry for a child that is gone: such an entry would never
\* be taken out (a child that dies before it is added, lines 359-383).
ListAlive == list \subseteq Unreaped \cup Removing

\* Never more children than child_max, dead ones included.
NeverTooMany == Cardinality(Unreaped) <= max

\* wait() never blocks the server, nor fails: there is a dead child for each
\* handler that has not called it yet and for the signal that is pending.
HandlerHasChild ==
  Cardinality({k \in 1 .. Top : frames[k].pc = "wait"}) + (IF pending THEN 1 ELSE 0)
    <= Cardinality(Zombies)

\* A connection is accepted or refused in the end, even while others come and
\* children die.
Answered ==
  \A c \in Clients : client[c] = "connected" ~> client[c] # "connected"

\* With room for one child, as the server is built, a dead child is always
\* waited for, and its place given back (with more, deaths share a signal).
DeadForgotten ==
  \A c \in Clients : max = 1 /\ child[c] = "zombie" ~> child[c] = "reaped" /\ n = 0

=============================================================================

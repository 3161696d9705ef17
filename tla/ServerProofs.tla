---------------------------- MODULE ServerProofs -----------------------------
(***************************************************************************)
(* Theorems about Server, for every set of clients and every child_max.    *)
(***************************************************************************)
EXTENDS Server, FiniteSetTheorems, SequenceTheorems, TLAPS

Frame == [pc : {"wait", "remove", "return"}, pid : Clients \cup {NoClient}]
ChildState == {"none", "running", "zombie", "reaped"}
ClientState == {"idle", "waiting", "timeout", "invited", "connected", "served",
                "refused", "quit", "done"}

-----------------------------------------------------------------------------
(* The parts of the inductive invariant *)

\* The counter may be any integer here: that it is never negative is a
\* consequence of its exactness.
Typed ==
  /\ max \in Nat /\ n \in Int /\ list \subseteq Clients
  /\ masked \in BOOLEAN /\ frames \in Seq(Frame)
  /\ pc \in MainPC /\ fd \in Clients \cup {NoClient}
  /\ backlog \in Seq(Clients) /\ inbox \subseteq Clients
  /\ child \in [Clients -> ChildState]
  /\ client \in [Clients -> ClientState]

InCritical == pc \in {"fork", "add", "leave"}

\* Only the handler on top has something left to do, with SIGCHLD blocked; it
\* never interrupts the critical section of the main program.
Nesting ==
  /\ \A k \in 1 .. Top : k < Top => frames[k].pc = "return"
  /\ frames # <<>> /\ frames[Top].pc # "return" => masked
  /\ InCritical => frames = <<>> /\ masked

HasConnection == pc \in {"room", "check", "enter", "fork", "add", "leave"}

\* A connection is in one place, and its client has no child before the fork.
Connections ==
  /\ pc = "accept" => backlog # <<>>
  /\ HasConnection => fd \in Clients
  /\ ~HasConnection => fd = NoClient
  /\ \A i \in 1 .. Len(backlog) :
       /\ child[backlog[i]] = "none" /\ backlog[i] # fd
       /\ \A j \in 1 .. Len(backlog) : backlog[i] = backlog[j] => i = j
  /\ \A c \in Clients :
       client[c] \in {"idle", "waiting", "timeout", "invited"}
         => /\ child[c] = "none" /\ c # fd
            /\ \A i \in 1 .. Len(backlog) : backlog[i] # c
  /\ pc \in {"room", "check", "enter", "fork"} => child[fd] = "none"
  /\ pc = "add" => child[fd] \in {"running", "zombie"}

\* A child is removed after it was waited for, and its handler knows its pid.
Removal ==
  \A k \in 1 .. Top :
    frames[k].pc = "remove" => frames[k].pid \in Clients /\ child[frames[k].pid] = "reaped"

\* The children that are counted: those forked, but for the one being added,
\* until they are removed.
Counted == (Unreaped \ Adding) \cup (Removing \ Adding)

\* The room that was found is still there when the child is added.
RoomKept ==
  /\ n <= max
  /\ pc \in {"check", "enter", "fork", "add"} => n < max

\* The invariant is established in two stages: the places of connections and
\* handlers first, then what is counted.
PartInv == Typed /\ Nesting /\ Connections /\ Removal

IInv == PartInv /\ CountExact /\ RoomKept /\ ListAlive

-----------------------------------------------------------------------------
(* The stack of handlers *)

\* What each step of child_died does to the frames: the ones below the top
\* stay as they are.
LEMMA DeliverFrames ==
  ASSUME Typed, Deliver
  PROVE  /\ frames' \in Seq(Frame) /\ Len(frames') = Len(frames) + 1
         /\ \A k \in 1 .. Len(frames) : frames'[k] = frames[k]
         /\ frames'[Len(frames')] = [pc |-> "wait", pid |-> NoClient]
<1>1. [pc |-> "wait", pid |-> NoClient] \in Frame
  BY DEF Frame
<1>2. frames \in Seq(Frame)
  BY DEF Typed
<1> QED
  BY <1>1, <1>2, AppendProperties DEF Deliver

LEMMA TopFrames ==
  ASSUME Typed, NEW f \in Frame, frames # <<>>, frames' = [frames EXCEPT ![Top] = f]
  PROVE  /\ frames' \in Seq(Frame) /\ Len(frames') = Len(frames)
         /\ \A k \in 1 .. Len(frames) : frames'[k] = IF k = Len(frames) THEN f ELSE frames[k]
<1>1. frames \in Seq(Frame) /\ Top \in 1 .. Len(frames)
  BY LenProperties, EmptySeq DEF Typed, Top
<1> QED
  BY <1>1, ExceptSeq DEF Top

LEMMA WaitFrames ==
  ASSUME Typed, NEW c \in Clients, frames # <<>>,
         frames' = [frames EXCEPT ![Top] = [pc |-> "remove", pid |-> c]]
  PROVE  /\ frames' \in Seq(Frame) /\ Len(frames') = Len(frames)
         /\ \A k \in 1 .. Len(frames) :
              frames'[k] = IF k = Len(frames) THEN [pc |-> "remove", pid |-> c] ELSE frames[k]
<1>1. [pc |-> "remove", pid |-> c] \in Frame
  BY DEF Frame
<1> QED
  BY <1>1, TopFrames

LEMMA RemoveFrames ==
  ASSUME Typed, ListRemove
  PROVE  /\ frames' \in Seq(Frame) /\ Len(frames') = Len(frames)
         /\ \A k \in 1 .. Len(frames) :
              /\ frames'[k].pc = IF k = Len(frames) THEN "return" ELSE frames[k].pc
              /\ frames'[k].pid = frames[k].pid
<1>1. frames \in Seq(Frame) /\ frames # <<>> /\ Len(frames) \in Nat /\ Top \in 1 .. Len(frames)
  BY LenProperties, EmptySeq DEF Typed, Top, ListRemove, InHandler
<1>2. \A k \in 1 .. Len(frames) : frames[k] \in Frame
  BY <1>1, ElementOfSeq
<1>3. [frames[Top] EXCEPT !.pc = "return"] \in Frame
  BY <1>1, <1>2 DEF Frame
<1>4. frames' = [frames EXCEPT ![Top] = [frames[Top] EXCEPT !.pc = "return"]]
  BY DEF ListRemove
<1>5. /\ frames' \in Seq(Frame) /\ Len(frames') = Len(frames)
      /\ \A k \in 1 .. Len(frames) :
           frames'[k] = IF k = Len(frames) THEN [frames[Top] EXCEPT !.pc = "return"] ELSE frames[k]
  BY <1>1, <1>3, <1>4, TopFrames
<1>6. frames[Top] \in Frame
  BY <1>1, <1>2
<1> QED
  BY <1>1, <1>5, <1>6 DEF Frame, Top

LEMMA ReturnFrames ==
  ASSUME Typed, Return
  PROVE  /\ frames' \in Seq(Frame) /\ Len(frames') = Len(frames) - 1
         /\ \A k \in 1 .. Len(frames') : frames'[k] = frames[k]
<1>1. frames \in Seq(Frame) /\ frames # <<>> /\ Len(frames) \in Nat \ {0}
  BY LenProperties, EmptySeq DEF Typed, Return, InHandler
<1>2. \A k \in 1 .. Len(frames) - 1 : frames[k] \in Frame
  BY <1>1, ElementOfSeq
<1>3. frames' = SubSeq(frames, 1, Len(frames) - 1)
  BY DEF Return, Front
<1>4. /\ SubSeq(frames, 1, Len(frames) - 1) \in Seq(Frame)
      /\ Len(SubSeq(frames, 1, Len(frames) - 1)) = Len(frames) - 1
      /\ \A k \in 1 .. Len(frames) - 1 : SubSeq(frames, 1, Len(frames) - 1)[k] = frames[k]
  <2>1. 1 \in Int /\ Len(frames) - 1 \in Int
    BY <1>1
  <2>2. /\ SubSeq(frames, 1, Len(frames) - 1) \in Seq(Frame)
        /\ Len(SubSeq(frames, 1, Len(frames) - 1)) =
             IF 1 <= Len(frames) - 1 THEN Len(frames) - 1 - 1 + 1 ELSE 0
        /\ \A k \in 1 .. Len(frames) - 1 - 1 + 1 :
             SubSeq(frames, 1, Len(frames) - 1)[k] = frames[1 + k - 1]
    BY <1>2, <2>1, SubSeqProperties
  <2>3. Len(SubSeq(frames, 1, Len(frames) - 1)) = Len(frames) - 1
    <3>1. \A m \in Nat \ {0} : (IF 1 <= m - 1 THEN m - 1 - 1 + 1 ELSE 0) = m - 1
      OBVIOUS
    <3> QED
      BY <1>1, <2>2, <3>1, Zenon
  <2>4. ASSUME NEW k \in 1 .. Len(frames) - 1
        PROVE  SubSeq(frames, 1, Len(frames) - 1)[k] = frames[k]
    <3>1. k \in 1 .. Len(frames) - 1 - 1 + 1 /\ 1 + k - 1 = k
      BY <1>1
    <3> QED
      BY <2>2, <3>1
  <2> QED
    BY <2>2, <2>3, <2>4
<1> QED
  BY <1>3, <1>4

-----------------------------------------------------------------------------
(* Types *)

LEMMA TypedNext == ASSUME PartInv, [Next]_vars PROVE Typed'
<1> USE DEF PartInv
<1>1. CASE Select
  BY <1>1 DEF Typed, Select, Goto, MainPC, signalVars, listVars, netVars
<1>2. CASE Accept
  <2>1. backlog \in Seq(Clients) /\ backlog # <<>>
    BY <1>2 DEF Typed, Connections, Accept, At
  <2>2. Head(backlog) \in Clients /\ Tail(backlog) \in Seq(Clients)
    BY <2>1, HeadTailProperties
  <2> QED
    BY <1>2, <2>2 DEF Typed, Accept, Goto, MainPC, signalVars, listVars
<1>3. CASE Room
  BY <1>3 DEF Typed, Room, RoomFor, Refuse, AfterAccept, Goto, MainPC, ClientState, signalVars, listVars, netVars
<1>4. CASE Check
  BY <1>4 DEF Typed, Check, Refuse, AfterAccept, Goto, MainPC, ClientState, signalVars, listVars, netVars
<1>5. CASE Enter
  BY <1>5 DEF Typed, Enter, Goto, MainPC, listVars, netVars
<1>6. CASE Fork
  BY <1>6 DEF Typed, Fork, Goto, MainPC, ChildState, ClientState, signalVars, listVars, netVars
<1>7. CASE Add
  BY <1>7 DEF Typed, Connections, HasConnection, Add, At, Goto, MainPC, signalVars, netVars
<1>8. CASE Leave
  BY <1>8 DEF Typed, Leave, AfterAccept, Goto, MainPC, listVars, netVars
<1>9. CASE Reply
  BY <1>9 DEF Typed, Reply, Goto, MainPC, ClientState, signalVars, listVars
<1>10. CASE Deliver
  BY <1>10, DeliverFrames DEF Typed, Deliver, mainVars, listVars, netVars
<1>11. CASE Wait
  <2>1. PICK c \in Zombies :
          /\ child' = [child EXCEPT ![c] = "reaped"]
          /\ frames' = [frames EXCEPT ![Top] = [pc |-> "remove", pid |-> c]]
    BY <1>11 DEF Wait
  <2>2. frames' \in Seq(Frame)
    BY <1>11, <2>1, WaitFrames DEF Wait, InHandler, Zombies
  <2> QED
    BY <1>11, <2>1, <2>2 DEF Typed, Wait, Zombies, ChildState, mainVars, listVars, netVars
<1>12. CASE ListRemove
  <2>1. frames' \in Seq(Frame)
    BY <1>12, RemoveFrames
  <2>2. /\ n' = n - 1 /\ list' \subseteq list /\ masked' = FALSE
        /\ UNCHANGED <<max, pc, fd, backlog, inbox, child, client>>
    BY <1>12 DEF ListRemove, mainVars, netVars
  <2>3. masked' \in BOOLEAN
    BY <2>2
  <2>4. n' \in Int /\ list' \subseteq Clients
    BY <2>2 DEF Typed
  <2> QED
    BY <2>1, <2>2, <2>3, <2>4 DEF Typed
<1>13. CASE Return
  BY <1>13, ReturnFrames DEF Typed, Return, mainVars, listVars, netVars
<1>14. CASE Idle \/ UNCHANGED vars
  BY <1>14 DEF Typed, Idle, vars, mainVars, signalVars, listVars, netVars
<1>15. ASSUME NEW c \in Clients, Exit(c) PROVE Typed'
  BY <1>15 DEF Typed, Exit, ChildState, ClientState, mainVars, listVars, netVars
<1>16. ASSUME NEW c \in Clients, ClientStep(c) PROVE Typed'
  <2>1. CASE Connect(c)
    <3>1. backlog' \in Seq(Clients)
      BY <2>1, AppendProperties DEF Connect, Typed
    <3> QED
      BY <2>1, <3>1 DEF Typed, Connect, ClientState, mainVars, signalVars, listVars
  <2>2. CASE Broadcast(c)
    BY <2>2 DEF Typed, Broadcast, ClientState, mainVars, signalVars, listVars
  <2>3. CASE Timeout(c) \/ SendIdentity(c) \/ Quit(c)
    BY <2>3 DEF Typed, Timeout, SendIdentity, Quit, ClientState, mainVars, signalVars, listVars, netVars
  <2> QED
    BY <1>16, <2>1, <2>2, <2>3 DEF ClientStep
<1> QED
  BY <1>1, <1>2, <1>3, <1>4, <1>5, <1>6, <1>7, <1>8, <1>9, <1>10, <1>11, <1>12, <1>13,
     <1>14, <1>15, <1>16 DEF Next, Main, Handler
-----------------------------------------------------------------------------
(* Handlers, connections and removals *)

LEMMA NestingNext == ASSUME PartInv, [Next]_vars, Typed' PROVE Nesting'
<1> USE DEF PartInv
<1>0. Len(frames) \in Nat /\ (frames # <<>> <=> Len(frames) # 0)
      /\ Len(frames') \in Nat /\ (frames' # <<>> <=> Len(frames') # 0)
  BY LenProperties, EmptySeq DEF Typed
<1>1. CASE Main
  <2>1. UNCHANGED frames /\ (frames = <<>>)
    BY <1>1 DEF Main, Select, Accept, Room, RoomFor, Check, Enter, Fork, Add, Leave, Reply, At, signalVars
  <2>2. InCritical' => masked'
    BY <1>1, <2>1 DEF Main, Select, Accept, Room, RoomFor, Check, Refuse, AfterAccept, Enter, Fork, Add, Leave,
       Reply, At, Goto, signalVars, Nesting, InCritical, Typed, MainPC
  <2> QED
    BY <1>0, <2>1, <2>2 DEF Nesting, Top
<1>2. CASE Deliver
  <2>1. pc' = pc /\ masked' = TRUE /\ ~masked
    BY <1>2 DEF Deliver, mainVars
  <2>2. frames = <<>> \/ frames[Top].pc = "return"
    BY <2>1 DEF Nesting
  <2>3. ~InCritical'
    BY <2>1 DEF Nesting, InCritical
  <2> QED
    BY <1>0, <1>2, <2>1, <2>2, <2>3, DeliverFrames DEF Nesting, Top
<1>3. CASE Wait
  <2>1. PICK c \in Zombies : frames' = [frames EXCEPT ![Top] = [pc |-> "remove", pid |-> c]]
    BY <1>3 DEF Wait
  <2>2. frames # <<>> /\ frames[Top].pc = "wait" /\ pc' = pc /\ masked' = masked
    BY <1>3 DEF Wait, InHandler, mainVars
  <2>3. /\ Len(frames') = Len(frames)
        /\ \A k \in 1 .. Len(frames) :
             frames'[k] = IF k = Len(frames) THEN [pc |-> "remove", pid |-> c] ELSE frames[k]
    BY <2>1, <2>2, WaitFrames DEF Zombies
  <2> QED
    BY <1>0, <2>2, <2>3 DEF Nesting, Top, InCritical
<1>4. CASE ListRemove
  <2>1. frames # <<>> /\ pc' = pc
    BY <1>4 DEF ListRemove, InHandler, mainVars
  <2> QED
    BY <1>0, <1>4, <2>1, RemoveFrames DEF Nesting, Top, InCritical
<1>5. CASE Return
  <2>1. frames # <<>> /\ pc' = pc
    BY <1>5 DEF Return, InHandler, mainVars
  <2> QED
    BY <1>0, <1>5, <2>1, ReturnFrames DEF Nesting, Top, InCritical
<1>6. CASE Idle \/ UNCHANGED vars
  BY <1>6 DEF Idle, vars, mainVars, signalVars, Nesting, Top, InCritical
<1>7. ASSUME NEW c \in Clients, Exit(c) \/ ClientStep(c) PROVE Nesting'
  BY <1>7 DEF Exit, ClientStep, Broadcast, Timeout, Connect, SendIdentity, Quit, mainVars, signalVars,
     Nesting, Top, InCritical
<1> QED
  BY <1>1, <1>2, <1>3, <1>4, <1>5, <1>6, <1>7 DEF Next, Handler

LEMMA RemovalNext == ASSUME PartInv, [Next]_vars, Typed' PROVE Removal'
<1> USE DEF PartInv
<1>0. Len(frames) \in Nat /\ (frames # <<>> <=> Len(frames) # 0) /\ Len(frames') \in Nat
  BY LenProperties, EmptySeq DEF Typed
<1>1. CASE Main
  <2>1. frames = <<>> /\ UNCHANGED frames
    BY <1>1 DEF Main, Select, Accept, Room, RoomFor, Check, Enter, Fork, Add, Leave, Reply, At, signalVars
  <2> QED
    BY <1>0, <2>1 DEF Removal, Top
<1>2. CASE Deliver
  <2>1. child' = child
    BY <1>2 DEF Deliver
  <2> QED
    BY <1>0, <1>2, <2>1, DeliverFrames DEF Removal, Top
<1>3. CASE Wait
  <2>1. PICK c \in Zombies :
          /\ child' = [child EXCEPT ![c] = "reaped"]
          /\ frames' = [frames EXCEPT ![Top] = [pc |-> "remove", pid |-> c]]
    BY <1>3 DEF Wait
  <2>2. frames # <<>>
    BY <1>3 DEF Wait, InHandler
  <2>3. /\ Len(frames') = Len(frames)
        /\ \A k \in 1 .. Len(frames) :
             frames'[k] = IF k = Len(frames) THEN [pc |-> "remove", pid |-> c] ELSE frames[k]
    BY <2>1, <2>2, WaitFrames DEF Zombies
  <2>4. c \in Clients /\ \A d \in Clients : child[d] = "reaped" => child'[d] = "reaped"
    BY <2>1 DEF Zombies, Typed
  <2>5. child'[c] = "reaped"
    BY <2>1, <2>4 DEF Typed
  <2> QED
    BY <1>0, <2>3, <2>4, <2>5 DEF Removal, Top
<1>4. CASE ListRemove
  <2>1. frames # <<>> /\ child' = child
    BY <1>4 DEF ListRemove, InHandler
  <2> QED
    BY <1>0, <1>4, <2>1, RemoveFrames DEF Removal, Top
<1>5. CASE Return
  <2>1. child' = child
    BY <1>5 DEF Return
  <2> QED
    BY <1>0, <1>5, <2>1, ReturnFrames DEF Removal, Top
<1>6. CASE Idle \/ UNCHANGED vars
  BY <1>6 DEF Idle, vars, signalVars, Removal, Top
<1>7. ASSUME NEW c \in Clients, Exit(c) PROVE Removal'
  <2>1. frames' = frames /\ \A d \in Clients : child[d] = "reaped" => child'[d] = "reaped"
    BY <1>7 DEF Exit, Typed
  <2> QED
    BY <2>1 DEF Removal, Top
<1>8. ASSUME NEW c \in Clients, ClientStep(c) PROVE Removal'
  BY <1>8 DEF ClientStep, Broadcast, Timeout, Connect, SendIdentity, Quit, signalVars, Removal, Top
<1> QED
  BY <1>1, <1>2, <1>3, <1>4, <1>5, <1>6, <1>7, <1>8 DEF Next, Handler

LEMMA ConnectionsNext == ASSUME PartInv, [Next]_vars, Typed' PROVE Connections'
<1> USE DEF PartInv
<1>0. backlog \in Seq(Clients) /\ Len(backlog) \in Nat
      /\ \A i \in 1 .. Len(backlog) : backlog[i] \in Clients
  BY LenProperties, ElementOfSeq DEF Typed
<1> DEFINE Untouched == UNCHANGED <<pc, fd, backlog, client>>
<1>1. CASE Select
  BY <1>1 DEF Select, At, Goto, Connections, HasConnection, netVars
<1>2. CASE Accept
  <2>1. backlog # <<>> /\ fd = NoClient /\ pc' = "room" /\ fd' = Head(backlog) /\ backlog' = Tail(backlog)
        /\ UNCHANGED <<child, client>>
    BY <1>2 DEF Accept, At, Goto, Connections, HasConnection
  <2>2. /\ Head(backlog) = backlog[1] /\ Len(backlog) >= 1
        /\ Len(backlog') = Len(backlog) - 1
        /\ \A i \in 1 .. Len(backlog') : backlog'[i] = backlog[i + 1]
    BY <1>0, <2>1, HeadTailProperties, EmptySeq
  <2> QED
    BY <1>0, <2>1, <2>2 DEF Connections, HasConnection
<1>3. CASE Room
  <2>1. UNCHANGED <<backlog, child>> /\ pc = "room"
    BY <1>3 DEF Room, RoomFor, At, netVars
  <2>2. CASE pc' = "check" /\ UNCHANGED <<fd, client>>
    BY <2>1, <2>2 DEF Connections, HasConnection
  <2>3. CASE Refuse
    <3>1. pc' \in {"reply", "select"} /\ fd' = NoClient
      BY <2>3 DEF Refuse, Goto, AfterAccept
    <3>2. \A d \in Clients : client'[d] \in {"idle", "waiting", "timeout", "invited"} => client'[d] = client[d]
      BY <2>3 DEF Refuse, Typed
    <3> QED
      BY <1>0, <2>1, <3>1, <3>2, ServerAssumption DEF Connections, HasConnection
  <2> QED
    BY <1>3, <2>2, <2>3 DEF Room, RoomFor, Goto
<1>4. CASE Check
  <2>1. UNCHANGED <<backlog, child>> /\ pc = "check"
    BY <1>4 DEF Check, At, netVars
  <2>2. CASE pc' = "enter" /\ UNCHANGED <<fd, client>>
    BY <2>1, <2>2 DEF Connections, HasConnection
  <2>3. CASE Refuse
    <3>1. pc' \in {"reply", "select"} /\ fd' = NoClient
      BY <2>3 DEF Refuse, Goto, AfterAccept
    <3>2. \A d \in Clients : client'[d] \in {"idle", "waiting", "timeout", "invited"} => client'[d] = client[d]
      BY <2>3 DEF Refuse, Typed
    <3> QED
      BY <1>0, <2>1, <3>1, <3>2, ServerAssumption DEF Connections, HasConnection
  <2> QED
    BY <1>4, <2>2, <2>3 DEF Check, Goto
<1>5. CASE Enter
  BY <1>5 DEF Enter, At, Goto, Connections, HasConnection, netVars
<1>6. CASE Fork
  BY <1>0, <1>6 DEF Fork, At, Goto, Connections, HasConnection, Typed, ClientState, netVars
<1>7. CASE Add
  BY <1>7 DEF Add, At, Goto, Connections, HasConnection, netVars
<1>8. CASE Leave
  BY <1>0, <1>8, ServerAssumption DEF Leave, AfterAccept, At, Goto, Connections, HasConnection, netVars
<1>9. CASE Reply
  BY <1>9 DEF Reply, At, Goto, Connections, HasConnection, Typed, netVars
<1>10. CASE Deliver \/ ListRemove \/ Return
  BY <1>10 DEF Deliver, ListRemove, Return, Connections, HasConnection, mainVars, netVars
<1>11. CASE Wait
  <2>1. PICK c \in Zombies : child' = [child EXCEPT ![c] = "reaped"]
    BY <1>11 DEF Wait
  <2>2. ~InCritical
    BY <1>11 DEF Wait, InHandler, Nesting
  <2>3. UNCHANGED <<pc, fd, backlog, client>>
    BY <1>11 DEF Wait, mainVars, netVars
  <2>4. \A d \in Clients : child[d] = "none" => child'[d] = "none"
    BY <2>1 DEF Zombies, Typed
  <2> QED
    BY <1>0, <2>2, <2>3, <2>4 DEF InCritical, Connections, HasConnection
<1>12. CASE Idle \/ UNCHANGED vars
  BY <1>12 DEF Idle, vars, mainVars, netVars, Connections, HasConnection
<1>13. ASSUME NEW c \in Clients, Exit(c) PROVE Connections'
  <2>1. UNCHANGED <<pc, fd, backlog>> /\ child' = [child EXCEPT ![c] = "zombie"] /\ child[c] = "running"
        /\ client' = [client EXCEPT ![c] = IF @ = "served" THEN "done" ELSE @]
    BY <1>13 DEF Exit, mainVars, netVars
  <2>2. /\ \A d \in Clients : child[d] = "none" => child'[d] = "none"
        /\ \A d \in Clients : child[d] \in {"running", "zombie"} => child'[d] \in {"running", "zombie"}
        /\ \A d \in Clients : client'[d] \in {"idle", "waiting", "timeout", "invited"} => client'[d] = client[d]
    BY <2>1 DEF Typed
  <2> QED
    BY <1>0, <2>1, <2>2 DEF Connections, HasConnection
<1>14. ASSUME NEW c \in Clients, Connect(c) PROVE Connections'
  <2>1. UNCHANGED <<pc, fd, child>> /\ backlog' = Append(backlog, c) /\ client[c] = "invited"
        /\ client' = [client EXCEPT ![c] = "connected"]
    BY <1>14 DEF Connect, mainVars
  <2>2. /\ backlog' # <<>> /\ Len(backlog') = Len(backlog) + 1
        /\ \A i \in 1 .. Len(backlog) : backlog'[i] = backlog[i]
        /\ backlog'[Len(backlog) + 1] = c
    BY <1>0, <2>1, AppendProperties
  <2>3. /\ child[c] = "none" /\ c # fd /\ \A i \in 1 .. Len(backlog) : backlog[i] # c
    BY <2>1 DEF Connections
  <2>4. \A d \in Clients : client'[d] \in {"idle", "waiting", "timeout", "invited"}
                           => d # c /\ client'[d] = client[d]
    BY <2>1 DEF Typed
  <2> QED
    BY <1>0, <2>1, <2>2, <2>3, <2>4 DEF Connections, HasConnection
<1>15. ASSUME NEW c \in Clients, Broadcast(c) \/ Timeout(c) \/ SendIdentity(c) \/ Quit(c) PROVE Connections'
  <2>1. UNCHANGED <<pc, fd, child, backlog>>
    BY <1>15 DEF Broadcast, Timeout, SendIdentity, Quit, mainVars, netVars
  <2>2. \A d \in Clients : client'[d] \in {"idle", "waiting", "timeout", "invited"}
                           => client[d] \in {"idle", "waiting", "timeout", "invited"}
    BY <1>15 DEF Broadcast, Timeout, SendIdentity, Quit, Typed
  <2> QED
    BY <2>1, <2>2 DEF Connections, HasConnection
<1> QED
  BY <1>1, <1>2, <1>3, <1>4, <1>5, <1>6, <1>7, <1>8, <1>9, <1>10, <1>11, <1>12, <1>13, <1>14, <1>15
     DEF Next, Main, Handler, ClientStep

-----------------------------------------------------------------------------
(* The count of children *)

LEMMA CountedFinite ==
  Typed => /\ IsFiniteSet(Counted) /\ IsFiniteSet(Unreaped)
           /\ Cardinality(Counted) \in Nat /\ Cardinality(Unreaped) \in Nat
<1>1. Unreaped \subseteq Clients /\ Counted \subseteq Clients
  BY DEF Unreaped, Counted, Removing
<1> QED
  BY <1>1, FS_Subset, FS_CardinalityType, ServerAssumption

\* The handler on top is the only one that may be removing a child.
LEMMA RemovingTop ==
  ASSUME Typed, Nesting, Removal
  PROVE  /\ frames = <<>> => Removing = {}
         /\ frames # <<>> /\ frames[Top].pc = "remove" => Removing = {frames[Top].pid}
         /\ frames # <<>> /\ frames[Top].pc # "remove" => Removing = {}
<1>1. Len(frames) \in Nat /\ (frames # <<>> <=> Len(frames) # 0)
  BY LenProperties, EmptySeq DEF Typed
<1>2. CASE frames = <<>>
  BY <1>1, <1>2 DEF Removing, Top
<1>3. CASE frames # <<>>
  <2>1. \A k \in 1 .. Top : k # Top => frames[k].pc = "return"
    BY <1>1, <1>3 DEF Nesting, Top
  <2>2. Top \in 1 .. Top
    BY <1>1, <1>3 DEF Top
  <2>3. frames[Top].pc = "remove" => frames[Top].pid \in Clients
    BY <2>2 DEF Removal
  <2> QED
    BY <1>3, <2>1, <2>2, <2>3 DEF Removing
<1> QED
  BY <1>2, <1>3

\* A step that leaves the children, the handlers and the main program's place in
\* the critical section as they are does not change what is counted.
LEMMA SameCounted ==
  ASSUME child' = child, frames' = frames, pc # "add", pc' # "add"
  PROVE  Unreaped' = Unreaped /\ Removing' = Removing /\ Adding' = Adding /\ Counted' = Counted
BY DEF Unreaped, Removing, Adding, Counted, Top

LEMMA CountNext ==
  ASSUME IInv, [Next]_vars, PartInv'
  PROVE  CountExact' /\ RoomKept' /\ ListAlive'
<1> USE DEF IInv, PartInv
<1> DEFINE Goal == CountExact' /\ RoomKept' /\ ListAlive'
<1>0. /\ n = Cardinality(Counted) /\ IsFiniteSet(Counted)
      /\ n \in Int /\ max \in Nat /\ Cardinality(Counted) \in Nat
  BY CountedFinite DEF CountExact, Counted, Typed
\* What is counted stays the same, and so do the counter and the list.
<1>a. ASSUME Counted' = Counted, n' = n, max' = max, list' = list,
             list \subseteq (Unreaped \cup Removing)',
             pc' \in {"check", "enter", "fork", "add"} => n < max
      PROVE  Goal
  BY <1>0, <1>a DEF CountExact, Counted, RoomKept, ListAlive
<1>1. CASE Select \/ Accept \/ Room \/ Check \/ Enter \/ Leave \/ Reply
  <2>1. /\ UNCHANGED <<max, n, list, child, frames>> /\ pc # "add" /\ pc' # "add"
    BY <1>1 DEF Select, Accept, Room, RoomFor, Check, Refuse, AfterAccept, Enter, Leave, Reply, At, Goto,
       signalVars, listVars
  <2>2. pc' \in {"check", "enter", "fork", "add"} => n < max
    BY <1>1 DEF Select, Accept, Room, RoomFor, Check, Refuse, AfterAccept, Enter, Leave, Reply, At, Goto, RoomKept
  <2>3. Unreaped' = Unreaped /\ Removing' = Removing /\ Counted' = Counted
    BY <2>1, SameCounted
  <2> QED
    BY <1>a, <2>1, <2>2, <2>3 DEF ListAlive
<1>2. CASE Fork
  <2>1. UNCHANGED <<max, n, list, frames, fd>> /\ pc = "fork" /\ frames = <<>> /\ n < max
    BY <1>2 DEF Fork, At, signalVars, listVars, RoomKept
  <2>2. Removing = {} /\ Removing' = {}
    BY <2>1, RemovingTop, LenProperties, EmptySeq DEF Removing, Top, Typed
  <2>3. CASE child' = [child EXCEPT ![fd] = "running"] /\ pc' = "add"
    <3>1. fd \in Clients /\ child[fd] = "none"
      BY <2>1 DEF Connections, HasConnection
    <3>2. Unreaped' = Unreaped \cup {fd} /\ fd \notin Unreaped
      BY <2>3, <3>1 DEF Unreaped, Typed
    <3>3. Adding = {} /\ Adding' = {fd}
      BY <2>1, <2>3 DEF Adding
    <3>4. Counted' = Counted
      BY <2>2, <3>2, <3>3 DEF Counted
    <3> QED
      BY <1>a, <2>1, <2>2, <3>2, <3>4 DEF ListAlive
  <2>4. CASE child' = child /\ pc' = "leave"
    <3>1. Unreaped' = Unreaped /\ Removing' = Removing /\ Counted' = Counted
      BY <2>1, <2>4, SameCounted
    <3> QED
      BY <1>a, <2>1, <2>4, <3>1 DEF ListAlive
  <2> QED
    BY <1>2, <2>3, <2>4 DEF Fork, Goto
<1>3. CASE Add
  <2>1. /\ UNCHANGED <<max, frames, fd, child>> /\ pc = "add" /\ pc' = "leave" /\ frames = <<>>
        /\ n' = n + 1 /\ list' \in {list, list \cup {fd}} /\ n < max
    BY <1>3 DEF Add, At, Goto, signalVars, RoomKept
  <2>2. Removing = {} /\ Removing' = {} /\ Unreaped' = Unreaped /\ fd \in Unreaped
    BY <2>1, RemovingTop DEF Removing, Unreaped, Top, Connections, HasConnection
  <2>3. Adding = {fd} /\ Adding' = {}
    BY <2>1 DEF Adding
  <2>4. Counted' = Counted \cup {fd} /\ fd \notin Counted
    BY <2>2, <2>3 DEF Counted
  <2>5. Cardinality(Counted') = Cardinality(Counted) + 1
    BY <1>0, <2>4, FS_AddElement
  <2>6. CountExact'
    BY <1>0, <2>1, <2>5 DEF CountExact, Counted
  <2>7. ListAlive'
    BY <2>1, <2>2 DEF ListAlive
  <2> QED
    BY <1>0, <2>1, <2>6, <2>7 DEF RoomKept
<1>4. CASE Deliver \/ Return
  <2>1. /\ UNCHANGED <<max, n, list, child, pc, fd>>
    BY <1>4 DEF Deliver, Return, mainVars, listVars
  <2>2. Removing = {}
    <3>1. CASE Deliver
      BY <3>1, RemovingTop DEF Deliver, Nesting
    <3>2. CASE Return
      BY <3>2, RemovingTop DEF Return, InHandler
    <3> QED
      BY <1>4, <3>1, <3>2
  <2>3. Removing' = {}
    <3>1. CASE Deliver
      <4>1. \A k \in 1 .. Top' : frames'[k].pc # "remove"
        BY <2>2, <3>1, DeliverFrames, RemovingTop, LenProperties, EmptySeq DEF Typed, Nesting, Deliver, Top
      <4> QED
        BY <4>1 DEF Removing
    <3>2. CASE Return
      <4>1. \A k \in 1 .. Top' : frames'[k].pc = "return"
        BY <3>2, ReturnFrames, LenProperties DEF Typed, Nesting, Return, InHandler, Top
      <4> QED
        BY <4>1 DEF Removing
    <3> QED
      BY <1>4, <3>1, <3>2
  <2>4. Unreaped' = Unreaped /\ Adding' = Adding
    BY <2>1 DEF Unreaped, Adding
  <2>5. Counted' = Counted
    BY <2>2, <2>3, <2>4 DEF Counted
  <2> QED
    BY <1>a, <2>1, <2>2, <2>3, <2>4, <2>5 DEF ListAlive, RoomKept
<1>5. CASE Wait
  <2>1. PICK c \in Zombies :
          /\ child' = [child EXCEPT ![c] = "reaped"]
          /\ frames' = [frames EXCEPT ![Top] = [pc |-> "remove", pid |-> c]]
    BY <1>5 DEF Wait
  <2>2. /\ UNCHANGED <<max, n, list, pc, fd>> /\ frames # <<>> /\ frames[Top].pc = "wait"
    BY <1>5 DEF Wait, InHandler, mainVars, listVars
  <2>3. pc # "add" /\ Adding = {} /\ Adding' = {}
    BY <2>2 DEF Nesting, InCritical, Adding
  <2>4. Removing = {}
    BY <2>2, RemovingTop
  <2>5. frames' # <<>> /\ frames'[Top'].pc = "remove" /\ frames'[Top'].pid = c
    <3>1. Len(frames') = Len(frames) /\ frames'[Len(frames)] = [pc |-> "remove", pid |-> c]
      <4>1. c \in Clients /\ frames \in Seq(Frame) /\ Len(frames) \in Nat \ {0}
        BY <2>1, <2>2, LenProperties, EmptySeq DEF Zombies, Typed
      <4>2. /\ Len(frames') = Len(frames)
            /\ \A k \in 1 .. Len(frames) :
                 frames'[k] = IF k = Len(frames) THEN [pc |-> "remove", pid |-> c] ELSE frames[k]
        BY <2>1, <2>2, <4>1, WaitFrames
      <4>3. Len(frames) \in 1 .. Len(frames)
        BY <4>1
      <4> QED
        BY <4>2, <4>3, Zenon
    <3>2. Len(frames) # 0
      BY <2>2, LenProperties, EmptySeq DEF Typed
    <3> QED
      BY <3>1, <3>2, EmptySeq DEF Top
  <2>6. Removing' = {c}
    <3>1. \A k \in 1 .. Top' : frames'[k].pc = "remove" => k = Top'
      BY LenProperties DEF Nesting, Typed, Top
    <3>2. c \in Clients /\ Top' \in 1 .. Top'
      BY <2>1, <2>5, LenProperties, EmptySeq DEF Zombies, Typed, Top
    <3> QED
      BY <2>5, <3>1, <3>2 DEF Removing
  <2>7. Unreaped' = Unreaped \ {c} /\ c \in Unreaped
    BY <2>1 DEF Zombies, Unreaped, Typed
  <2>8. Counted' = Counted
    BY <2>3, <2>4, <2>6, <2>7 DEF Counted
  <2> QED
    BY <1>a, <2>2, <2>4, <2>6, <2>7, <2>8 DEF ListAlive, RoomKept
<1>6. CASE ListRemove
  <2> DEFINE c == frames[Top].pid
  <2>1. /\ UNCHANGED <<max, pc, fd, child>> /\ n' = n - 1 /\ list' = list \ {c}
        /\ frames # <<>> /\ frames[Top].pc = "remove"
    BY <1>6 DEF ListRemove, InHandler, mainVars
  <2>2. pc # "add" /\ Adding = {} /\ Adding' = {}
    BY <2>1 DEF Nesting, InCritical, Adding
  <2>3. Removing = {c}
    BY <2>1, RemovingTop
  <2>4. Removing' = {}
    <3>1. \A k \in 1 .. Top' : frames'[k].pc # "remove"
      <4>1. /\ Len(frames') = Len(frames) /\ Len(frames) \in Nat
            /\ \A k \in 1 .. Len(frames) :
                 frames'[k].pc = IF k = Len(frames) THEN "return" ELSE frames[k].pc
        BY <1>6, RemoveFrames, LenProperties DEF Typed
      <4>2. \A k \in 1 .. Len(frames) : k # Len(frames) => frames[k].pc = "return"
        BY <4>1 DEF Nesting, Top
      <4>3. ASSUME NEW k \in 1 .. Len(frames) PROVE frames'[k].pc = "return"
        BY <4>1, <4>2
      <4> QED
        BY <4>1, <4>3 DEF Top
    <3> QED
      BY <3>1 DEF Removing
  <2>5. Unreaped' = Unreaped /\ c \notin Unreaped
    <3>1. Top \in 1 .. Top
      BY <2>1, LenProperties, EmptySeq DEF Typed, Top
    <3> QED
      BY <2>1, <3>1 DEF Unreaped, Removal
  <2>6. Counted' = Counted \ {c} /\ c \in Counted
    BY <2>2, <2>3, <2>4, <2>5 DEF Counted
  <2>7. Cardinality(Counted') = Cardinality(Counted) - 1
    BY <1>0, <2>6, FS_RemoveElement
  <2>8. CountExact'
    BY <1>0, <2>1, <2>7 DEF CountExact, Counted
  <2>9. ListAlive'
    BY <2>1, <2>3, <2>4, <2>5 DEF ListAlive
  <2> QED
    BY <1>0, <2>1, <2>8, <2>9 DEF RoomKept
<1>7. CASE Idle \/ UNCHANGED vars
  <2>1. UNCHANGED vars
    BY <1>7 DEF Idle
  <2> QED
    BY <2>1 DEF vars, mainVars, signalVars, listVars, CountExact, RoomKept, ListAlive, Unreaped, Removing, Adding, Top
<1>8. ASSUME NEW c \in Clients, Exit(c) PROVE Goal
  <2>1. /\ UNCHANGED <<max, n, list, pc, fd, frames>> /\ child' = [child EXCEPT ![c] = "zombie"]
        /\ child[c] = "running"
    BY <1>8 DEF Exit, mainVars, listVars
  <2>2. Unreaped' = Unreaped /\ Removing' = Removing /\ Adding' = Adding
    BY <2>1 DEF Unreaped, Removing, Adding, Top, Typed
  <2>3. Counted' = Counted
    BY <2>2 DEF Counted
  <2> QED
    BY <1>a, <2>1, <2>2, <2>3 DEF ListAlive, RoomKept
<1>9. ASSUME NEW c \in Clients, ClientStep(c) PROVE Goal
  <2>1. UNCHANGED <<max, n, list, pc, fd, frames, child>>
    BY <1>9 DEF ClientStep, Broadcast, Timeout, Connect, SendIdentity, Quit, mainVars, signalVars, listVars
  <2>2. Unreaped' = Unreaped /\ Removing' = Removing /\ Adding' = Adding
    BY <2>1 DEF Unreaped, Removing, Adding, Top
  <2>3. Counted' = Counted
    BY <2>2 DEF Counted
  <2> QED
    BY <1>a, <2>1, <2>2, <2>3 DEF ListAlive, RoomKept
<1> QED
  BY <1>1, <1>2, <1>3, <1>4, <1>5, <1>6, <1>7, <1>8, <1>9 DEF Next, Main, Handler

-----------------------------------------------------------------------------
(* The variables nothing above depends on *)

Others == max \in Rooms /\ pending \in BOOLEAN /\ ready \subseteq {"tcp", "udp"} /\ sent \subseteq Clients

LEMMA OthersNext == ASSUME Others, [Next]_vars PROVE Others'
<1>1. CASE Main
  BY <1>1 DEF Others, Main, Select, Accept, Room, RoomFor, Check, Enter, Fork, Add, Leave, Reply, signalVars
<1>2. CASE Handler
  BY <1>2 DEF Others, Handler, Deliver, Wait, ListRemove, Return, mainVars
<1>3. CASE Idle \/ UNCHANGED vars
  BY <1>3 DEF Others, Idle, vars, mainVars, signalVars
<1>4. ASSUME NEW c \in Clients, ClientStep(c) \/ Exit(c) PROVE Others'
  <2>1. max' = max /\ ready' = ready /\ (sent' = sent \/ sent' = sent \cup {c}) /\ pending' \in {pending, TRUE}
    BY <1>4 DEF ClientStep, Exit, Broadcast, Timeout, Connect, SendIdentity, Quit, mainVars, signalVars
  <2>2. pending' \in BOOLEAN
    BY <2>1, Zenon DEF Others
  <2> QED
    BY <2>1, <2>2 DEF Others
<1> QED
  BY <1>1, <1>2, <1>3, <1>4 DEF Next

-----------------------------------------------------------------------------
(* The theorems *)

LEMMA InvInit == Init => IInv
<1> SUFFICES ASSUME Init PROVE IInv
  OBVIOUS
<1>1. Len(frames) = 0 /\ Len(backlog) = 0 /\ frames \in Seq(Frame) /\ backlog \in Seq(Clients)
  BY EmptySeq DEF Init
<1>2. Typed
  <2>1. max \in Nat /\ n \in Int /\ list \subseteq Clients /\ inbox \subseteq Clients
        /\ pc \in MainPC /\ fd \in Clients \cup {NoClient}
    BY ServerAssumption DEF Init, MainPC
  <2>2. masked \in BOOLEAN
    BY DEF Init
  <2>3. child \in [Clients -> ChildState] /\ client \in [Clients -> ClientState]
    BY DEF Init, ChildState, ClientState
  <2> QED
    BY <1>1, <2>1, <2>2, <2>3 DEF Typed
<1>3. Nesting /\ Removal
  BY <1>1 DEF Init, Nesting, Removal, InCritical, Top
<1>4. Connections
  BY <1>1, ServerAssumption DEF Init, Connections, HasConnection
<1>5. Counted = {} /\ Unreaped = {}
  BY <1>1 DEF Init, Counted, Unreaped, Removing, Top
<1>6. CountExact
  BY <1>5, FS_EmptySet DEF Init, CountExact, Counted
<1>7. RoomKept /\ ListAlive
  BY <1>2 DEF Init, RoomKept, ListAlive, Typed
<1> QED
  BY <1>2, <1>3, <1>4, <1>6, <1>7 DEF IInv, PartInv

LEMMA InvNext == IInv /\ [Next]_vars => IInv'
<1> SUFFICES ASSUME IInv, [Next]_vars PROVE IInv'
  OBVIOUS
<1>1. PartInv
  BY DEF IInv
<1>2. Typed'
  BY <1>1, TypedNext
<1>3. PartInv'
  BY <1>1, <1>2, NestingNext, ConnectionsNext, RemovalNext DEF PartInv
<1> QED
  BY <1>3, CountNext DEF IInv

\* Every variable keeps its type; child_list.n, which is unsigned, never goes
\* below zero although the handler takes one off for any pid (server.c:129).
THEOREM TypeCorrect == Spec => []TypeOK
<1>1. Init => Others
  BY ServerAssumption DEF Init, Others
<1>2. IInv /\ Others => TypeOK
  <2> SUFFICES ASSUME IInv, Others PROVE TypeOK
    OBVIOUS
  <2> USE DEF IInv, PartInv
  <2>1. n \in Nat
    BY CountedFinite DEF CountExact, Counted
  <2> QED
    BY <2>1 DEF TypeOK, Typed, Others, Frame, ChildState, ClientState
<1> QED
  BY <1>1, <1>2, InvInit, InvNext, OthersNext, PTL DEF Spec

\* Wherever SIGCHLD interrupts the server, and whatever malloc() and fork()
\* answer, child_list.n is the number of children forked and not removed
\* (server.c:125-161, 353-385).
THEOREM CountIsExact == Spec => []CountExact
<1>1. IInv => CountExact
  BY DEF IInv
<1> QED
  BY <1>1, InvInit, InvNext, PTL DEF Spec

\* child_list never keeps a child that is gone (server.c:125-161).
THEOREM ListHasNoDead == Spec => []ListAlive
<1>1. IInv => ListAlive
  BY DEF IInv
<1> QED
  BY <1>1, InvInit, InvNext, PTL DEF Spec

\* There are never more than child_max children (server.c:353).
THEOREM RoomIsEnforced == Spec => []NeverTooMany
<1>1. ASSUME IInv PROVE NeverTooMany
  <2> USE <1>1 DEF IInv, PartInv
  <2>1. /\ n = Cardinality(Counted) /\ IsFiniteSet(Counted) /\ IsFiniteSet(Unreaped)
        /\ n \in Int /\ max \in Nat /\ Cardinality(Unreaped) \in Nat
    BY CountedFinite DEF CountExact, Counted, Typed
  <2>2. CASE pc = "add"
    <3>1. Unreaped \subseteq Counted \cup {fd}
      BY <2>2 DEF Counted, Adding
    <3>2. IsFiniteSet(Counted \cup {fd}) /\ Cardinality(Counted \cup {fd}) <= n + 1
      <4>1. /\ IsFiniteSet(Counted \cup {fd})
            /\ Cardinality(Counted \cup {fd}) \in {Cardinality(Counted), Cardinality(Counted) + 1}
        BY <2>1, FS_AddElement, Zenon
      <4> QED
        BY <2>1, <4>1
    <3>3. Cardinality(Unreaped) <= Cardinality(Counted \cup {fd})
      BY <3>1, <3>2, FS_Subset
    <3>4. Cardinality(Counted \cup {fd}) \in Nat
      BY <3>2, FS_CardinalityType
    <3> QED
      BY <2>1, <2>2, <3>2, <3>3, <3>4 DEF RoomKept, NeverTooMany
  <2>3. CASE pc # "add"
    <3>1. Unreaped \subseteq Counted
      BY <2>3 DEF Counted, Adding
    <3>2. Cardinality(Unreaped) <= Cardinality(Counted)
      BY <2>1, <3>1, FS_Subset
    <3> QED
      BY <2>1, <3>2 DEF RoomKept, NeverTooMany
  <2> QED
    BY <2>2, <2>3
<1> QED
  BY <1>1, InvInit, InvNext, PTL DEF Spec

-----------------------------------------------------------------------------
(* The children wait() finds *)

\* Only the handler on top may still have to call wait().
ToWait == IF frames # <<>> /\ frames[Top].pc = "wait" THEN 1 ELSE 0
Signalled == IF pending THEN 1 ELSE 0

EnoughDead == ToWait + Signalled <= Cardinality(Zombies)

LEMMA HandlersToWait ==
  ASSUME Typed, Nesting
  PROVE  Cardinality({k \in 1 .. Top : frames[k].pc = "wait"}) = ToWait
<1> DEFINE W == {k \in 1 .. Top : frames[k].pc = "wait"}
<1>1. Len(frames) \in Nat /\ (frames # <<>> <=> Len(frames) # 0)
  BY LenProperties, EmptySeq DEF Typed
<1>2. CASE frames # <<>> /\ frames[Top].pc = "wait"
  <2>1. W = {Top}
    BY <1>1, <1>2 DEF Nesting, Top
  <2> QED
    BY <1>2, <2>1, FS_Singleton DEF ToWait
<1>3. CASE ~(frames # <<>> /\ frames[Top].pc = "wait")
  <2>1. W = {}
    BY <1>1, <1>3 DEF Nesting, Top
  <2> QED
    BY <1>3, <2>1, FS_EmptySet DEF ToWait
<1> QED
  BY <1>2, <1>3

LEMMA ZombiesFinite == IsFiniteSet(Zombies) /\ Cardinality(Zombies) \in Nat
<1>1. Zombies \in SUBSET Clients
  BY DEF Zombies
<1> QED
  BY <1>1, ServerAssumption, FS_Subset, FS_CardinalityType

LEMMA EnoughDeadNext ==
  ASSUME PartInv, PartInv', EnoughDead, [Next]_vars
  PROVE  EnoughDead'
<1> USE DEF PartInv
<1>0. /\ Len(frames) \in Nat /\ (frames # <<>> <=> Len(frames) # 0)
      /\ Len(frames') \in Nat /\ (frames' # <<>> <=> Len(frames') # 0)
      /\ Cardinality(Zombies) \in Nat /\ IsFiniteSet(Zombies)
      /\ ToWait \in 0 .. 1 /\ Signalled \in 0 .. 1
  BY LenProperties, EmptySeq, ZombiesFinite DEF Typed, ToWait, Signalled
<1>a. ASSUME ToWait' = ToWait, Signalled' = Signalled, Zombies' = Zombies PROVE EnoughDead'
  BY <1>a DEF EnoughDead
<1>1. CASE Main
  <2>1. UNCHANGED <<frames, pending>>
    BY <1>1 DEF Main, Select, Accept, Room, RoomFor, Check, Enter, Fork, Add, Leave, Reply, signalVars
  <2>2. child' = child \/ (child[fd] = "none" /\ fd \in Clients /\ child' = [child EXCEPT ![fd] = "running"])
    BY <1>1 DEF Main, Select, Accept, Room, RoomFor, Check, Enter, Fork, Add, Leave, Reply, At, Connections,
       HasConnection
  <2>3. Zombies' = Zombies
    BY <2>2 DEF Zombies, Typed
  <2> QED
    BY <1>a, <2>1, <2>3 DEF ToWait, Signalled, Top
<1>2. CASE Deliver
  <2>1. /\ Signalled = 1 /\ Signalled' = 0 /\ Zombies' = Zombies /\ ~masked
    BY <1>2 DEF Deliver, Signalled, Zombies
  <2>2. ToWait = 0
    BY <2>1 DEF Nesting, ToWait
  <2>3. ToWait' = 1
    BY <1>0, <1>2, DeliverFrames DEF ToWait, Top
  <2> QED
    BY <1>0, <2>1, <2>2, <2>3 DEF EnoughDead
<1>3. CASE Wait
  <2>1. PICK c \in Zombies :
          /\ child' = [child EXCEPT ![c] = "reaped"]
          /\ frames' = [frames EXCEPT ![Top] = [pc |-> "remove", pid |-> c]]
    BY <1>3 DEF Wait
  <2>2. frames # <<>> /\ ToWait = 1 /\ Signalled' = Signalled
    BY <1>3 DEF Wait, InHandler, ToWait, Signalled
  <2>3. Zombies' = Zombies \ {c}
    BY <2>1 DEF Zombies, Typed
  <2>4. Cardinality(Zombies') = Cardinality(Zombies) - 1
    BY <1>0, <2>1, <2>3, FS_RemoveElement
  <2>5. ToWait' = 0
    <3>1. /\ Len(frames') = Len(frames) /\ frames'[Len(frames)] = [pc |-> "remove", pid |-> c]
      <4>1. Len(frames) \in 1 .. Len(frames) /\ c \in Clients
        BY <1>0, <2>1, <2>2 DEF Zombies
      <4> QED
        BY <2>1, <2>2, <4>1, WaitFrames
    <3> QED
      BY <3>1 DEF ToWait, Top
  <2> QED
    BY <1>0, <2>2, <2>4, <2>5 DEF EnoughDead
<1>4. CASE ListRemove
  <2>1. /\ ToWait = 0 /\ Signalled' = Signalled /\ Zombies' = Zombies /\ frames # <<>>
    BY <1>4 DEF ListRemove, InHandler, ToWait, Signalled, Zombies
  <2>2. ToWait' = 0
    <3>1. Len(frames) \in 1 .. Len(frames)
      BY <1>0, <2>1
    <3>2. frames'[Len(frames')].pc = "return"
      BY <1>4, <3>1, RemoveFrames
    <3> QED
      BY <3>2 DEF ToWait, Top
  <2> QED
    BY <1>a, <2>1, <2>2
<1>5. CASE Return
  <2>1. /\ ToWait = 0 /\ Signalled' = Signalled /\ Zombies' = Zombies /\ frames # <<>>
    BY <1>5 DEF Return, InHandler, ToWait, Signalled, Zombies
  <2>2. ToWait' = 0
    <3>1. CASE frames' = <<>>
      BY <3>1 DEF ToWait
    <3>2. CASE frames' # <<>>
      <4>1. Len(frames') \in 1 .. Len(frames') /\ Len(frames') \in 1 .. Len(frames) /\ Len(frames') < Len(frames)
        BY <1>0, <1>5, <3>2, ReturnFrames
      <4>2. frames'[Len(frames')].pc = "return"
        BY <1>5, <4>1, ReturnFrames DEF Nesting, Top
      <4> QED
        BY <4>2 DEF ToWait, Top
    <3> QED
      BY <3>1, <3>2
  <2> QED
    BY <1>a, <2>1, <2>2
<1>6. CASE Idle \/ UNCHANGED vars
  <2>1. UNCHANGED vars
    BY <1>6 DEF Idle
  <2> QED
    BY <1>a, <2>1 DEF vars, signalVars, ToWait, Signalled, Zombies, Top
<1>7. ASSUME NEW c \in Clients, Exit(c) PROVE EnoughDead'
  <2>1. Signalled' = 1 /\ ToWait' = ToWait
    BY <1>7 DEF Exit, Signalled, ToWait, Top
  <2>2. Zombies' = Zombies \cup {c} /\ c \notin Zombies
    BY <1>7 DEF Exit, Zombies, Typed
  <2>3. Cardinality(Zombies') = Cardinality(Zombies) + 1
    BY <1>0, <2>2, FS_AddElement
  <2> QED
    BY <1>0, <2>1, <2>3 DEF EnoughDead
<1>8. ASSUME NEW c \in Clients, ClientStep(c) PROVE EnoughDead'
  <2>1. UNCHANGED <<frames, pending, child>>
    BY <1>8 DEF ClientStep, Broadcast, Timeout, Connect, SendIdentity, Quit, signalVars
  <2> QED
    BY <1>a, <2>1 DEF ToWait, Signalled, Zombies, Top
<1> QED
  BY <1>1, <1>2, <1>3, <1>4, <1>5, <1>6, <1>7, <1>8 DEF Next, Handler

\* wait() in the handler always finds a dead child, however many children die
\* while a handler runs and however handlers nest: the server neither blocks in
\* the handler nor removes the pid of a failed wait() (server.c:184-198).
THEOREM WaitFindsChild == Spec => []HandlerHasChild
<1>1. Init => EnoughDead
  <2> SUFFICES ASSUME Init PROVE EnoughDead
    OBVIOUS
  <2>1. ToWait = 0 /\ Signalled = 0
    BY DEF Init, ToWait, Signalled
  <2> QED
    BY <2>1, ZombiesFinite DEF EnoughDead
<1>2. IInv /\ IInv' /\ EnoughDead /\ [Next]_vars => EnoughDead'
  BY EnoughDeadNext DEF IInv
<1>3. IInv /\ EnoughDead => HandlerHasChild
  BY HandlersToWait DEF IInv, PartInv, EnoughDead, HandlerHasChild, Signalled
<1> QED
  BY <1>1, <1>2, <1>3, InvInit, InvNext, PTL DEF Spec

=============================================================================

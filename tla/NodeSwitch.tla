----------------------------- MODULE NodeSwitch -----------------------------
(***************************************************************************)
(* The multinode core: the slots of TNodeManager and its list of nodes to  *)
(* service (src/engine/NM_Node.pas), what the server's messages and the    *)
(* driver do to them (src/engine/NM_ServerBridge.pas), and of each node    *)
(* its state, the carrier of its UART, the mode of its modem               *)
(* (src/engine/NM_ATCommand.pas) and its socket.                           *)
(*                                                                         *)
(* A node is an object on the heap: the list holds references, and a       *)
(* freed object's address may be given to the next node.  Bytes are left   *)
(* to NetTransport and Fossil.                                             *)
(***************************************************************************)
EXTENDS Integers, Sequences, FiniteSets, SequencesExt

CONSTANTS
  Index,     \* the slots
  MaxNodes,  \* NM_MAX_NODES, the size of both arrays
  Node,      \* the addresses of node objects
  None       \* nil

ASSUME SwitchAssumption ==
  /\ IsFiniteSet(Index) /\ Cardinality(Index) = MaxNodes
  /\ None \notin Node

VARIABLES
  slot,      \* FNodes
  active,    \* FActive, its first FActiveCount entries
  state,     \* FState of each object
  carrier,   \* Online of its UART
  modem,     \* FMode of its modem
  link       \* its socket: "up", "closing" (the peer closed) or "down"

vars == <<slot, active, state, carrier, modem, link>>

Live == {slot[i] : i \in Index} \ {None}

Init ==
  /\ slot = [i \in Index |-> None]
  /\ active = <<>>
  /\ state = [n \in Node |-> "idle"]
  /\ carrier = [n \in Node |-> FALSE]
  /\ modem = [n \in Node |-> "command"]
  /\ link = [n \in Node |-> "down"]

Be(f, n, v) == [f EXCEPT ![n] = v]

-----------------------------------------------------------------------------
(* The list. *)

(* Fault: neither the list nor its size is looked at. *)
AddActiveUnchecked(list, n) == Append(list, n)

AddActive(list, n) ==
  IF n \in Range(list) \/ Len(list) >= MaxNodes THEN list ELSE Append(list, n)

(* Fault: the purge before an object is freed is missing. *)
RemoveActiveNot(list, n) == list

(* Fault: the entry is removed from the end, not from its place. *)
RemoveActiveLast(list, n) == IF n \in Range(list) THEN Front(list) ELSE list

(* The loop stops at the first entry. *)
First(list, n) == CHOOSE i \in DOMAIN list : list[i] = n /\ \A j \in 1..i - 1 : list[j] # n

RemoveActive(list, n) == IF n \in Range(list) THEN RemoveAt(list, First(list, n)) ELSE list

(* The fields of objects in S, freed or new, have their initial values. *)
Blank(f, S, v) == [n \in Node |-> IF n \in S THEN v ELSE f[n]]

(* AddNode frees what was in the slot and puts a new object there. *)
AddNode(i, n, l) ==
  /\ n \notin Live
  /\ slot' = [slot EXCEPT ![i] = n]
  /\ active' = RemoveActive(active, slot[i])
  /\ state' = Blank(state, {n, slot[i]}, "idle")
  /\ carrier' = Blank(carrier, {n, slot[i]}, FALSE)
  /\ modem' = Blank(modem, {n, slot[i]}, "command")
  /\ link' = Be(Blank(link, {slot[i]}, "down"), n, l)

ConnectInbound(n) ==
  /\ carrier' = Be(carrier, n, TRUE)
  /\ state' = Be(state, n, "online")
  /\ active' = AddActive(active, n)
  /\ modem' = Be(modem, n, "online")

-----------------------------------------------------------------------------
(* The server's messages. *)

(* OnConnectNode makes a node for an empty slot; its link is new and not   *)
(* connected.                                                              *)
OnConnectNode(i) ==
  \/ /\ slot[i] # None
     /\ ConnectInbound(slot[i])
     /\ UNCHANGED <<slot, link>>
  \/ /\ slot[i] = None
     /\ \E n \in Node \ Live :
          /\ slot' = [slot EXCEPT ![i] = n]
          /\ link' = Be(link, n, "down")
          /\ ConnectInbound(n)

(* Disconnect, then RemoveNode frees the object. *)
OnDisconnectNode(i) ==
  /\ slot[i] # None
  /\ slot' = [slot EXCEPT ![i] = None]
  /\ active' = RemoveActive(active, slot[i])
  /\ state' = Blank(state, {slot[i]}, "idle")
  /\ carrier' = Blank(carrier, {slot[i]}, FALSE)
  /\ modem' = Blank(modem, {slot[i]}, "command")
  /\ link' = Blank(link, {slot[i]}, "down")

(* OnBinary with AWill; without it nothing happens. *)
OnBinary(i) ==
  /\ slot[i] # None
  /\ ConnectInbound(slot[i])
  /\ UNCHANGED <<slot, link>>

(* smConnect: RING, and MarkActive. *)
Ring(i) ==
  /\ slot[i] # None
  /\ active' = AddActive(active, slot[i])
  /\ UNCHANGED <<slot, state, carrier, modem, link>>

-----------------------------------------------------------------------------
(* The guest of a node in command mode: a line that ends in ATD, in ATH or *)
(* ATZ, or in ATO.  The other commands leave all of this alone.            *)

Dial(n) ==
  \/ /\ link' = Be(link, n, "up")
     /\ carrier' = Be(carrier, n, TRUE)
     /\ modem' = Be(modem, n, "online")
  \/ /\ link' = Be(link, n, "down")
     /\ UNCHANGED <<carrier, modem>>

Hook(n) ==
  /\ link' = Be(link, n, "down")
  /\ carrier' = Be(carrier, n, FALSE)
  /\ UNCHANGED modem

ReturnOnline(n) == modem' = Be(modem, n, "online") /\ UNCHANGED <<link, carrier>>

GuestCommand(i) ==
  /\ slot[i] # None
  /\ modem[slot[i]] = "command"
  /\ Dial(slot[i]) \/ Hook(slot[i]) \/ ReturnOnline(slot[i])
  /\ UNCHANGED <<slot, active, state>>

(* FOSSIL Fn 05h, or Fn 06h with AL = 0: the carrier falls, the socket     *)
(* stays.                                                                  *)
GuestDropsDTR(i) ==
  /\ slot[i] # None
  /\ carrier' = Be(carrier, slot[i], FALSE)
  /\ UNCHANGED <<slot, active, state, modem, link>>

-----------------------------------------------------------------------------
(* Pumping. *)

(* Fault: the node does not note that its transport reported the end. *)
StatePumpedStale(n) == state[n]

StatePumped(n) == IF link[n] = "up" THEN state[n] ELSE "hungup"

(* The nodes of S are pumped: those without a connection hang up. *)
Pump(S) ==
  /\ state' = [n \in Node |-> IF n \in S THEN StatePumped(n) ELSE state[n]]
  /\ carrier' = [n \in Node |-> carrier[n] /\ (n \in S => link[n] = "up")]
  /\ link' = [n \in Node |-> IF n \in S /\ link[n] = "closing" THEN "down" ELSE link[n]]

(* What PumpAll leaves in the list: what was online when its turn came, in *)
(* the order it was there.                                                 *)
InOrder(S) ==
  {q \in Bijection(1..Cardinality(S), S) : \A i, j \in DOMAIN q : i < j => q[i] < q[j]}
Survivors(list) ==
  {[i \in DOMAIN q |-> list[q[i]]] :
     q \in InOrder({k \in DOMAIN list : state[list[k]] = "online"})}

PumpAll ==
  /\ Pump({n \in Range(active) : state[n] = "online"})
  /\ active' \in Survivors(active)
  /\ UNCHANGED <<slot, modem>>

(* DriverIO pumps its node itself, whether or not it is in the list.  The  *)
(* door's bytes it feeds first are a GuestCommand when they end a line in  *)
(* command mode, and no change of this state otherwise.                    *)
DriverIO(i) ==
  /\ slot[i] # None
  /\ Pump({slot[i]})
  /\ UNCHANGED <<slot, active, modem>>

(* The peer of a connected node closes. *)
PeerCloses(n) ==
  /\ link[n] = "up"
  /\ link' = Be(link, n, "closing")
  /\ UNCHANGED <<slot, active, state, carrier, modem>>

Next ==
  \/ \E i \in Index, n \in Node, l \in {"up", "down"} : AddNode(i, n, l)
  \/ \E i \in Index :
       \/ OnConnectNode(i)
       \/ OnDisconnectNode(i)
       \/ OnBinary(i)
       \/ Ring(i)
       \/ GuestCommand(i)
       \/ GuestDropsDTR(i)
       \/ DriverIO(i)
  \/ PumpAll
  \/ \E n \in Node : PeerCloses(n)

(* The server's main tick. *)
Spec == Init /\ [][Next]_vars /\ WF_vars(PumpAll)

-----------------------------------------------------------------------------
TypeOK ==
  /\ slot \in [Index -> Node \cup {None}]
  /\ active \in Seq(Node) /\ Len(active) <= MaxNodes
  /\ state \in [Node -> {"idle", "online", "hungup"}]
  /\ carrier \in [Node -> BOOLEAN]
  /\ modem \in [Node -> {"command", "online"}]
  /\ link \in [Node -> {"up", "closing", "down"}]

(* The list refers to no freed object, so PumpAll and BroadcastStr never   *)
(* follow a dangling reference (NM_Node.pas 251, 272), and to no node      *)
(* twice, whatever order of messages put it there: one removal removes it  *)
(* (NM_Node.pas 284).                                                      *)
NoDangling == Range(active) \subseteq Live /\ IsInjective(active)

(* A node whose state is online is in the list, also when the array is     *)
(* full (NM_Node.pas 280-309): PumpAll looks nowhere else.                 *)
OnlineListed == \A n \in Live : state[n] = "online" => n \in Range(active)

(* A node that lost its connection is found out by a later tick, and one   *)
(* that is no longer online is dropped from the list: none is trapped      *)
(* (NM_Node.pas 311-329).                                                  *)
Lost(n) == n \in Live /\ state[n] = "online" /\ link[n] # "up"

Dead(n) == n \in Range(active) /\ state[n] # "online"

NoTrapping == \A n \in Node : (Lost(n) ~> ~Lost(n)) /\ (Dead(n) ~> ~Dead(n))
=============================================================================

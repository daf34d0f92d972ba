------------------------------- MODULE CyPort -------------------------------
(***************************************************************************)
(* What reading and writing of a Cyclades port have in common: the one     *)
(* handle, the requests (IRPs) on it, and the cancel-safe queue in which   *)
(* a request waits for the hardware.  The queue's callbacks only run under *)
(* its spinlock, so insertion, removal and cancellation are atomic; what   *)
(* a routine does before and after is not.                                 *)
(***************************************************************************)
EXTENDS Integers, Sequences, FiniteSets

CONSTANTS Irps,       \* requests a program makes, each once
          Cpus,       \* processors; a DPC may run on each of them
          NoIrp,
          MaxOpens

ASSUME PortAssumption == /\ IsFiniteSet(Irps) /\ NoIrp \notin Irps
                         /\ MaxOpens \in Nat

VARIABLES handle,     \* of the I/O manager: none, open, cleanup, cleaned
          isOpen,     \* IsOpen of the extension
          opens,
          queue,      \* ReadQueueHead or WriteQueueHead
          pos,        \* where a request is
          cancel,     \* requests outside the queue whose Cancel flag is set
          purging,    \* an ABORT purge is draining the queue
          dpcQueued,  \* processors with the DPC in their queue
          dpcPc,      \* per processor: idle, next, have, requeue
          dpcIrp      \* per processor: the request the DPC holds

port == <<handle, isOpen, opens, purging>>
dpc  == <<dpcQueued, dpcPc, dpcIrp>>
requests == <<queue, pos, cancel>>
portVars == <<port, dpc, requests>>

Finished == {"ok", "cancelled"}

PortInit ==
  /\ handle = "none" /\ isOpen = FALSE /\ opens = 0
  /\ queue = <<>> /\ pos = [i \in Irps |-> "new"] /\ cancel = {}
  /\ purging = FALSE
  /\ dpcQueued = {} /\ dpcPc = [c \in Cpus |-> "idle"]
  /\ dpcIrp = [c \in Cpus |-> NoIrp]

Becomes(i, place) == pos' = [pos EXCEPT ![i] = place]
Done(i, status) == Becomes(i, status) /\ cancel' = cancel \ {i}
Pending == {i \in Irps : pos[i] \in {"queued", "dpc"}}

-----------------------------------------------------------------------------
\* The cancel-safe queue.  IoCsqInsertIrp completes a request that was
\* cancelled before it got there.
CsqInsert(i) ==
  IF i \in cancel
    THEN Done(i, "cancelled") /\ UNCHANGED queue
    ELSE Becomes(i, "queued") /\ queue' = Append(queue, i) /\ UNCHANGED cancel

\* Fault: the request found is left in the list.
CsqPeekNext(place) ==
  queue # <<>> /\ UNCHANGED queue /\ Becomes(Head(queue), place)
CsqRemoveNext(place) ==
  queue # <<>> /\ queue' = Tail(queue) /\ Becomes(Head(queue), place)

Without(n) == SubSeq(queue, 1, n - 1) \o SubSeq(queue, n + 1, Len(queue))

CompleteCanceled(i) ==
  /\ pos[i] = "queued"
  /\ \E n \in DOMAIN queue : queue[n] = i /\ queue' = Without(n)
  /\ Becomes(i, "cancelled") /\ UNCHANGED cancel

CancelIrp(i) ==
  /\ \/ CompleteCanceled(i)
     \/ /\ pos[i] \in {"entered", "slow", "dpc"} /\ i \notin cancel
        /\ cancel' = cancel \cup {i} /\ UNCHANGED <<queue, pos>>
  /\ UNCHANGED <<port, dpc>>

-----------------------------------------------------------------------------
\* Create, on the started port this module is about.
OpenPort ==
  /\ handle = "none" /\ ~isOpen /\ opens < MaxOpens
  /\ handle' = "open" /\ isOpen' = TRUE /\ opens' = opens + 1
  /\ UNCHANGED <<purging, dpc, requests>>

\* The program closes its handle: no new request, and Cleanup drains the queue.
CleanupEnter ==
  /\ handle = "open" /\ handle' = "cleanup"
  /\ UNCHANGED <<isOpen, opens, purging, dpc, requests>>

CleanupReturn ==
  /\ handle = "cleanup" /\ queue = <<>> /\ handle' = "cleaned"
  /\ UNCHANGED <<isOpen, opens, purging, dpc, requests>>

\* An ABORT purge, issued by a thread that holds the handle.
PurgeEnter ==
  /\ handle = "open" /\ ~purging /\ purging' = TRUE
  /\ UNCHANGED <<handle, isOpen, opens, dpc, requests>>

PurgeReturn ==
  /\ purging /\ queue = <<>> /\ purging' = FALSE
  /\ UNCHANGED <<handle, isOpen, opens, dpc, requests>>

\* The loop both share: remove the next request and complete it as cancelled.
DrainNext ==
  /\ handle = "cleanup" \/ purging
  /\ CsqRemoveNext("cancelled")
  /\ UNCHANGED <<port, dpc, cancel>>

\* Close comes when Cleanup is over and no request of the handle is left.
ClosePort ==
  /\ handle = "cleaned" /\ isOpen
  /\ \A i \in Irps : pos[i] \in Finished \cup {"new"}
  /\ ~purging
  /\ handle' = "none" /\ isOpen' = FALSE
  /\ UNCHANGED <<opens, purging, dpc, requests>>

-----------------------------------------------------------------------------
\* Deferred calls.  Queueing one that is queued already does nothing, but it
\* may be queued again, also on another processor, while it runs.
QueueDpc(c) == dpcQueued' = IF dpcQueued = {} THEN {c} ELSE dpcQueued

DpcStart(c) ==
  /\ c \in dpcQueued /\ dpcPc[c] = "idle"
  /\ dpcQueued' = dpcQueued \ {c}
  /\ dpcPc' = [dpcPc EXCEPT ![c] = "next"]
  /\ UNCHANGED <<port, requests, dpcIrp>>

DpcTake(c) ==
  /\ dpcPc[c] = "next"
  /\ CsqRemoveNext("dpc")
  /\ dpcPc' = [dpcPc EXCEPT ![c] = "have"]
  /\ dpcIrp' = [dpcIrp EXCEPT ![c] = Head(queue)]
  /\ UNCHANGED <<port, cancel, dpcQueued>>

DpcLeave(c) ==
  /\ dpcPc[c] = "next"
  /\ dpcPc' = [dpcPc EXCEPT ![c] = "idle"]
  /\ UNCHANGED <<port, requests, dpcQueued, dpcIrp>>

\* The DPC lets go of its request and goes on with the loop or leaves it.
DpcRelease(c, to) ==
  /\ dpcPc' = [dpcPc EXCEPT ![c] = to]
  /\ dpcIrp' = [dpcIrp EXCEPT ![c] = NoIrp]

DpcRequeue(c) ==
  /\ dpcPc[c] = "requeue"
  /\ CsqInsert(dpcIrp[c])
  /\ DpcRelease(c, "idle")
  /\ UNCHANGED <<port, dpcQueued>>

-----------------------------------------------------------------------------
\* A request has one owner: it is in the queue once, or with one DPC, or with
\* its own thread, or completed; what is completed nobody holds any more.
OneOwner ==
  /\ \A m, n \in DOMAIN queue : queue[m] = queue[n] => m = n
  /\ {queue[n] : n \in DOMAIN queue} = {i \in Irps : pos[i] = "queued"}
  /\ \A c, d \in Cpus : dpcIrp[c] = dpcIrp[d] => c = d \/ dpcIrp[c] = NoIrp
  /\ {dpcIrp[c] : c \in Cpus} \ {NoIrp} = {i \in Irps : pos[i] = "dpc"}

PortTypeOK ==
  /\ handle \in {"none", "open", "cleanup", "cleaned"}
  /\ isOpen \in BOOLEAN /\ (isOpen <=> handle # "none")
  /\ opens \in 0..MaxOpens /\ purging \in BOOLEAN
  /\ queue \in Seq(Irps)
  /\ pos \in [Irps -> Finished \cup {"new", "entered", "slow", "queued", "dpc"}]
  /\ cancel \subseteq Irps
  /\ dpcQueued \subseteq Cpus /\ dpcPc \in [Cpus -> {"idle", "next", "have", "requeue"}]
  /\ dpcIrp \in [Cpus -> Irps \cup {NoIrp}]
  /\ \A c \in Cpus : dpcPc[c] \in {"have", "requeue"} <=> dpcIrp[c] # NoIrp
=============================================================================

----------------------------- MODULE SynapseLink -----------------------------
(***************************************************************************)
(* TSynapseLink, the socket link of real builds                            *)
(* (src/engine/NM_SynapseLink.pas), over the two calls of the vendored     *)
(* Synapse it makes (src/libs/synapse/blcksock.pas): SendBuffer with the   *)
(* buffer of bytes it did not get rid of, and RecvBufferEx with the rest   *)
(* of the last packet it read.                                             *)
(*                                                                         *)
(* Bytes are numbered in the order in which they enter a direction, so a   *)
(* byte lost, doubled or moved can be told from the others.  One call is   *)
(* one step: what the peer does while SendBuffer waits is among the        *)
(* outcomes of SendBuffer.                                                 *)
(***************************************************************************)
EXTENDS Integers, Sequences

CONSTANTS
  TailMax,   \* NM_SEND_TAIL_MAX
  Chunk,     \* the length asked of Recv, 1024 in TNetTransport.Pump
  MaxLen,    \* bound: the longest buffer given to Send
  MaxBytes,  \* bound: the bytes a connection sees in each direction
  MaxWire    \* bound: the bytes that reach the kernel, repetitions included

ASSUME LinkAssumption ==
  /\ {TailMax, Chunk, MaxLen} \subseteq Nat \ {0}
  /\ {MaxBytes, MaxWire} \subseteq Nat

VARIABLES
  connected, \* FConnected
  tail,      \* FSendTail
  buffer,    \* Synapse's FBuffer
  wire,      \* the bytes the kernel took, in order
  given,     \* the number of bytes callers passed to Send
  accepted,  \* the bytes Send reported as sent
  inbox,     \* the bytes waiting in the kernel
  arrived,   \* the number of bytes the peer sent
  handed,    \* the bytes Recv returned
  eof        \* the peer closed

sending == <<tail, wire, given, accepted>>
receiving == <<buffer, inbox, arrived, handed>>
linkVars == <<connected, sending, receiving, eof>>

(* Bytes first to last, by number. *)
Numbered(first, last) == [i \in 1 .. last - first + 1 |-> first + i - 1]

LinkInit ==
  /\ connected = FALSE /\ eof = FALSE
  /\ tail = <<>> /\ wire = <<>> /\ given = 0 /\ accepted = <<>>
  /\ buffer = <<>> /\ inbox = <<>> /\ arrived = 0 /\ handed = <<>>

(* A new socket, and empty buffers on top of it. *)
Connect ==
  /\ ~connected
  /\ connected' = TRUE /\ eof' = FALSE
  /\ tail' = <<>> /\ wire' = <<>> /\ given' = 0 /\ accepted' = <<>>
  /\ buffer' = <<>> /\ inbox' = <<>> /\ arrived' = 0 /\ handed' = <<>>

Close ==
  /\ connected' = FALSE
  /\ tail' = <<>>
  /\ UNCHANGED <<wire, given, accepted, receiving, eof>>

-----------------------------------------------------------------------------
(* SendBuffer(s): it has moved n bytes of s when it stops.  It goes on     *)
(* until all are gone, a refusal by a socket select called writable, 15    *)
(* seconds without room, or an error.                                      *)
Outcomes(s) ==
  {[n |-> Len(s), error |-> "none"]} \cup
  [n : 0 .. Len(s) - 1, error : {"wouldblock", "fatal"}]

(* Fault: the cap is ignored. *)
QueueTailUncapped(t, s) == t \o s

QueueTail(t, s) ==
  IF TailMax <= Len(t) THEN t
  ELSE t \o SubSeq(s, 1, IF Len(s) < TailMax - Len(t) THEN Len(s) ELSE TailMax - Len(t))

(* Fault: a refusal is taken for success. *)
FlushedIgnoringBlock(o) ==
  [is |-> IF o.error = "fatal" THEN "closed" ELSE "empty", tail |-> <<>>]

(* FlushTail moves the tail; its results are "empty", "kept" and "closed". *)
Flushed(o) ==
  IF o.error = "none" THEN [is |-> "empty", tail |-> <<>>]
  ELSE IF o.error = "wouldblock" THEN [is |-> "kept", tail |-> tail]
  ELSE [is |-> "closed", tail |-> <<>>]

(* Send hands the new bytes s to SendBuffer once the tail is gone. *)
SendNew(s, sent) ==
  \E o \in Outcomes(s) :
    /\ wire' = sent \o SubSeq(s, 1, o.n)
    /\ \/ o.error = "none" /\ tail' = <<>> /\ accepted' = accepted \o s
       \/ /\ o.error = "wouldblock"
          /\ tail' = QueueTail(<<>>, s)
          /\ accepted' = accepted \o SubSeq(s, 1, Len(tail'))
       \/ o.error = "fatal" /\ tail' = <<>> /\ UNCHANGED accepted
    /\ connected' = (o.error # "fatal")

Send(len) ==
  LET s == Numbered(given + 1, given + len) IN
  /\ given' = given + len
  /\ \/ tail = <<>> /\ SendNew(s, wire)
     \/ /\ tail # <<>>
        /\ \E o \in Outcomes(tail) :
             LET sent == wire \o SubSeq(tail, 1, o.n) IN
             \/ Flushed(o).is = "empty" /\ SendNew(s, sent)
             \/ /\ Flushed(o).is # "empty"
                /\ wire' = sent
                /\ tail' = Flushed(o).tail
                /\ connected' = (Flushed(o).is # "closed")
                /\ UNCHANGED accepted
  /\ UNCHANGED <<receiving, eof>>

-----------------------------------------------------------------------------
(* RecvBufferEx(Chunk, 0) reads packets until it has Chunk bytes or finds  *)
(* nothing more; the first packet is what the call before left over.       *)
Pending == buffer \o inbox

(* Fault: what was copied out of the last packet is not deleted from it. *)
LeftoverUndeleted ==
  IF Len(buffer) >= Chunk THEN [buffer |-> buffer, inbox |-> inbox]
  ELSE [buffer |-> inbox, inbox |-> <<>>]

(* What the call leaves once Chunk bytes are out. *)
Leftover ==
  IF Len(buffer) >= Chunk
  THEN [buffer |-> SubSeq(buffer, Chunk + 1, Len(buffer)), inbox |-> inbox]
  ELSE [buffer |-> SubSeq(Pending, Chunk + 1, Len(Pending)), inbox |-> <<>>]

(* Error 0: Chunk bytes. *)
RecvWhole ==
  /\ Len(Pending) >= Chunk
  /\ handed' = handed \o SubSeq(Pending, 1, Chunk)
  /\ buffer' = Leftover.buffer
  /\ inbox' = Leftover.inbox
  /\ UNCHANGED connected

(* Fewer: WSAETIMEDOUT, for which Recv reports that nothing was there, or, *)
(* once the peer is gone, WSAECONNRESET, for which it reports lrClosed,    *)
(* and the transport looks no further.                                     *)
RecvShort ==
  /\ Len(Pending) < Chunk
  /\ buffer' = <<>> /\ inbox' = <<>>
  /\ UNCHANGED handed
  /\ connected' = ~eof

Recv ==
  /\ RecvWhole \/ RecvShort
  /\ UNCHANGED <<sending, arrived, eof>>

-----------------------------------------------------------------------------
(* The peer. *)

Deliver ==
  /\ ~eof
  /\ arrived' = arrived + 1
  /\ inbox' = Append(inbox, arrived')
  /\ UNCHANGED <<connected, sending, buffer, handed, eof>>

PeerEnds ==
  /\ ~eof
  /\ eof' = TRUE
  /\ UNCHANGED <<connected, sending, receiving>>

LinkNext ==
  \/ Connect
  \/ /\ connected
     /\ \/ Close
        \/ Recv
        \/ PeerEnds
        \/ arrived < MaxBytes /\ Deliver
        \/ \E len \in 1 .. MaxLen :
             given + len <= MaxBytes /\ Send(len) /\ Len(wire') <= MaxWire

LinkSpec == LinkInit /\ [][LinkNext]_linkVars

-----------------------------------------------------------------------------
(* Types, and the tail below its cap (NM_SynapseLink.pas 194-213). *)
LinkTypeOK ==
  /\ connected \in BOOLEAN /\ eof \in BOOLEAN
  /\ given \in 0 .. MaxBytes /\ arrived \in 0 .. MaxBytes
  /\ Len(tail) <= TailMax
  /\ {tail, wire, accepted} \subseteq Seq(1 .. given)
  /\ {buffer, inbox, handed} \subseteq Seq(1 .. arrived)

(* Every byte of whole occurs in stream, at a place behind which none of   *)
(* the bytes before it in whole comes any more: whoever ignores the copy   *)
(* of a byte that comes again, and what is not in whole, reads whole.      *)
Carries(stream, whole) ==
  \A i \in 1 .. Len(whole) : \E k \in 1 .. Len(stream) :
    /\ stream[k] = whole[i]
    /\ \A j \in 1 .. i - 1, m \in k .. Len(stream) : stream[m] # whole[j]

(* Every byte Send reported as sent is on the wire or in the tail, in the  *)
(* order in which it was accepted, whatever mixture of refusals the socket *)
(* answers with (NM_SynapseLink.pas 252-323; the tail is given up only     *)
(* with the connection).                                                   *)
NothingSkipped == connected => Carries(wire \o tail, accepted)

(* The bytes of successive Recv calls are the peer's, in order and at most *)
(* once, also when a packet is longer than the caller's buffer and is      *)
(* split over two calls (blcksock.pas 2329-2361).                          *)
HandedOnce == Carries(Numbered(1, arrived), handed)

(* NM_SynapseLink.pas 58-59: the tail is pushed out "first, in order, so   *)
(* the byte stream stays intact and ordered".                              *)
WireIntact == connected => wire \o tail = accepted
=============================================================================

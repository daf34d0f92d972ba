----------------------------- MODULE AsyncLinux -----------------------------
(***************************************************************************)
(* The communication layer that PCBoard gets on Linux: the ASYNC calls     *)
(* over one stream socket, with the caller at the other end and the kernel *)
(* between them.  A byte is its number in the stream of the peer, so that  *)
(* a lost or repeated byte shows.  The socket blocks, as those the layer   *)
(* opens do; CGETBUF and accept wait in the middle of a call, and CGETSTR  *)
(* gives the peer time to act before each byte.                            *)
(***************************************************************************)
EXTENDS Integers, Sequences

CONSTANTS MaxCalls,   \* connections in a behaviour
          MaxSent,    \* bytes the peer sends in one connection
          MaxLen,     \* largest buffer a call names
          OutBound,   \* bytes written in a behaviour
          FlushMax,   \* bytes CLEARINBUF can discard: 64 reads of 256
          LineEnds    \* the bytes of the stream that are CR or LF

ASSUME BoundsAssumption == /\ MaxCalls \in Nat /\ MaxSent \in Nat
                           /\ MaxLen \in Nat /\ OutBound \in Nat
                           /\ FlushMax \in Nat \ {0}
                           /\ LineEnds \subseteq Nat

VARIABLES env,        \* the variable of the environment that names the channel
          comm_fd,    \* "none" for -1, "open", "shut" once writing is shut down,
                      \* "closed": a number whose descriptor has been closed
          CDokay, CDup,             \* the carrier flags that PCBoard reads
          inBytes, outBytes,        \* _InBytes, _OutBytes
          pc, want, line,           \* the call in progress, its size, CGETSTR's buffer
          peer, arrived,            \* kernel: the other end, bytes it has sent
          next,                     \* kernel: bytes taken out of the socket
          got, flushed,             \* history: handed to PCBoard, discarded
          dropped,                  \* history: what took the carrier away
          calls                     \* successful ASYNC_INIT calls

carrier == <<CDokay, CDup, dropped>>
count   == <<inBytes, outBytes>>
frame   == <<pc, want, line>>
stream  == <<peer, arrived>>
taken   == <<next, got, flushed>>
vars    == <<env, comm_fd, carrier, count, frame, stream, taken, calls>>

\* With PCBFD the caller is there before the first call of the layer.
Init ==
  /\ env \in {"PCBFD", "PCBPORT", "NMPORT"}
  /\ comm_fd = "none" /\ CDokay = FALSE /\ CDup = FALSE
  /\ inBytes = 0 /\ outBytes = 0
  /\ pc = "idle" /\ want = 0 /\ line = <<>>
  /\ peer = IF env = "PCBFD" THEN "open" ELSE "none"
  /\ arrived = 0 /\ next = 0
  /\ got = <<>> /\ flushed = {} /\ dropped = "no" /\ calls = 0

Idle == pc = "idle"
Down(why) == /\ CDokay' = FALSE /\ CDup' = FALSE
             /\ dropped' = IF CDokay THEN why ELSE dropped
Unread  == arrived - next
Return  == pc' = "idle" /\ want' = 0 /\ line' = <<>>
MinOf(a, b) == IF a <= b THEN a ELSE b

-----------------------------------------------------------------------------
\* What the kernel answers to a read: the bytes there are, the end of the
\* stream, or the error of a reset, once, and the end from then on ("gone").
\* select finds nothing on a closed descriptor, and a read of it fails.
Live      == comm_fd \in {"open", "shut"}
Readable  == Live /\ (Unread > 0 \/ peer \in {"closed", "reset", "gone"})
ReadsEnd  == Live /\ Unread = 0 /\ peer \in {"closed", "gone"}
ReadFails == Live /\ Unread = 0 /\ peer = "reset"
Report == /\ peer' = IF ReadFails THEN "gone" ELSE peer
          /\ arrived' = arrived

\* A write fails when this side closed or shut down or the peer reset; towards
\* a peer that closed it may still succeed.
WriteFails == comm_fd # "open" \/ peer # "open"
WriteWorks == comm_fd = "open" /\ peer \in {"open", "closed"}

-----------------------------------------------------------------------------
\* ASYNC_INIT.  PCBoard calls it while it has no carrier.  What the process
\* inherited decides, at every call, which of the three ways is taken.
Starting(name) == Idle /\ ~CDokay /\ calls < MaxCalls /\ env = name

CarrierOn == /\ CDokay' = TRUE /\ CDup' = TRUE /\ dropped' = "no"
             /\ calls' = calls + 1

\* The number in PCBFD is taken again as it is, with the socket and the stream
\* behind it: one that was shut down, or that CLOSECOM closed, as well.
PassedFd == IF comm_fd # "none" THEN comm_fd
            ELSE IF calls = 0 THEN "open" ELSE "closed"

InitByFd ==
  /\ Starting("PCBFD") /\ CarrierOn
  /\ comm_fd' = PassedFd
  /\ UNCHANGED <<env, count, frame, stream, taken>>

\* accept or connect gives a new socket; one still open from the last call is
\* overwritten, not closed.
NewConnection ==
  /\ comm_fd' = "open" /\ CarrierOn
  /\ peer' = "open" /\ arrived' = 0
  /\ next' = 0 /\ got' = <<>> /\ flushed' = {}
  /\ UNCHANGED <<env, count>>

NoConnection ==
  /\ comm_fd' = "none"
  /\ UNCHANGED <<env, carrier, count, stream, taken, calls>>

\* No usable PCBFD: a negative number is stored first.  Without a listening
\* socket the call is over, with the descriptor it found.
InitListen ==
  /\ Starting("PCBPORT")
  /\ comm_fd' \in {comm_fd, "none"}
  /\ pc' \in {"accept", "idle"}
  /\ UNCHANGED <<env, carrier, count, want, line, stream, taken, calls>>

InitAccept ==
  /\ pc = "accept" /\ Return
  /\ NewConnection \/ NoConnection

InitConnect ==
  Starting("NMPORT") /\ (NewConnection \/ NoConnection) /\ UNCHANGED frame

-----------------------------------------------------------------------------
CLOSECOM ==
  /\ Idle
  /\ comm_fd' = "none" /\ Down("local")
  /\ UNCHANGED <<env, count, frame, stream, taken, calls>>

TURNOFFDTR ==
  /\ Idle
  /\ comm_fd' = IF comm_fd = "open" THEN "shut" ELSE comm_fd
  /\ Down("local")
  /\ UNCHANGED <<env, count, frame, stream, taken, calls>>

\* Take n bytes out of the socket and hand them over.
Hand(n) ==
  /\ next' = next + n
  /\ got' = got \o [i \in 1..n |-> next + i]
  /\ inBytes' = inBytes + n
  /\ UNCHANGED <<flushed, outBytes>>

\* COMMINKEY when select found something: a byte, or the end of the call.
KeyByte == Live /\ Unread > 0 /\ Hand(1) /\ UNCHANGED carrier
\* Fault: every call without a byte counts as the end.
KeyEndAny == Live /\ Unread = 0
KeyEnd == ReadsEnd \/ ReadFails
\* Fault: the failed read is answered like an empty one.
KeyLostKept == KeyEnd /\ UNCHANGED <<carrier, taken, count>>
KeyLost == KeyEnd /\ Down("recv") /\ UNCHANGED <<taken, count>>

COMMINKEY ==
  /\ Idle /\ (KeyByte \/ KeyLost) /\ Report
  /\ UNCHANGED <<env, comm_fd, frame, calls>>

\* CSENDBYTE is CSENDSTR of one byte.  A write of nothing returns 0, which
\* the code takes for a failure; a short write loses the rest silently.
CSENDSTR(len) ==
  /\ Idle /\ comm_fd # "none"
  /\ \/ /\ WriteWorks
        /\ \E sent \in 1..len : outBytes' = outBytes + sent
        /\ outBytes' <= OutBound
        /\ UNCHANGED carrier
     \/ /\ WriteFails \/ len = 0
        /\ Down("send") /\ UNCHANGED outBytes
  /\ UNCHANGED <<env, comm_fd, inBytes, frame, stream, taken, calls>>

\* CGETBUF waits in read.  A reset, or a closed descriptor, ends the wait but
\* keeps the carrier; a read of nothing returns 0 like the end of the stream,
\* and takes the carrier away whatever the peer does.
GetBufEnter(maxlen) ==
  /\ Idle /\ comm_fd # "none"
  /\ pc' = "getbuf" /\ want' = maxlen
  /\ UNCHANGED <<env, comm_fd, carrier, count, line, stream, taken, calls>>

GetBufReturn ==
  /\ pc = "getbuf" /\ Return
  /\ \/ /\ Live /\ want > 0 /\ Unread > 0 /\ Report
        /\ \E n \in 1..MinOf(want, Unread) : Hand(n)
        /\ UNCHANGED carrier
     \/ /\ want > 0 /\ ReadsEnd /\ Down("recv") /\ Report
        /\ UNCHANGED <<taken, count>>
     \/ /\ Live /\ want = 0 /\ Down("asked for nothing")
        /\ UNCHANGED <<taken, count, stream>>
     \/ /\ ~Live \/ (want > 0 /\ ReadFails)
        /\ Report /\ UNCHANGED <<carrier, taken, count>>
  /\ UNCHANGED <<env, comm_fd, calls>>

\* CGETSTR: COMMINKEY until a line end, a full buffer, or no byte within 10 ms.
\* The zero behind the line is written in every case.
GetStrEnter(maxlen) ==
  /\ Idle
  /\ pc' = "getstr" /\ want' = maxlen /\ line' = <<>>
  /\ UNCHANGED <<env, comm_fd, carrier, count, stream, taken, calls>>

\* Fault: the zero goes behind a buffer filled to the end.
LineRoomFull == Len(line) < want
LineRoom == Len(line) < want - 1
LineDone == line # <<>> /\ line[Len(line)] \in LineEnds

GetStrByte ==
  /\ pc = "getstr"
  /\ LineRoom /\ ~LineDone /\ KeyByte
  /\ line' = Append(line, next + 1)
  /\ UNCHANGED <<env, comm_fd, pc, want, stream, calls>>

GetStrReturn ==
  /\ pc = "getstr" /\ Return
  /\ \/ /\ ~LineRoom \/ LineDone \/ ~Readable
        /\ UNCHANGED <<carrier, taken, count, stream>>
     \/ /\ LineRoom /\ ~LineDone /\ KeyLost /\ Report
  /\ UNCHANGED <<env, comm_fd, calls>>

\* Fault: without MSG_PEEK the byte is taken.
PeekedTaking == next' = next + 1 /\ UNCHANGED <<got, flushed>>
\* ONLINE and CDSTILLUP look at the next byte without taking it.  Only the
\* end of the stream drops the carrier; an error keeps it.
Peeked == UNCHANGED taken

ONLINE ==
  /\ Idle
  /\ \/ ReadsEnd /\ Down("recv") /\ UNCHANGED taken
     \/ Live /\ Unread > 0 /\ UNCHANGED carrier /\ Peeked
     \/ ReadFails /\ UNCHANGED <<carrier, taken>>
  /\ Report
  /\ UNCHANGED <<env, comm_fd, count, frame, calls>>

\* A full read first, then the rest: an error or the end is passed over.
CLEARINBUF ==
  /\ Idle /\ Readable
  /\ LET n == MinOf(Unread, FlushMax) IN
       /\ next' = next + n
       /\ flushed' = flushed \cup (next + 1)..(next + n)
  /\ Report
  /\ UNCHANGED <<env, comm_fd, carrier, count, frame, got, calls>>

-----------------------------------------------------------------------------
\* The other end, and a reset that may take unread bytes with it.
PeerSend ==
  /\ peer = "open" /\ arrived < MaxSent /\ arrived' = arrived + 1
  /\ UNCHANGED <<env, comm_fd, carrier, count, frame, peer, taken, calls>>

PeerClose ==
  /\ peer = "open" /\ peer' = "closed"
  /\ UNCHANGED <<env, comm_fd, carrier, count, frame, arrived, taken, calls>>

PeerReset ==
  /\ peer \in {"open", "closed"} /\ peer' = "reset"
  /\ arrived' \in {next, arrived}
  /\ UNCHANGED <<env, comm_fd, carrier, count, frame, taken, calls>>

Program ==
  \/ InitByFd \/ InitListen \/ InitAccept \/ InitConnect
  \/ CLOSECOM \/ TURNOFFDTR \/ COMMINKEY
  \/ \E n \in 0..MaxLen : CSENDSTR(n) \/ GetBufEnter(n) \/ GetStrEnter(n)
  \/ GetBufReturn \/ GetStrByte \/ GetStrReturn
  \/ ONLINE \/ CLEARINBUF

Next == Program \/ PeerSend \/ PeerClose \/ PeerReset

\* PCBoard comes back to the keyboard call for ever, between whatever other
\* calls; a call that can go on does.
Fairness == SF_vars(COMMINKEY) /\ WF_vars(GetBufReturn)
            /\ WF_vars(GetStrByte \/ GetStrReturn)

Spec == Init /\ [][Next]_vars
FairSpec == Spec /\ Fairness

-----------------------------------------------------------------------------
\* Shapes and bounds; both carrier flags agree; the line and its zero fit into
\* every buffer that has any room (one of no bytes gets a zero all the same);
\* only a number from PCBFD is ever that of a closed descriptor.
TypeOK ==
  /\ env \in {"PCBFD", "PCBPORT", "NMPORT"}
  /\ comm_fd \in {"none", "open", "shut", "closed"}
  /\ CDokay \in BOOLEAN /\ CDup = CDokay
  /\ CDokay => comm_fd # "none"
  /\ comm_fd = "closed" => env = "PCBFD"
  /\ inBytes \in Nat /\ outBytes \in Nat
  /\ pc \in {"idle", "accept", "getbuf", "getstr"}
  /\ want \in 0..MaxLen /\ line \in Seq(Nat)
  /\ pc = "getstr" /\ want > 0 => Len(line) + 1 <= want
  /\ peer \in {"none", "open", "closed", "reset", "gone"}
  /\ arrived \in 0..MaxSent /\ next \in 0..arrived
  /\ dropped \in {"no", "local", "recv", "send", "asked for nothing"}
  /\ calls \in 0..MaxCalls

Handed == {got[i] : i \in DOMAIN got}

\* Every byte taken out of the socket was either handed to PCBoard, once and
\* in order, or discarded by CLEARINBUF: watching the carrier, or a line that
\* ends early, costs no byte.
ReadOnce ==
  /\ \A i, j \in DOMAIN got : i < j => got[i] < got[j]
  /\ Handed \cup flushed = 1..next
  /\ Handed \cap flushed = {}

\* When a reading call that asks for at least one byte takes the carrier away
\* the call is really over: the peer has gone, and if it left in good order its
\* last byte has been read.  A CGETBUF of nothing is the call it does not hold
\* for: see NoCarrierNoPeer.
DropsAtEnd ==
  dropped = "recv" => /\ peer \in {"closed", "reset", "gone"}
                      /\ peer = "closed" => next = arrived

\* Once the peer has gone, polling takes the carrier down, as long as the
\* descriptor is a socket; over a closed one (CarrierHasSocket) no poll does.
HangupNoticed ==
  (CDokay /\ Live /\ peer \in {"closed", "reset", "gone"}) ~> ~CDokay

\* What the flag is declared to mean, "1 = connected": it stands over a socket
\* that has not been closed.  PCBFD taken again after CLOSECOM breaks it.
CarrierHasSocket == CDokay => comm_fd # "closed"

\* And "0 = disconnected": no reading call takes the carrier away while the
\* peer is there.  A CGETBUF of nothing does.
NoCarrierNoPeer == dropped \in {"recv", "asked for nothing"} => peer # "open"

=============================================================================

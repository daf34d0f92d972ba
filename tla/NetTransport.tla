---------------------------- MODULE NetTransport ----------------------------
(***************************************************************************)
(* TNetTransport (src/engine/NetTransport.pas): the pump between the rings *)
(* of one UART and a Telnet stream, over a socket link that keeps the      *)
(* contract of ISocketLink and takes all it is given (SynapseLink is the   *)
(* model of the link of real builds, and of what becomes of that contract  *)
(* there).                                                                 *)
(*                                                                         *)
(* Pump is one step: the engine has one thread.  A behaviour is one call,  *)
(* dialled, or taken by the server and answered with ConnectInbound, which *)
(* a message of the driver may repeat at any time.  Telnet bytes go by     *)
(* their names; BRK, NOP and the other commands of two bytes are all       *)
(* "CMD".  XON/XOFF filtering is left out, as nothing in the engine calls  *)
(* SetSoftFlow, and so is FBinaryOK, which nothing reads.                  *)
(***************************************************************************)
EXTENDS Uart16550, SequencesExt

CONSTANTS
  OutSize,   \* the size of outbuf, 1024
  InSize,    \* the size of inbuf, 1024
  GuestByte, \* the bytes the guest writes
  MaxOut,    \* bound: the bytes the guest writes in a call
  MaxOwn,    \* bound: breaks and calls of ConnectInbound
  Streams    \* bound: what peers send, whole or up to any point

ASSUME TransportAssumption ==
  /\ {OutSize, InSize, MaxOut, MaxOwn} \subseteq Nat
  /\ OutSize > 1 /\ InSize > 0
  /\ GuestByte \subseteq Byte
  /\ Streams \subseteq Seq(Byte)

VARIABLES
  state,     \* FState
  connected, \* the link's IsConnected
  serviced,  \* the node is one of those PumpAll pumps
  eof,       \* the peer closed
  arrived,   \* what the peer sent
  got,       \* how many bytes of it Recv returned so far
  wire,      \* what the link was given
  written,   \* the guest's bytes that fitted the output ring
  taken,     \* the bytes the guest read
  overrun,   \* a byte met a full input ring
  due,       \* history: the offers made and, for each command that came in
             \* between, its answer
  own        \* how many breaks and calls of ConnectInbound there were

code == <<uart, state, connected, serviced, eof, arrived, got, wire, written, taken,
          overrun, own>>
vars == <<code, due>>

Verb  == {"WILL", "WONT", "DO", "DONT"}
State == {"data", "iac", "sb", "sbiac"} \cup Verb
Known == {"BINARY", "SGA"}

Init ==
  /\ UartInit
  /\ state = "data"
  /\ connected \in BOOLEAN  \* the server took the call, or there is none yet
  /\ serviced = FALSE /\ eof = FALSE /\ overrun = FALSE
  /\ arrived = <<>> /\ got = 0
  /\ wire = <<>> /\ written = <<>> /\ taken = <<>>
  /\ due = <<>> /\ own = 0

-----------------------------------------------------------------------------
(* What a Telnet stream means, told from the positions at which its        *)
(* elements start and not by a parser that reads byte after byte.          *)

(* An odd number of IACs ends at n, in a subnegotiation that starts at i.  *)
OddRun(s, i, n) ==
  \E k \in i + 2 .. n :
     /\ \A m \in k .. n : s[m] = "IAC"
     /\ k = i + 2 \/ s[k - 1] # "IAC"
     /\ (n + 1 - k) % 2 = 1

(* A subnegotiation ends at the first IAC SE whose IAC is not the second   *)
(* of a pair.                                                              *)
SubnegotiationEnds(s, i) == {j \in i + 3 .. Len(s) : s[j] = "SE" /\ OddRun(s, i, j - 1)}

(* The length of the element that starts at i, and more than the stream is *)
(* long if the element is not complete.                                    *)
ElementLen(s, i) ==
  IF s[i] # "IAC" THEN 1
  ELSE IF i = Len(s) THEN Len(s) + 1
  ELSE IF s[i + 1] \in Verb THEN 3
  ELSE IF s[i + 1] # "SB" THEN 2
  ELSE IF SubnegotiationEnds(s, i) = {} THEN Len(s) + 1
  ELSE Min(SubnegotiationEnds(s, i)) - i + 1

(* Where an element starts, the place behind the last one included.        *)
Starts(s) ==
  LET upto[i \in 0 .. Len(s)] ==
        IF i = 0 THEN {1}
        ELSE LET before == upto[i - 1] IN
             before \cup {k \in {i + 1} : \E j \in before : j + ElementLen(s, j) = k}
  IN upto[Len(s)]

(* The starts of the complete elements, and where such an element ends. *)
Complete(s) == {i \in Starts(s) : i <= Len(s) /\ i + ElementLen(s, i) <= Len(s) + 1}
EndOf(s, i) == i + ElementLen(s, i) - 1

(* The members of at in increasing order, for a set of positions up to n. *)
InOrder(n, at) ==
  LET upto[i \in 0 .. n] ==
        IF i = 0 THEN <<>>
        ELSE IF i \in at THEN Append(upto[i - 1], i) ELSE upto[i - 1]
  IN upto[n]

(* A data byte is the last byte of its element, also of a pair of IACs. *)
DataEnds(s) == {EndOf(s, i) : i \in {j \in Complete(s) : s[j] # "IAC" \/ s[j + 1] = "IAC"}}
DataOf(s) ==
  LET at == InOrder(Len(s), DataEnds(s)) IN [k \in DOMAIN at |-> s[at[k]]]

(* A command is a verb and the option it is about. *)
CommandEnds(s) == {EndOf(s, i) : i \in {j \in Complete(s) : s[j] = "IAC" /\ s[j + 1] \in Verb}}
CommandsOf(s) ==
  LET at == InOrder(Len(s), CommandEnds(s)) IN [k \in DOMAIN at |-> <<s[at[k] - 1], s[at[k]]>>]

(* The answer to a command (NetTransport.pas 257-280): agreement to BINARY *)
(* and SGA, refusal of every other option, and the mirror of a refusal.    *)
Opposite == [WILL |-> "DO", DO |-> "WILL", WONT |-> "DONT", DONT |-> "WONT"]
Refusal  == [WILL |-> "DONT", DO |-> "WONT", WONT |-> "DONT", DONT |-> "WONT"]

Agreed(c) == <<IF c[2] \in Known THEN Opposite[c[1]] ELSE Refusal[c[1]], c[2]>>
AllAgreed(cs) == [k \in DOMAIN cs |-> Agreed(cs[k])]

Received == SubSeq(arrived, 1, got)

(* The commands that are complete with the next n bytes and not before. *)
NewCommands(n) ==
  LET before == Len(CommandsOf(Received))
      all    == CommandsOf(SubSeq(arrived, 1, got + n))
  IN SubSeq(all, before + 1, Len(all))

-----------------------------------------------------------------------------
(* Guest to network. *)

(* Fault: a data byte 255 is not doubled. *)
EncodePlain(b) == <<b>>

Encode(b) == IF b = "IAC" THEN <<b, b>> ELSE <<b>>

Encoded(s) ==
  LET upto[k \in 0 .. Len(s)] ==
        IF k = 0 THEN <<>> ELSE upto[k - 1] \o Encode(s[k])
  IN upto[Len(s)]

Fills(q, k) == Len(Encoded(SubSeq(q, 1, k)))

(* Fault: the loop stops one byte late. *)
DrainLate(q) ==
  CHOOSE k \in 0 .. Len(q) :
    /\ k = Len(q) \/ Fills(q, k) > OutSize - 1
    /\ \A j \in 0 .. k - 1 : Fills(q, j) <= OutSize - 1

(* The number of bytes one pump takes from the ring: it stops at an empty  *)
(* ring or once two more bytes might not fit outbuf.                       *)
Drain(q) ==
  CHOOSE k \in 0 .. Len(q) :
    /\ k = Len(q) \/ Fills(q, k) > OutSize - 2
    /\ \A j \in 0 .. k - 1 : Fills(q, j) <= OutSize - 2

(* The negotiation that Dial and NegotiateBinary begin. *)
Offer == <<"IAC", "WILL", "BINARY", "IAC", "DO", "BINARY", "IAC", "WILL", "SGA">>

NegotiateBinary ==
  /\ wire' = wire \o Offer
  /\ due' = due \o CommandsOf(Offer)

-----------------------------------------------------------------------------
(* Network to guest: one byte b read in parser state st. *)

NextState(st, b) ==
  CASE st = "data"  -> IF b = "IAC" THEN "iac" ELSE "data"
    [] st = "iac"   -> IF b \in Verb THEN b ELSE IF b = "SB" THEN "sb" ELSE "data"
    [] st = "sb"    -> IF b = "IAC" THEN "sbiac" ELSE "sb"
    [] st = "sbiac" -> IF b = "SE" THEN "data" ELSE "sb"
    [] OTHER        -> "data"

IsData(st, b) == (st = "data" /\ b # "IAC") \/ (st = "iac" /\ b = "IAC")

Answer(verb, opt) ==
  IF verb \in {"WILL", "WONT"}
  THEN IF verb = "WILL" /\ opt \in Known THEN "DO" ELSE "DONT"
  ELSE IF verb = "DO" /\ opt \in Known THEN "WILL" ELSE "WONT"

(* Fault: a refusal is not acknowledged. *)
ReplyToOffersOnly(st, b) ==
  IF st \in {"WILL", "DO"} THEN <<"IAC", Answer(st, b), b>> ELSE <<>>

Reply(st, b) == IF st \in Verb THEN <<"IAC", Answer(st, b), b>> ELSE <<>>

ParseByte(p, b) ==
  [state |-> NextState(p.state, b),
   rx    |-> IF IsData(p.state, b) THEN Put(p.rx, b) ELSE p.rx,
   lost  |-> p.lost \/ (IsData(p.state, b) /\ ~HasRoom(p.rx)),
   out   |-> p.out \o Reply(p.state, b)]

(* What a parser p becomes over the bytes of chunk. *)
Parsed(p, chunk) ==
  LET upto[k \in 0 .. Len(chunk)] ==
        IF k = 0 THEN p ELSE ParseByte(upto[k - 1], chunk[k])
  IN upto[Len(chunk)]

(* Fault: every pump starts the parser afresh. *)
ParseAfresh(chunk) ==
  Parsed([state |-> "data", rx |-> rx, lost |-> overrun, out |-> <<>>], chunk)

Parse(chunk) ==
  Parsed([state |-> state, rx |-> rx, lost |-> overrun, out |-> <<>>], chunk)

-----------------------------------------------------------------------------
(* A call is dialled before anything else has happened on the link.        *)
Dial ==
  /\ ~connected /\ ~eof /\ wire = <<>> /\ arrived = <<>>
  /\ connected' = TRUE
  /\ NegotiateBinary
  /\ SetCarrier(TRUE)
  /\ UNCHANGED <<rings, lsr, mode, state, eof, arrived, got, written, taken, overrun>>
  /\ UNCHANGED <<serviced, own>>

(* The server brings the node online, at the start of a call or, as        *)
(* OnBinary does, at any time: the offer is made again.  Without a         *)
(* connection it goes nowhere, and the carrier rises all the same.         *)
ConnectInbound ==
  /\ serviced' = TRUE
  /\ SetCarrier(TRUE)
  /\ IF connected THEN NegotiateBinary ELSE UNCHANGED <<wire, due>>
  /\ own' = own + 1
  /\ UNCHANGED <<rings, lsr, mode, state, connected, eof, arrived, got>>
  /\ UNCHANGED <<written, taken, overrun>>

(* From the guest's modem, or from the server, which takes the node out of *)
(* those it pumps.                                                         *)
HangUp ==
  /\ connected' = FALSE
  /\ serviced' \in {serviced, FALSE}
  /\ state' = "data"
  /\ SetCarrier(FALSE)
  /\ UNCHANGED <<rings, lsr, mode, eof, arrived, got, wire, written, taken, overrun>>
  /\ UNCHANGED <<due, own>>

SendBreak ==
  /\ wire' = IF connected THEN wire \o <<"IAC", "CMD">> ELSE wire
  /\ own' = own + 1
  /\ UNCHANGED <<uart, state, connected, eof, arrived, got, written, taken, overrun>>
  /\ UNCHANGED <<serviced, due>>

(* Pump without a connection. *)
PumpIdle ==
  /\ ~connected
  /\ SetCarrier(FALSE)
  /\ serviced' = FALSE
  /\ UNCHANGED <<rings, lsr, mode, state, connected, wire, got, overrun>>

(* Pump, the first half. *)
Drained == Encoded(SubSeq(tx, 1, Drain(tx)))

PumpOut == tx' = SubSeq(tx, Drain(tx) + 1, Len(tx))

(* Fault: a closed link ends the pump but not the carrier. *)
PumpClosedKeepsCarrier ==
  /\ connected /\ eof /\ got = Len(arrived)
  /\ PumpOut /\ rx' = rx /\ RecomputeLSR
  /\ wire' = wire \o Drained
  /\ connected' = TRUE /\ serviced' = FALSE
  /\ UNCHANGED <<line, mode, state, got, overrun>>

(* Recv finds the connection closed; FState stays where it is. *)
PumpClosed ==
  /\ connected /\ eof /\ got = Len(arrived)
  /\ PumpOut /\ rx' = rx /\ RecomputeLSR
  /\ wire' = wire \o Drained
  /\ connected' = FALSE /\ serviced' = FALSE
  /\ SetCarrier(FALSE)
  /\ UNCHANGED <<mode, state, got, overrun>>

(* Recv finds nothing, or any number of the bytes that wait. *)
PumpBoth ==
  /\ connected
  /\ ~(eof /\ got = Len(arrived))
  /\ PumpOut
  /\ \E n \in 0 .. InSize :
       LET p == Parse(SubSeq(arrived, got + 1, got + n)) IN
       /\ got + n <= Len(arrived)
       /\ n = 0 => got = Len(arrived)
       /\ got' = got + n
       /\ rx' = p.rx /\ state' = p.state /\ overrun' = p.lost
       /\ wire' = wire \o Drained \o p.out
  /\ RecomputeLSR
  /\ UNCHANGED <<line, mode, connected, serviced>>

(* All but the history of what is due. *)
Pump ==
  /\ PumpIdle \/ PumpClosed \/ PumpBoth
  /\ UNCHANGED <<eof, arrived, written, taken, own>>

-----------------------------------------------------------------------------
(* The guest, in the modem's online mode. *)

GuestWrite(b) ==
  /\ WriteTHR(b)
  /\ written' = IF HasRoom(tx) THEN Append(written, b) ELSE written
  /\ UNCHANGED <<state, connected, eof, arrived, got, wire, taken, overrun>>
  /\ UNCHANGED <<serviced, due, own>>

GuestRead ==
  /\ rx # <<>>
  /\ ReadRBR
  /\ taken' = Append(taken, Head(rx))
  /\ UNCHANGED <<state, connected, eof, arrived, got, wire, written, overrun>>
  /\ UNCHANGED <<serviced, due, own>>

(* The peer. *)
PeerSends(b) ==
  /\ connected /\ ~eof
  /\ arrived' = Append(arrived, b)
  /\ UNCHANGED <<uart, state, connected, eof, got, wire, written, taken, overrun>>
  /\ UNCHANGED <<serviced, due, own>>

PeerCloses ==
  /\ connected /\ ~eof
  /\ eof' = TRUE
  /\ UNCHANGED <<uart, state, connected, arrived, got, wire, written, taken, overrun>>
  /\ UNCHANGED <<serviced, due, own>>

Next ==
  \/ Dial
  \/ HangUp
  \/ own < MaxOwn /\ (ConnectInbound \/ SendBreak)
  \/ Pump /\ due' = due \o AllAgreed(NewCommands(got' - got))
  \/ \E b \in GuestByte : Len(written) < MaxOut /\ GuestWrite(b)
  \/ GuestRead
  \/ \E b \in Byte : PeerSends(b) /\ \E s \in Streams : IsPrefix(arrived', s)
  \/ PeerCloses

(* What Pump asks of its host, to be called from the server's timer, for   *)
(* the nodes that PumpAll looks at: those brought online by ConnectInbound *)
(* and not, as the engine stands, those that dialled.                      *)
Spec == Init /\ [][Next]_vars /\ WF_code(serviced /\ Pump)

-----------------------------------------------------------------------------
(* The types, and that what one pump puts into outbuf fits it with any     *)
(* number of doubled bytes in the ring (NetTransport.pas 205-208).         *)
TypeOK ==
  /\ Len(Drained) <= OutSize
  /\ UartTypeOK
  /\ state \in State
  /\ {connected, serviced, eof, overrun} \subseteq BOOLEAN
  /\ {arrived, written, taken} \subseteq Seq(Byte)
  /\ got \in 0 .. Len(arrived)
  /\ wire \in Seq(Byte \cup Verb \cup Known \cup {"IAC", "CMD"})
  /\ own \in 0 .. MaxOwn

(* A peer that decodes the stream reads what the guest wrote, byte for     *)
(* byte, 255 included, and with negotiation and breaks in between          *)
(* (NetTransport.pas 201-226: the stream never ends inside an element).    *)
OutboundTransparent == DataOf(wire) \o tx = written

(* The guest reads the data bytes of the peer's stream and nothing else,   *)
(* however the network cuts the stream into reads; only a full input ring  *)
(* drops bytes (NetTransport.pas 228-289).                                 *)
InboundTransparent == ~overrun => taken \o rx = DataOf(Received)

(* The commands on the wire are the offers, each whole, and one answer to  *)
(* each command of the peer, in the order in which they were made and came *)
(* in, however the stream is cut and wherever a break or a new offer falls *)
(* (NetTransport.pas 257-280, 291-297).  This is not the rule of RFC 854:  *)
(* what the peer sends to accept an offer is answered once more.           *)
Negotiated == CommandsOf(wire) = due

(* Once the peer of a serviced call has closed, the guest sees the carrier *)
(* fall, and bytes still on their way or a full ring do not keep it up     *)
(* (NetTransport.pas 231-235).                                             *)
CarrierFalls == (serviced /\ eof) ~> ~online
=============================================================================

------------------------------- MODULE Cd1400 -------------------------------
(***************************************************************************)
(* The CD1400 serial controller of a Cyclades card as far as the driver    *)
(* programs it: the register values it computes from what a program asks   *)
(* for, and the settings of one channel through reset, initialisation,     *)
(* shutdown, saving and restoring.  Bit sets that are only tested and set  *)
(* (COR2, SRER, the modem signals) are sets of their names.                *)
(***************************************************************************)
EXTENDS Integers

\* Baud rate tables: the rate, its clock option and its baud period.
BaudTable25MHz ==
  { <<50, 4, 245>>, <<75, 4, 163>>, <<110, 4, 111>>, <<134, 4, 92>>,
    <<150, 4, 81>>, <<200, 4, 65>>, <<300, 3, 245>>, <<600, 3, 163>>,
    <<1200, 3, 81>>, <<1800, 2, 163>>, <<2400, 2, 109>>, <<4800, 2, 81>>,
    <<9600, 1, 163>>, <<19200, 1, 81>>, <<38400, 0, 163>>, <<57600, 0, 81>>,
    <<76800, 0, 54>>, <<115200, 0, 27>> }

BaudTable60MHz ==
  { <<50, 0, 0>>, <<75, 0, 130>>, <<110, 0, 33>>, <<134, 4, 255>>,
    <<150, 4, 219>>, <<200, 4, 195>>, <<300, 4, 146>>, <<600, 4, 98>>,
    <<1200, 3, 195>>, <<1800, 3, 98>>, <<2400, 3, 65>>, <<4800, 2, 195>>,
    <<9600, 2, 98>>, <<19200, 1, 195>>, <<38400, 1, 98>>, <<57600, 0, 195>>,
    <<76800, 0, 130>>, <<115200, 0, 98>>, <<150000, 0, 65>>, <<230400, 0, 50>> }

\* The entries for a rate: one, or none when the chip does not support it.
LookupBaud(is60MHz, baud) ==
  {e \in IF is60MHz THEN BaudTable60MHz ELSE BaudTable25MHz : e[1] = baud}

ClockOf(entry) == <<entry[2], entry[3]>>

\* COR1 holds data bits, stop bits and parity in fields of their own.
DataBits == [w \in 5..8 |-> w - 5]
StopBits == [s \in {"1", "1.5", "2"} |-> CASE s = "1" -> 0 [] s = "1.5" -> 4 [] s = "2" -> 8]
ParityBits == [p \in {"none", "odd", "even", "mark", "space"} |->
  CASE p = "none" -> 0 [] p = "odd" -> 192 [] p = "even" -> 64
    [] p = "mark" -> 160 [] p = "space" -> 32]

ValidLine(l) ==
  /\ l.WordLength \in DOMAIN DataBits /\ l.StopBits \in DOMAIN StopBits
  /\ l.Parity \in DOMAIN ParityBits

\* Fault: the word length itself in the place of its code.
BuildCor1ByLength(l) == l.WordLength + StopBits[l.StopBits] + ParityBits[l.Parity]
BuildCor1(l) ==
  DataBits[l.WordLength] + StopBits[l.StopBits] + ParityBits[l.Parity]

EightN1 == [WordLength |-> 8, StopBits |-> "1", Parity |-> "none"]

\* COR2 from the handshakes asked for: cts, rts, xon.
BuildCor2(handflow) ==
  {CASE h = "cts" -> "CtsAE" [] h = "rts" -> "RtsAO" [] h = "xon" -> "TxIBE" : h \in handflow}

\* WaitCommEvent's name of a change of a modem input.
EventOf(signal) ==
  CASE signal = "CTS" -> "EV_CTS" [] signal = "DSR" -> "EV_DSR"
    [] signal = "DCD" -> "EV_RLSD" [] signal = "RI" -> "EV_RING"

-----------------------------------------------------------------------------
\* The settings of a channel: the clocks of both directions, COR1, COR2, SCHR1
\* and SCHR2, the modem outputs, the interrupts enabled, whether transmitter
\* and receiver run, and whether it sends a break.  What a reset leaves is told
\* apart from whatever the driver writes.
Unset == <<>>
UnsetCor1 == -1

ResetChannel ==
  [tx |-> Unset, rx |-> Unset, cor1 |-> UnsetCor1, cor2 |-> {}, chars |-> Unset,
   msvr |-> {}, srer |-> {}, running |-> FALSE, break |-> FALSE]

\* CyInitChannelSync: a reset channel, 8N1, RTS by the chip, DTR and RTS raised;
\* the clocks stay as the reset left them.
InitChannel ==
  [ResetChannel EXCEPT !.cor1 = BuildCor1(EightN1), !.cor2 = {"RtsAO"},
     !.msvr = {"DTR", "RTS"}, !.srer = {"RxData", "MdmCh"}, !.running = TRUE]

\* CyShutdownChannelSync.
ShutdownChannel(reg) ==
  [reg EXCEPT !.srer = {}, !.running = FALSE, !.msvr = {}]

\* CySaveChannelStateSync: configuration and outputs, not what is under way.
SavedChannel(reg) == [reg EXCEPT !.running = FALSE, !.break = FALSE]

\* CyRestoreChannelStateSync, run on a port that is open or not.
\* Fault: the interrupts are left for the next opening to enable.
RestoredChannelQuiet(saved, open) ==
  [saved EXCEPT !.running = TRUE, !.srer = {},
     !.msvr = IF open THEN saved.msvr ELSE {}]
RestoredChannel(saved, open) ==
  [saved EXCEPT !.running = TRUE,
     !.msvr = IF open THEN saved.msvr ELSE {},
     !.srer = IF open THEN saved.srer ELSE {}]

\* The callbacks that change one setting.
\* Fault: the receiver keeps its rate.
SetBaudOneWay(reg, entry) == [reg EXCEPT !.tx = ClockOf(entry)]
SetBaud(reg, entry) == [reg EXCEPT !.tx = ClockOf(entry), !.rx = ClockOf(entry)]
SetLine(reg, cor1) == [reg EXCEPT !.cor1 = cor1]
SetModem(reg, msvr) == [reg EXCEPT !.msvr = msvr]
SetBreak(reg, on) == [reg EXCEPT !.break = on]
SetSpecialChars(reg, chars) == [reg EXCEPT !.chars = chars]
SetCor2(reg, cor2) == [reg EXCEPT !.cor2 = cor2]
=============================================================================

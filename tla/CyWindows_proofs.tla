-------------------------- MODULE CyWindows_proofs --------------------------
(* Proofs of the safety properties of CySettings, for any number of        *)
(* threads, requests, calls and suspensions and any values asked for; of   *)
(* CyPnp, for cards of any number of chips and channels, started any       *)
(* number of times; and of CyInstall, for any number of runs, kills,       *)
(* restarts and polls.  The three specifications share no variable.        *)
EXTENDS CySettings, CyPnp, CyInstall, FiniteSetTheorems, SequenceTheorems, TLAPS

Fields == {"tx", "rx", "cor1", "cor2", "chars", "msvr", "srer", "running", "break"}

\* What registers are like, and a call that is under way.
RegOK(r) ==
  /\ DOMAIN r = Fields
  /\ r.cor1 \in Cor1Codes \cup {UnsetCor1} /\ r.msvr \subseteq {"DTR", "RTS"}
  /\ r.srer \subseteq {"RxData", "MdmCh"} /\ r.cor2 \subseteq {"CtsAE", "RtsAO", "TxIBE"}
CallOK(c, at) ==
  /\ DOMAIN c = {"item", "value", "alone"} /\ c.alone \in BOOLEAN
  /\ c.item \in Items
  /\ c.item = "line" => ValidLine(c.value)
  /\ c.item = "flow" => c.value \subseteq {"cts", "rts", "xon"}
  /\ c.item = "modem" => c.value \subseteq {"DTR", "RTS"}
  /\ at = "store" => c.item = "modem"
  /\ at = "build" => c.item \in {"flow", "modem"}
  /\ at = "publish" => c.item \in {"baud", "line"}

\* The parts of the type invariant, which each action has to do with.
ChipOK == RegOK(reg) /\ RegOK(saved.reg) /\ saved.valid \in BOOLEAN
          /\ DOMAIN saved = {"valid", "reg"}
ExtOK == /\ DOMAIN ext = Items
         /\ ext.modem \subseteq {"DTR", "RTS"} /\ ext.flow \subseteq {"cts", "rts", "xon"}
CallsOK ==
  /\ pc \in [Threads -> {"idle", "store", "build", "apply", "publish"}]
  /\ DOMAIN call = Threads
  /\ \A t \in Threads : IF pc[t] = "idle" THEN call[t] = NoCall ELSE CallOK(call[t], pc[t])
PowerOK ==
  /\ power \in {"D0", "D3"} /\ powered \in BOOLEAN
  /\ transit \in {"none", "saving", "marking", "restoring", "waking"}
  /\ ~powered => power = "D3" /\ transit = "none"
  /\ transit \in {"saving", "marking"} => power = "D0"
  /\ transit \in {"restoring", "waking"} => power = "D3"
HandleOK ==
  /\ handle \in {"none", "opening", "open", "cleaned", "closing"}
  /\ opens \in Nat
WaitOK ==
  /\ wait \in [Waits -> {"new", "asked", "taking", "pending", "ok", "cancelled"}]
  /\ waitIrp \in Waits \cup {NoIrp} /\ WaitsKept
HistoryOK == settled \subseteq changed /\ changed \subseteq Items
Typed == ChipOK /\ ExtOK /\ CallsOK /\ PowerOK /\ HandleOK /\ WaitOK /\ HistoryOK

-----------------------------------------------------------------------------
\* A setting as registers have it.
Runs(r, s, v) ==
  CASE s = "baud"  -> {r.tx, r.rx} = {ClockOf(Entry(v))}
    [] s = "line"  -> r.cor1 = BuildCor1(v)
    [] s = "flow"  -> r.cor2 = BuildCor2(v)
    [] s = "chars" -> r.chars = v
    [] s = "modem" -> r.msvr = v

\* The registers that count: those the port runs with, and in a suspension
\* those it will be restored to.
Lasting == (IF power = "D0" \/ transit = "waking" THEN {reg} ELSE {})
           \cup (IF Suspended THEN {saved.reg} ELSE {})
Keeps(s, v) == \A r \in Lasting : Runs(r, s, v)
KeepsNext(s, v) == \A r \in Lasting' : Runs(r, s, v)

\* A call that met no other and is through with the chip.
Done(t) == pc[t] = "publish" /\ call[t].alone

\* Settings are made and calls under way in an open session only.
OnlyWhileOpen ==
  handle \in {"none", "opening", "closing"} =>
    settled = {} /\ \A t \in Threads : pc[t] = "idle"
\* A call that met no other is the only one of its kind, and a setting that is
\* made is nobody's under way.
Alone ==
  /\ \A t, u \in Threads : t # u /\ call[t].alone => call[u].item # call[t].item
  /\ \A t \in Threads : call[t].item \notin settled
\* Until such a call is through with the chip nobody overwrites what it stored.
StoredStays ==
  \A t \in Threads : pc[t] \in {"build", "apply"} /\ call[t].alone /\ call[t].item \in {"flow", "modem"}
                       => ext[call[t].item] = call[t].value
\* What was made runs, or will when the port wakes.
MadeRuns ==
  /\ \A s \in settled : Keeps(s, ext[s])
  /\ \A t \in Threads : Done(t) => Keeps(call[t].item, call[t].value)
WillWake ==
  Suspended /\ (settled # {} \/ \E t \in Threads : Done(t)) => saved.valid

Settings == OnlyWhileOpen /\ Alone /\ StoredStays /\ MadeRuns /\ WillWake

\* A session that slept finds its own registers.
OwnRegisters ==
  /\ suspended.session \in Nat /\ suspended.session <= opens
  /\ DOMAIN suspended = {"session", "reg"} /\ DOMAIN suspended.reg = Fields
  /\ handle = "opening" => suspended.session < opens
  /\ Suspended /\ IsOpen /\ suspended.session = opens
       => saved.valid /\ saved.reg = SavedChannel(suspended.reg)

Inv == Typed /\ Settings /\ OwnRegisters

-----------------------------------------------------------------------------
(* The chip's registers.                                                   *)

(* COR1 of a line a program may ask for has its fields where they belong.  *)
LEMMA Cor1InCodes ==
  ASSUME NEW l, ValidLine(l)
  PROVE  BuildCor1(l) \in Cor1Codes
<1>1. l.WordLength \in 5..8 /\ DataBits[l.WordLength] \in 0..3
  BY DEF ValidLine, DataBits
<1>2. \E s \in 0..2 : StopBits[l.StopBits] = 4 * s
  <2>1. StopBits["1"] = 4 * 0 /\ StopBits["1.5"] = 4 * 1 /\ StopBits["2"] = 4 * 2
    BY DEF StopBits
  <2>2. l.StopBits \in {"1", "1.5", "2"}
    BY DEF ValidLine, StopBits
  <2>. QED
    BY <2>1, <2>2
<1>3. ParityBits[l.Parity] \in {0, 32, 64, 160, 192}
  <2>1. l.Parity \in {"none", "odd", "even", "mark", "space"}
    BY DEF ValidLine, ParityBits
  <2>. QED
    BY <2>1 DEF ParityBits
<1>. QED
  BY <1>1, <1>2, <1>3 DEF BuildCor1, Cor1Codes

(* 8N1 is such a line.                                                     *)
LEMMA EightN1Valid == ValidLine(EightN1)
BY DEF ValidLine, EightN1, DataBits, StopBits, ParityBits

(* COR2 of the handshakes a program may ask for.                           *)
LEMMA Cor2InBits ==
  ASSUME NEW h, h \subseteq {"cts", "rts", "xon"}
  PROVE  BuildCor2(h) \subseteq {"CtsAE", "RtsAO", "TxIBE"}
BY DEF BuildCor2

(* The states a reset, the opening, the closing and a suspension leave.    *)
LEMMA ResetOK == RegOK(ResetChannel)
BY DEF RegOK, ResetChannel, Fields
LEMMA InitOK == RegOK(InitChannel)
BY Cor1InCodes, EightN1Valid DEF RegOK, InitChannel, ResetChannel, Fields
LEMMA ShutdownOK ==
  ASSUME NEW r, RegOK(r)
  PROVE  RegOK(ShutdownChannel(r))
BY DEF RegOK, ShutdownChannel, Fields
LEMMA BreakOK ==
  ASSUME NEW r, RegOK(r), NEW on
  PROVE  RegOK(SetBreak(r, on))
BY DEF RegOK, SetBreak, Fields
LEMMA SavedOK ==
  ASSUME NEW r, RegOK(r)
  PROVE  RegOK(SavedChannel(r))
BY DEF RegOK, SavedChannel, Fields
LEMMA RestoredOK ==
  ASSUME NEW r, RegOK(r), NEW opened \in BOOLEAN
  PROVE  RegOK(RestoredChannel(r, opened))
BY DEF RegOK, RestoredChannel, Fields

(* A setting of the kind a call carries keeps the registers well formed.   *)
LEMMA AppliedOK ==
  ASSUME NEW r, RegOK(r), NEW s \in Items, NEW v,
         s = "line" => ValidLine(v),
         s = "flow" => v \subseteq {"cts", "rts", "xon"},
         s = "modem" => v \subseteq {"DTR", "RTS"}
  PROVE  RegOK(Applied(s, v, r))
<1>1. CASE s = "baud"
  BY <1>1 DEF Applied, SetBaud, RegOK, Fields
<1>2. CASE s = "line"
  BY <1>2, Cor1InCodes DEF Applied, SetLine, RegOK, Fields
<1>3. CASE s = "flow"
  BY <1>3, Cor2InBits DEF Applied, SetCor2, RegOK, Fields
<1>4. CASE s = "chars"
  BY <1>4 DEF Applied, SetSpecialChars, RegOK, Fields
<1>5. CASE s = "modem"
  BY <1>5 DEF Applied, SetModem, RegOK, Fields
<1>. QED
  BY <1>1, <1>2, <1>3, <1>4, <1>5 DEF Items

(* It is in force then, and the others are as they were.                   *)
LEMMA AppliedRuns ==
  ASSUME NEW r, RegOK(r), NEW s \in Items, NEW v
  PROVE  /\ Runs(Applied(s, v, r), s, v)
         /\ \A o \in Items : o # s => \A w : Runs(r, o, w) => Runs(Applied(s, v, r), o, w)
<1>1. CASE s = "baud"
  BY <1>1 DEF Applied, SetBaud, RegOK, Fields, Runs, Items
<1>2. CASE s = "line"
  BY <1>2 DEF Applied, SetLine, RegOK, Fields, Runs, Items
<1>3. CASE s = "flow"
  BY <1>3 DEF Applied, SetCor2, RegOK, Fields, Runs, Items
<1>4. CASE s = "chars"
  BY <1>4 DEF Applied, SetSpecialChars, RegOK, Fields, Runs, Items
<1>5. CASE s = "modem"
  BY <1>5 DEF Applied, SetModem, RegOK, Fields, Runs, Items
<1>. QED
  BY <1>1, <1>2, <1>3, <1>4, <1>5 DEF Items

(* Saving, restoring and a break leave what runs as it is.                 *)
LEMMA SameRuns ==
  ASSUME NEW r, RegOK(r), NEW s \in Items, NEW v, Runs(r, s, v)
  PROVE  /\ Runs(SavedChannel(r), s, v)
         /\ Runs(RestoredChannel(r, TRUE), s, v)
         /\ \A on : Runs(SetBreak(r, on), s, v)
BY DEF RegOK, SavedChannel, RestoredChannel, SetBreak, Fields, Runs, Items

(* A channel that slept and woke is the one it was.                        *)
LEMMA SavedAndRestored ==
  ASSUME NEW r, DOMAIN r = Fields
  PROVE  RestoredChannel(SavedChannel(r), TRUE) = [r EXCEPT !.break = FALSE, !.running = TRUE]
BY DEF RestoredChannel, SavedChannel, Fields

-----------------------------------------------------------------------------
(* Every action keeps the state well formed.                               *)

(* A write that may be lost keeps the registers well formed.               *)
LEMMA WriteOK ==
  ASSUME NEW new, RegOK(new), RegOK(reg), Write(new)
  PROVE  RegOK(reg')
BY DEF Write

(* What the actions on the handle do.                                      *)
LEMMA HandleTyped ==
  ASSUME Typed, HandleStep
  PROVE  Typed'
<1>1. CASE CreateInit
  <2>1. RegOK(reg')
    BY <1>1, InitOK, WriteOK DEF CreateInit, Typed, ChipOK
  <2>2. ChipOK'
    BY <1>1, <2>1 DEF CreateInit, powerVars, Typed, ChipOK
  <2>3. ExtOK'
    BY <1>1 DEF CreateInit, Typed, ExtOK, Items
  <2>4. HandleOK'
    BY <1>1 DEF CreateInit, Typed, HandleOK
  <2>5. CallsOK' /\ PowerOK' /\ WaitOK' /\ HistoryOK'
    BY <1>1 DEF CreateInit, callVars, powerVars, Typed, CallsOK, PowerOK, WaitOK, WaitsKept, HistoryOK
  <2>. QED
    BY <2>2, <2>3, <2>4, <2>5 DEF Typed
<1>2. CASE CreateMark
  <2>1. HandleOK'
    BY <1>2 DEF CreateMark, Typed, HandleOK
  <2>2. ChipOK' /\ ExtOK' /\ CallsOK' /\ PowerOK' /\ WaitOK' /\ HistoryOK'
    BY <1>2 DEF CreateMark, callVars, powerVars, waitVars, Typed, ChipOK, ExtOK, CallsOK,
                PowerOK, WaitOK, WaitsKept, HistoryOK, history
  <2>. QED
    BY <2>1, <2>2 DEF Typed
<1>3. CASE Cleanup
  <2>1. HandleOK'
    BY <1>3 DEF Cleanup, Typed, HandleOK
  <2>2. ChipOK' /\ ExtOK' /\ CallsOK' /\ PowerOK' /\ HistoryOK'
    BY <1>3 DEF Cleanup, callVars, powerVars, Typed, ChipOK, ExtOK, CallsOK, PowerOK,
                HistoryOK, history
  <2>3. WaitOK'
    BY <1>3, SettingsAssumption DEF Cleanup, Typed, WaitOK, WaitsKept
  <2>. QED
    BY <2>1, <2>2, <2>3 DEF Typed
<1>4. CASE CloseShutdown
  <2>1. RegOK(reg')
    BY <1>4, ShutdownOK, WriteOK DEF CloseShutdown, Typed, ChipOK
  <2>2. ChipOK'
    BY <1>4, <2>1 DEF CloseShutdown, powerVars, Typed, ChipOK
  <2>3. ExtOK'
    BY <1>4 DEF CloseShutdown, Typed, ExtOK, Items
  <2>4. HandleOK'
    BY <1>4 DEF CloseShutdown, Typed, HandleOK
  <2>5. CallsOK' /\ PowerOK' /\ WaitOK' /\ HistoryOK'
    BY <1>4 DEF CloseShutdown, callVars, powerVars, waitVars, Typed, CallsOK, PowerOK, WaitOK,
                WaitsKept, HistoryOK
  <2>. QED
    BY <2>2, <2>3, <2>4, <2>5 DEF Typed
<1>5. CASE CloseMark
  <2>1. HandleOK'
    BY <1>5 DEF CloseMark, Typed, HandleOK
  <2>2. ChipOK' /\ ExtOK' /\ CallsOK' /\ PowerOK' /\ WaitOK' /\ HistoryOK'
    BY <1>5 DEF CloseMark, callVars, powerVars, waitVars, Typed, ChipOK, ExtOK, CallsOK,
                PowerOK, WaitOK, WaitsKept, HistoryOK, history
  <2>. QED
    BY <2>1, <2>2 DEF Typed
<1>. QED
  BY <1>1, <1>2, <1>3, <1>4, <1>5 DEF HandleStep

(* What the power transitions do.                                          *)
LEMMA PowerTyped ==
  ASSUME Typed, PowerStep
  PROVE  Typed'
<1>. HandleOK' /\ ExtOK' /\ CallsOK' /\ WaitOK' /\ HistoryOK'
  BY DEF PowerStep, SleepCheck, SleepSave, SleepMark, CardOff, CardOn, WakeCheck, WakeRestore,
         WakeMark, callVars, waitVars, session, history, Typed, HandleOK, ExtOK, CallsOK, WaitOK,
         WaitsKept, HistoryOK
<1>1. CASE SleepCheck \/ SleepMark \/ CardOn \/ WakeCheck \/ WakeMark
  <2>1. reg' = reg /\ saved' = saved
    BY <1>1 DEF SleepCheck, SleepMark, CardOn, WakeCheck, WakeMark
  <2>2. PowerOK'
    BY <1>1 DEF SleepCheck, SleepMark, CardOn, WakeCheck, WakeMark, Typed, PowerOK
  <2>. QED
    BY <2>1, <2>2 DEF Typed, ChipOK
<1>2. CASE SleepSave
  <2>1. RegOK(SavedChannel(reg))
    BY SavedOK DEF Typed, ChipOK
  <2>2. ChipOK'
    <3>1. saved' = [valid |-> TRUE, reg |-> SavedChannel(reg)] /\ reg' = reg
      BY <1>2 DEF SleepSave
    <3>. QED
      BY <2>1, <3>1 DEF Typed, ChipOK
  <2>3. PowerOK'
    BY <1>2 DEF SleepSave, Typed, PowerOK
  <2>. QED
    BY <2>2, <2>3 DEF Typed
<1>3. CASE CardOff
  <2>1. ChipOK'
    BY <1>3, ResetOK DEF CardOff, Typed, ChipOK
  <2>2. PowerOK'
    BY <1>3 DEF CardOff, Typed, PowerOK
  <2>. QED
    BY <2>1, <2>2 DEF Typed
<1>4. CASE WakeRestore
  <2>1. RegOK(RestoredChannel(saved.reg, IsOpen))
    <3>1. IsOpen \in BOOLEAN
      BY DEF IsOpen
    <3>. QED
      BY <3>1, RestoredOK DEF Typed, ChipOK
  <2>2. ChipOK'
    BY <1>4, <2>1 DEF WakeRestore, Typed, ChipOK
  <2>3. PowerOK'
    BY <1>4 DEF WakeRestore, Typed, PowerOK
  <2>. QED
    BY <2>2, <2>3 DEF Typed
<1>. QED
  BY <1>1, <1>2, <1>3, <1>4 DEF PowerStep

(* What a call does that starts.                                           *)
LEMMA StartTyped ==
  ASSUME CallsOK, HistoryOK, NEW t \in Threads, NEW s \in Items, NEW v, NEW at,
         at \in {"store", "build", "apply"}, at = "store" => s = "modem", at = "build" => s = "flow",
         s = "line" => ValidLine(v),
         s = "flow" => v \subseteq {"cts", "rts", "xon"},
         s = "modem" => v \subseteq {"DTR", "RTS"},
         Start(t, s, v, at)
  PROVE  CallsOK' /\ HistoryOK'
<1>. DEFINE rivals == {u \in Threads : call[u].item = s}
            asked == [item |-> s, value |-> v, alone |-> rivals = {}]
<1>1. /\ pc[t] = "idle" /\ pc' = [pc EXCEPT ![t] = at]
      /\ call' = [u \in Threads |->
           IF u = t THEN asked
           ELSE IF u \in rivals THEN [call[u] EXCEPT !.alone = FALSE] ELSE call[u]]
      /\ settled' = settled \ {s} /\ changed' = changed
  BY DEF Start
<1>2. CallOK(asked, at)
  BY DEF CallOK
<1>. HIDE DEF asked
<1>3. ASSUME NEW u \in Threads, u # t
      PROVE  IF pc[u] = "idle" THEN call'[u] = NoCall ELSE CallOK(call'[u], pc[u])
  <2>1. CASE pc[u] = "idle"
    <3>1. call[u] = NoCall /\ NoCall.item # s
      BY <2>1 DEF CallsOK, NoCall, Items
    <3>. QED
      BY <1>1, <1>3, <2>1, <3>1
  <2>2. CASE pc[u] # "idle"
    <3>1. CallOK(call[u], pc[u])
      BY <2>2 DEF CallsOK
    <3>2. CASE u \notin rivals
      BY <1>1, <1>3, <2>2, <3>1, <3>2
    <3>3. CASE u \in rivals
      <4>1. call'[u] = [call[u] EXCEPT !.alone = FALSE]
        BY <1>1, <1>3, <3>3
      <4>2. CallOK([call[u] EXCEPT !.alone = FALSE], pc[u])
        BY <3>1 DEF CallOK
      <4>. QED
        BY <2>2, <4>1, <4>2
    <3>. QED
      BY <3>2, <3>3
  <2>. QED
    BY <2>1, <2>2
<1>4. /\ pc' \in [Threads -> {"idle", "store", "build", "apply", "publish"}] /\ pc'[t] = at
      /\ \A u \in Threads : u # t => pc'[u] = pc[u]
  BY <1>1 DEF CallsOK
<1>5. DOMAIN call' = Threads /\ call'[t] = asked
  BY <1>1
<1>6. ASSUME NEW u \in Threads
      PROVE  IF pc'[u] = "idle" THEN call'[u] = NoCall ELSE CallOK(call'[u], pc'[u])
  BY <1>2, <1>3, <1>4, <1>5
<1>. QED
  BY <1>1, <1>4, <1>5, <1>6 DEF CallsOK, HistoryOK

(* What the threads' calls do.                                             *)
LEMMA CallTyped ==
  ASSUME Typed, NEW t \in Threads, Call(t)
  PROVE  Typed'
<1>. PowerOK' /\ HandleOK' /\ WaitOK' /\ saved' = saved
  BY DEF Call, SetChipFirst, SetStoreFirst, SetModemLine, ModemStore, Build, Apply, Publish,
         Untouched, session, powerVars, waitVars, Typed, PowerOK, HandleOK, WaitOK, WaitsKept
<1>1. CASE SetChipFirst(t)
  <2>0. PICK s \in {"baud", "line"} : \E v \in Values[s] : Start(t, s, v, "apply")
    BY <1>1 DEF SetChipFirst
  <2>1. PICK v \in Values[s] : Start(t, s, v, "apply")
    BY <2>0
  <2>2. s = "line" => ValidLine(v)
    BY SettingsAssumption, <2>1
  <2>3. CallsOK' /\ HistoryOK'
    BY <2>1, <2>2, StartTyped DEF Typed, Items
  <2>4. ChipOK' /\ ExtOK'
    BY <1>1 DEF SetChipFirst, Typed, ChipOK, ExtOK
  <2>. QED
    BY <2>3, <2>4 DEF Typed
<1>2. CASE SetStoreFirst(t)
  <2>. DEFINE at(s) == IF s = "flow" THEN "build" ELSE "apply"
  <2>0. PICK s \in {"flow", "chars"} : \E v \in Values[s] :
          Start(t, s, v, at(s)) /\ ext' = [ext EXCEPT ![s] = v]
    BY <1>2 DEF SetStoreFirst
  <2>1. PICK v \in Values[s] : Start(t, s, v, at(s)) /\ ext' = [ext EXCEPT ![s] = v]
    BY <2>0
  <2>2. s = "flow" => v \subseteq {"cts", "rts", "xon"}
    BY SettingsAssumption, <2>1
  <2>3. at(s) \in {"store", "build", "apply"} /\ at(s) # "store" /\ (at(s) = "build" => s = "flow")
        /\ s \in Items
    BY DEF Items
  <2>. HIDE DEF at
  <2>4. CallsOK' /\ HistoryOK'
    BY <2>1, <2>2, <2>3, StartTyped DEF Typed
  <2>5. ChipOK'
    BY <1>2 DEF SetStoreFirst, Typed, ChipOK
  <2>6. ExtOK'
    BY <2>1, <2>2 DEF Typed, ExtOK, Items
  <2>. QED
    BY <2>4, <2>5, <2>6 DEF Typed
<1>3. CASE SetModemLine(t)
  <2>0. PICK signal \in Values.modem :
          \E v \in {ext.modem \cup {signal}, ext.modem \ {signal}} : Start(t, "modem", v, "store")
    BY <1>3 DEF SetModemLine
  <2>1. PICK v \in {ext.modem \cup {signal}, ext.modem \ {signal}} : Start(t, "modem", v, "store")
    BY <2>0
  <2>2. v \subseteq {"DTR", "RTS"}
    BY <2>1, SettingsAssumption DEF Typed, ExtOK
  <2>3. CallsOK' /\ HistoryOK'
    BY <2>1, <2>2, StartTyped DEF Typed, Items
  <2>4. ChipOK' /\ ExtOK'
    BY <1>3 DEF SetModemLine, Typed, ChipOK, ExtOK
  <2>. QED
    BY <2>3, <2>4 DEF Typed
<1>4. CASE ModemStore(t)
  <2>1. CallOK(call[t], "store") /\ call[t].item = "modem"
    BY <1>4 DEF ModemStore, Typed, CallsOK
  <2>2. CallOK(call[t], "build")
    BY <2>1 DEF CallOK
  <2>3. CallsOK'
    BY <1>4, <2>2 DEF ModemStore, Go, Typed, CallsOK
  <2>4. ExtOK'
    BY <1>4, <2>1 DEF ModemStore, Typed, ExtOK, CallOK, Items
  <2>5. ChipOK' /\ HistoryOK'
    BY <1>4 DEF ModemStore, history, Typed, ChipOK, HistoryOK
  <2>. QED
    BY <2>3, <2>4, <2>5 DEF Typed
<1>5. CASE Build(t)
  <2>. DEFINE built == [call[t] EXCEPT !.value = ext[call[t].item]]
  <2>1. CallOK(call[t], "build")
    BY <1>5 DEF Build, Typed, CallsOK
  <2>2. CallOK(built, "apply")
    BY <2>1 DEF CallOK, Typed, ExtOK
  <2>3. /\ call' = [call EXCEPT ![t] = built] /\ pc' = [pc EXCEPT ![t] = "apply"]
        /\ ext' = ext /\ reg' = reg /\ UNCHANGED history
    BY <1>5 DEF Build, Go, Typed, CallsOK
  <2>. HIDE DEF built
  <2>4. CallsOK'
    BY <2>2, <2>3 DEF Typed, CallsOK
  <2>5. ChipOK' /\ ExtOK' /\ HistoryOK'
    BY <2>3 DEF history, Typed, ChipOK, ExtOK, HistoryOK
  <2>. QED
    BY <2>4, <2>5 DEF Typed
<1>6. CASE Apply(t)
  <2>1. CallOK(call[t], "apply")
    BY <1>6 DEF Apply, Typed, CallsOK
  <2>2. RegOK(Applied(call[t].item, Argument(t), reg))
    BY <2>1, AppliedOK DEF CallOK, Argument, Typed, ChipOK
  <2>3. ChipOK'
    <3>1. RegOK(reg')
      BY <1>6, <2>2, WriteOK DEF Apply, Typed, ChipOK
    <3>. QED
      BY <3>1 DEF Typed, ChipOK
  <2>4. CASE Stored(t)
    <3>1. pc' = [pc EXCEPT ![t] = "idle"] /\ call' = [call EXCEPT ![t] = NoCall]
          /\ changed' = changed \cup {call[t].item} /\ settled' \subseteq settled \cup {call[t].item}
      BY <1>6, <2>4 DEF Apply, Return
    <3>2. CallsOK'
      BY <3>1 DEF Typed, CallsOK
    <3>3. HistoryOK'
      BY <2>1, <3>1 DEF Typed, CallOK, HistoryOK
    <3>. QED
      BY <1>6, <2>3, <3>2, <3>3 DEF Apply, Typed, ExtOK
  <2>5. CASE ~Stored(t)
    <3>. DEFINE done == [call[t] EXCEPT !.alone = call[t].alone /\ ~Suspended]
    <3>1. pc' = [pc EXCEPT ![t] = "publish"] /\ UNCHANGED history
          /\ call' = [call EXCEPT ![t].alone = call[t].alone /\ ~Suspended]
      BY <1>6, <2>5 DEF Apply, Go
    <3>2. CallOK(done, "publish")
      BY <2>1, <2>5 DEF CallOK, Stored, Items
    <3>3. call' = [call EXCEPT ![t] = done]
      BY <3>1 DEF Typed, CallsOK
    <3>. HIDE DEF done
    <3>4. CallsOK'
      BY <3>1, <3>2, <3>3 DEF Typed, CallsOK
    <3>. QED
      BY <1>6, <2>3, <3>1, <3>4 DEF Apply, history, Typed, ExtOK, HistoryOK
  <2>. QED
    BY <2>4, <2>5
<1>7. CASE Publish(t)
  <2>1. CallOK(call[t], "publish")
    BY <1>7 DEF Publish, Typed, CallsOK
  <2>2. pc' = [pc EXCEPT ![t] = "idle"] /\ call' = [call EXCEPT ![t] = NoCall]
        /\ changed' = changed \cup {call[t].item} /\ settled' \subseteq settled \cup {call[t].item}
    BY <1>7 DEF Publish, Return
  <2>3. CallsOK'
    BY <2>2 DEF Typed, CallsOK
  <2>4. HistoryOK'
    BY <2>1, <2>2 DEF Typed, CallOK, HistoryOK
  <2>5. ExtOK'
    BY <1>7, <2>1 DEF Publish, Typed, ExtOK, CallOK, Items
  <2>6. ChipOK'
    BY <1>7 DEF Publish, Typed, ChipOK
  <2>. QED
    BY <2>3, <2>4, <2>5, <2>6 DEF Typed
<1>. QED
  BY <1>1, <1>2, <1>3, <1>4, <1>5, <1>6, <1>7 DEF Call

(* What breaks, changes of the modem inputs and wait requests do.          *)
LEMMA BreakTyped ==
  ASSUME Typed, NEW on \in BOOLEAN, Break(on)
  PROVE  Typed'
<1>1. RegOK(reg')
  BY BreakOK, WriteOK DEF Break, Typed, ChipOK
<1>2. ChipOK'
  BY <1>1 DEF Break, Untouched, powerVars, Typed, ChipOK
<1>3. ExtOK' /\ CallsOK' /\ PowerOK' /\ HandleOK' /\ WaitOK' /\ HistoryOK'
  BY DEF Break, Untouched, session, powerVars, waitVars, Typed, ExtOK, CallsOK, PowerOK,
         HandleOK, WaitOK, WaitsKept, HistoryOK, history
<1>. QED
  BY <1>2, <1>3 DEF Typed

WaitStep(i) == WaitAsk(i) \/ WaitEnter(i) \/ WaitTake(i)

LEMMA WaitTyped ==
  ASSUME Typed, NEW i \in Waits, WaitStep(i)
  PROVE  Typed'
<1>1. ChipOK' /\ ExtOK' /\ CallsOK' /\ PowerOK' /\ HandleOK' /\ HistoryOK'
  BY DEF WaitStep, WaitAsk, WaitEnter, WaitTake, session, powerVars, callVars, Typed, ChipOK,
         ExtOK, CallsOK, PowerOK, HandleOK, HistoryOK, history
<1>2. CASE WaitAsk(i)
  <2>1. WaitOK'
    BY <1>2 DEF WaitAsk, Typed, WaitOK, WaitsKept
  <2>. QED
    BY <1>1, <2>1 DEF Typed
<1>3. CASE WaitEnter(i)
  <2>. DEFINE place == CASE Refuse                           -> "ok"
                         [] ~Refuse /\ events \cap mask # {} -> "taking"
                         [] ~Refuse /\ events \cap mask = {} -> "pending"
  <2>1. /\ wait[i] = "asked" /\ wait' = [wait EXCEPT ![i] = place]
        /\ waitIrp' = IF place = "pending" THEN i ELSE waitIrp
    BY <1>3 DEF WaitEnter
  <2>2. place \in {"ok", "taking"} \/ (place = "pending" /\ waitIrp = NoIrp)
    BY DEF Refuse
  <2>. HIDE DEF place
  <2>3. WaitOK'
    BY <2>1, <2>2, SettingsAssumption DEF Typed, WaitOK, WaitsKept
  <2>. QED
    BY <1>1, <2>3 DEF Typed
<1>4. CASE WaitTake(i)
  <2>1. WaitOK'
    BY <1>4 DEF WaitTake, Typed, WaitOK, WaitsKept
  <2>. QED
    BY <1>1, <2>1 DEF Typed
<1>. QED
  BY <1>2, <1>3, <1>4 DEF WaitStep

LEMMA ChangeTyped ==
  ASSUME Typed, NEW signal, ModemChange(signal)
  PROVE  Typed'
BY DEF ModemChange, session, powerVars, callVars, Typed, ChipOK, ExtOK, CallsOK, PowerOK,
       HandleOK, WaitOK, WaitsKept, HistoryOK, history

LEMMA MaskTyped ==
  ASSUME Typed, NEW m, SetWaitMask(m)
  PROVE  Typed'
<1>1. ChipOK' /\ ExtOK' /\ CallsOK' /\ PowerOK' /\ HandleOK' /\ HistoryOK'
  BY DEF SetWaitMask, session, powerVars, Typed, ChipOK, ExtOK, CallsOK, PowerOK, HandleOK,
         HistoryOK, history
<1>2. WaitOK'
  BY SettingsAssumption DEF SetWaitMask, Typed, WaitOK, WaitsKept
<1>. QED
  BY <1>1, <1>2 DEF Typed
-----------------------------------------------------------------------------
(* What was made runs, or will.                                            *)

(* The state of a setting that is made is kept by whatever leaves it, the  *)
(* lasting registers' part of it, and the calls alone.                     *)
LEMMA HandleSettings ==
  ASSUME Typed, Settings, HandleStep
  PROVE  Settings'
<1>. pc' = pc /\ call' = call /\ Suspended' = Suspended /\ saved' = saved
     /\ power' = power /\ transit' = transit
  BY DEF HandleStep, CreateInit, CreateMark, Cleanup, CloseShutdown, CloseMark, callVars, powerVars,
         Suspended
<1>1. CASE CreateInit \/ CloseShutdown
  <2>1. settled' = {} /\ \A t \in Threads : pc[t] = "idle"
    BY <1>1 DEF CreateInit, CloseShutdown, Settings, OnlyWhileOpen
  <2>2. \A t \in Threads : call[t] = NoCall
    BY <2>1 DEF Typed, CallsOK
  <2>. QED
    BY <2>1, <2>2 DEF Settings, OnlyWhileOpen, Alone, StoredStays, MadeRuns, WillWake, Done, NoCall
<1>2. CASE CreateMark \/ Cleanup \/ CloseMark
  <2>1. settled' = settled /\ reg' = reg /\ ext' = ext
    BY <1>2 DEF CreateMark, Cleanup, CloseMark, history
  <2>2. OnlyWhileOpen'
    BY <1>2, <2>1 DEF CreateMark, Cleanup, CloseMark, Settings, OnlyWhileOpen
  <2>3. Alone' /\ StoredStays' /\ WillWake'
    BY <2>1 DEF Settings, Alone, StoredStays, WillWake, Done
  <2>4. MadeRuns'
    BY <2>1 DEF Settings, MadeRuns, Done, Keeps, Lasting, Runs
  <2>. QED
    BY <2>2, <2>3, <2>4 DEF Settings
<1>. QED
  BY <1>1, <1>2 DEF HandleStep

(* What is made while the port goes to sleep and wakes.                    *)
LEMMA PowerSettings ==
  ASSUME Typed, Settings, PowerStep
  PROVE  Settings'
<1>1. /\ handle' = handle /\ pc' = pc /\ call' = call /\ ext' = ext /\ settled' = settled
      /\ IsOpen' = IsOpen
  BY DEF PowerStep, SleepCheck, SleepSave, SleepMark, CardOff, CardOn, WakeCheck, WakeRestore,
         WakeMark, callVars, session, history, IsOpen
<1>2. OnlyWhileOpen' /\ Alone' /\ StoredStays'
  BY <1>1 DEF Settings, OnlyWhileOpen, Alone, StoredStays
<1>. DEFINE some == settled # {} \/ \E t \in Threads : Done(t)
<1>3. some => IsOpen
  BY DEF Settings, OnlyWhileOpen, Typed, HandleOK, IsOpen, Done
<1>4. \A t \in Threads : Done(t) <=> Done(t)'
  BY <1>1 DEF Done
<1>5. \A t \in Threads : Done(t) => call[t].item \in Items
  BY DEF Done, Typed, CallsOK, CallOK
<1>6. ASSUME some => /\ \A s \in Items : \A v : Keeps(s, v) => KeepsNext(s, v)
                     /\ Suspended' => saved'.valid
      PROVE  Settings'
  <2>1. \A s \in settled : KeepsNext(s, ext[s])
    BY <1>6 DEF Typed, HistoryOK, Settings, MadeRuns
  <2>2. \A t \in Threads : Done(t) => KeepsNext(call[t].item, call[t].value)
    BY <1>5, <1>6 DEF Settings, MadeRuns
  <2>3. MadeRuns'
    BY <1>1, <1>4, <2>1, <2>2 DEF MadeRuns, Keeps, KeepsNext, Runs
  <2>4. WillWake'
    BY <1>1, <1>4, <1>6 DEF WillWake
  <2>. QED
    BY <1>2, <2>3, <2>4 DEF Settings
<1>7. ASSUME UNCHANGED saved, Suspended' = Suspended, Lasting' = Lasting
      PROVE  Settings'
  BY <1>6, <1>7 DEF Settings, WillWake, Keeps, KeepsNext
<1>8. RegOK(reg) /\ RegOK(saved.reg)
  BY DEF Typed, ChipOK
<1>9. some /\ Suspended => saved.valid
  BY DEF Settings, WillWake
<1>. HIDE DEF some
<1>10. CASE SleepCheck
  <2>1. CASE IsOpen
    BY <1>7, <1>10, <2>1 DEF SleepCheck, Suspended, Lasting
  <2>2. CASE ~IsOpen
    BY <1>3, <1>6, <2>2
  <2>. QED
    BY <2>1, <2>2
<1>11. CASE SleepSave
  <2>1. Lasting = {reg} /\ Lasting' = {reg, SavedChannel(reg)} /\ saved'.valid
    BY <1>11 DEF SleepSave, Lasting, Suspended, Typed, PowerOK
  <2>2. \A s \in Items : \A v : Keeps(s, v) => KeepsNext(s, v)
    BY <1>8, <2>1, SameRuns DEF Keeps, KeepsNext
  <2>. QED
    BY <1>6, <2>1, <2>2
<1>12. CASE SleepMark
  <2>1. Lasting = {reg, saved.reg} /\ Lasting' = {saved.reg} /\ saved' = saved /\ Suspended
    BY <1>12 DEF SleepMark, Lasting, Suspended, Typed, PowerOK
  <2>. QED
    BY <1>6, <1>9, <2>1 DEF Keeps, KeepsNext
<1>13. CASE CardOff \/ CardOn
  BY <1>7, <1>13 DEF CardOff, CardOn, Suspended, Lasting, Typed, PowerOK
<1>14. CASE WakeCheck
  <2>1. saved' = saved /\ power' = power /\ power = "D3" /\ Suspended
        /\ transit = "none" /\ transit' = IF IsOpen /\ saved.valid THEN "restoring" ELSE "waking"
    BY <1>14 DEF WakeCheck, Suspended
  <2>2. CASE IsOpen /\ saved.valid
    BY <1>7, <2>1, <2>2 DEF Suspended, Lasting
  <2>3. CASE ~(IsOpen /\ saved.valid)
    BY <1>3, <1>6, <1>9, <2>1, <2>3
  <2>. QED
    BY <2>2, <2>3
<1>15. CASE WakeRestore
  <2>1. Lasting = {saved.reg} /\ Lasting' = {RestoredChannel(saved.reg, IsOpen)} /\ ~Suspended'
    BY <1>15 DEF WakeRestore, Lasting, Suspended, Typed, PowerOK
  <2>2. IsOpen => \A s \in Items : \A v : Keeps(s, v) => KeepsNext(s, v)
    <3>1. IsOpen => Lasting' = {RestoredChannel(saved.reg, TRUE)}
      BY <2>1
    <3>. QED
      BY <1>8, <2>1, <3>1, SameRuns DEF Keeps, KeepsNext
  <2>. QED
    BY <1>3, <1>6, <2>1, <2>2
<1>16. CASE WakeMark
  BY <1>7, <1>16 DEF WakeMark, Suspended, Lasting, Typed, PowerOK
<1>. QED
  BY <1>10, <1>11, <1>12, <1>13, <1>14, <1>15, <1>16 DEF PowerStep

(* A call that starts takes its setting out of those that are made, and    *)
(* the other calls of its kind know that they have met it.                 *)
LEMMA StartSettings ==
  ASSUME Typed, Settings, NEW t \in Threads, NEW s \in Items, NEW v, NEW at,
         at \in {"store", "build", "apply"}, Start(t, s, v, at), UNCHANGED <<reg, Untouched>>,
         \A o \in Items : o # s => ext'[o] = ext[o],
         at # "store" /\ s \in {"flow", "modem"} => ext'[s] = v
  PROVE  Settings'
<1>1. /\ pc[t] = "idle" /\ call[t] = NoCall /\ call[t].item # s /\ handle = "open"
      /\ pc'[t] = at /\ call'[t].item = s /\ call'[t].value = v
      /\ call'[t].alone <=> \A u \in Threads : call[u].item # s
      /\ settled' = settled \ {s}
  <2>. DEFINE rivals == {u \in Threads : call[u].item = s}
  <2>1. pc[t] = "idle" /\ handle = "open" /\ pc' = [pc EXCEPT ![t] = at] /\ settled' = settled \ {s}
        /\ call'[t] = [item |-> s, value |-> v, alone |-> rivals = {}]
    BY DEF Start
  <2>2. call[t] = NoCall /\ pc'[t] = at
    BY <2>1 DEF Typed, CallsOK
  <2>3. NoCall.item # s
    BY DEF NoCall, Items
  <2>4. (rivals = {}) <=> \A u \in Threads : call[u].item # s
    OBVIOUS
  <2>. HIDE DEF rivals
  <2>5. call'[t].item = s /\ call'[t].value = v /\ call'[t].alone = (rivals = {})
    BY <2>1
  <2>. QED
    BY <2>1, <2>2, <2>3, <2>4, <2>5
<1>2. \A u \in Threads : u # t =>
        /\ pc'[u] = pc[u] /\ call'[u].item = call[u].item /\ call'[u].value = call[u].value
        /\ call'[u].alone => call[u].alone /\ call[u].item # s
  BY DEF Start, Typed, CallsOK, CallOK, NoCall
<1>3. handle' = handle /\ Suspended' = Suspended /\ saved' = saved /\ Lasting' = Lasting
  BY DEF Untouched, session, powerVars, Suspended, Lasting
<1>4. OnlyWhileOpen'
  BY <1>1, <1>3 DEF OnlyWhileOpen
<1>5. Alone'
  BY <1>1, <1>2 DEF Settings, Alone
<1>6. \A u \in Threads : Done(u)' => u # t /\ Done(u)
  BY <1>1, <1>2 DEF Done
<1>7. \A u \in Threads : u # t /\ call'[u].alone => call[u].item # s
  BY <1>2
<1>8. StoredStays'
  <2>1. ASSUME NEW u \in Threads, pc'[u] \in {"build", "apply"}, call'[u].alone,
               call'[u].item \in {"flow", "modem"}
        PROVE  ext'[call'[u].item] = call'[u].value
    <3>1. CASE u = t
      BY <1>1, <2>1, <3>1
    <3>2. CASE u # t
      BY <1>2, <2>1, <3>2 DEF Settings, StoredStays, Items
    <3>. QED
      BY <3>1, <3>2
  <2>. QED
    BY <2>1 DEF StoredStays
<1>9. MadeRuns'
  <2>1. \A o \in settled' : o \in Items /\ Keeps(o, ext'[o])
    BY <1>1 DEF Typed, HistoryOK, Settings, MadeRuns
  <2>2. \A u \in Threads : Done(u)' => Keeps(call'[u].item, call'[u].value)
    BY <1>2, <1>6 DEF Settings, MadeRuns
  <2>. QED
    BY <1>3, <2>1, <2>2 DEF MadeRuns, Keeps, Runs
<1>10. WillWake'
  BY <1>1, <1>3, <1>6 DEF Settings, WillWake
<1>. QED
  BY <1>4, <1>5, <1>8, <1>9, <1>10 DEF Settings
(* A call that returns: nobody else is about its setting when it was alone. *)
LEMMA ReturnSettings ==
  ASSUME Typed, Settings, NEW t \in Threads, pc[t] # "idle", NEW alone \in BOOLEAN,
         Return(t, alone), alone => call[t].alone,
         UNCHANGED Untouched,
         \A o \in Items : o # call[t].item => ext'[o] = ext[o],
         \A o \in Items : o # call[t].item =>
           \A w : Keeps(o, w) => KeepsNext(o, w),
         alone => KeepsNext(call[t].item, ext'[call[t].item]) /\ (Suspended => saved.valid)
  PROVE  Settings'
<1>. DEFINE s == call[t].item
<1>1. /\ pc'[t] = "idle" /\ call'[t] = NoCall /\ s \in Items
      /\ \A u \in Threads : u # t => pc'[u] = pc[u] /\ call'[u] = call[u]
      /\ settled' = IF alone THEN settled \cup {s} ELSE settled
  BY DEF Return, Typed, CallsOK, CallOK
<1>2. NoCall.item \notin Items /\ NoCall.alone = FALSE
  BY DEF NoCall, Items
<1>3. handle' = handle /\ Suspended' = Suspended /\ saved' = saved
  BY DEF Untouched, session, powerVars, Suspended
<1>4. alone => \A u \in Threads : u # t => call[u].item # s
  BY DEF Settings, Alone
<1>. HIDE DEF s
<1>5. OnlyWhileOpen'
  BY <1>3 DEF Settings, OnlyWhileOpen
<1>6. Alone'
  <2>1. \A u \in Threads : call'[u].item \notin settled'
    BY <1>1, <1>2, <1>4 DEF Settings, Alone, Typed, HistoryOK
  <2>2. \A u, w \in Threads : u # w /\ call'[u].alone => call'[w].item # call'[u].item
    <3>1. ASSUME NEW u \in Threads, NEW w \in Threads, u # w, call'[u].alone
          PROVE  call'[w].item # call'[u].item
      <4>1. u # t /\ call'[u] = call[u]
        BY <1>1, <1>2, <3>1
      <4>2. CASE w = t
        <5>1. pc[u] # "idle"
          BY <1>2, <3>1, <4>1 DEF Typed, CallsOK
        <5>2. call[u].item \in Items
          BY <5>1 DEF Typed, CallsOK, CallOK
        <5>. QED
          BY <1>1, <1>2, <4>1, <4>2, <5>2
      <4>3. CASE w # t
        BY <1>1, <3>1, <4>1, <4>3 DEF Settings, Alone
      <4>. QED
        BY <4>2, <4>3
    <3>. QED
      BY <3>1
  <2>. QED
    BY <2>1, <2>2 DEF Alone
<1>7. ASSUME NEW u \in Threads, u # t, call[u].alone
      PROVE  call[u].item # s
  BY <1>7 DEF Settings, Alone, s
<1>8. \A u \in Threads : pc'[u] # "idle" => u # t /\ pc[u] # "idle" /\ call[u].item \in Items
  BY <1>1 DEF Typed, CallsOK, CallOK
<1>9. StoredStays'
  <2>1. ASSUME NEW u \in Threads, pc'[u] \in {"build", "apply"}, call'[u].alone,
               call'[u].item \in {"flow", "modem"}
        PROVE  ext'[call'[u].item] = call'[u].value
    <3>1. u # t /\ call'[u] = call[u] /\ pc[u] \in {"build", "apply"}
      BY <1>1, <2>1
    <3>2. call[u].item \in Items /\ call[u].item # s
      BY <1>7, <1>8, <2>1, <3>1
    <3>. QED
      BY <2>1, <3>1, <3>2 DEF Settings, StoredStays, s
  <2>. QED
    BY <2>1 DEF StoredStays
<1>10. \A u \in Threads : Done(u)' => u # t /\ Done(u) /\ call'[u] = call[u]
  BY <1>1 DEF Done
<1>11. MadeRuns'
  <2>1. ASSUME NEW o \in settled'
        PROVE  KeepsNext(o, ext'[o])
    <3>1. CASE o = s
      <4>1. s \notin settled
        BY DEF Settings, Alone, s
      <4>2. alone
        BY <1>1, <2>1, <3>1, <4>1
      <4>. QED
        BY <3>1, <4>2 DEF s
    <3>2. CASE o # s
      <4>1. o \in settled /\ o \in Items
        BY <1>1, <2>1, <3>2 DEF Typed, HistoryOK
      <4>. QED
        BY <3>2, <4>1 DEF Settings, MadeRuns, s
    <3>. QED
      BY <3>1, <3>2
  <2>2. ASSUME NEW u \in Threads, Done(u)'
        PROVE  KeepsNext(call'[u].item, call'[u].value)
    <3>1. u # t /\ Done(u) /\ call'[u] = call[u]
      BY <1>10, <2>2
    <3>2. call[u].item # s /\ call[u].item \in Items
      BY <1>7, <1>8, <2>2, <3>1 DEF Done
    <3>. QED
      BY <3>1, <3>2 DEF Settings, MadeRuns, s
  <2>. QED
    BY <2>1, <2>2 DEF MadeRuns, Keeps, KeepsNext, Runs
<1>12. WillWake'
  BY <1>1, <1>3, <1>10 DEF Settings, WillWake
<1>. QED
  BY <1>5, <1>6, <1>9, <1>11, <1>12 DEF Settings

(* A step of a call that neither starts it nor ends it.                    *)
LEMMA GoSettings ==
  ASSUME Typed, Settings, NEW t \in Threads, pc[t] # "idle", NEW at, at \in {"build", "apply", "publish"},
         Go(t, at), NEW alone \in BOOLEAN, alone => call[t].alone, settled' = settled,
         call'[t].item = call[t].item, call'[t].alone = alone,
         at = "publish" => call'[t].value = call[t].value,
         \A u \in Threads : u # t => call'[u] = call[u],
         UNCHANGED Untouched,
         \A o \in Items : o # call[t].item => ext'[o] = ext[o],
         \A o \in Items : o # call[t].item =>
           \A w : Keeps(o, w) => KeepsNext(o, w),
         at # "publish" => ext'[call[t].item] = call'[t].value,
         at = "publish" /\ alone => KeepsNext(call[t].item, call[t].value)
                                   /\ (Suspended => saved.valid)
  PROVE  Settings'
<1>. DEFINE s == call[t].item
<1>1. /\ pc'[t] = at /\ s \in Items
      /\ call'[t].item = s /\ call'[t].alone = alone
      /\ at = "publish" => call'[t].value = call[t].value
      /\ \A u \in Threads : u # t => pc'[u] = pc[u] /\ call'[u] = call[u]
  BY DEF Go, Typed, CallsOK, CallOK
<1>2. handle' = handle /\ Suspended' = Suspended /\ saved' = saved
  BY DEF Untouched, session, powerVars, Suspended
<1>3. \A u \in Threads : call'[u].item = call[u].item /\ (call'[u].alone => call[u].alone)
  BY <1>1
<1>. HIDE DEF s
<1>4. handle \notin {"none", "opening", "closing"}
  BY DEF Settings, OnlyWhileOpen
<1>5. OnlyWhileOpen' /\ Alone'
  BY <1>2, <1>3, <1>4 DEF Settings, OnlyWhileOpen, Alone
<1>6. ASSUME NEW u \in Threads, u # t, call[u].alone
      PROVE  call[u].item # s
  BY <1>6 DEF Settings, Alone, s
<1>7. \A u \in Threads : pc[u] # "idle" => call[u].item \in Items
  BY DEF Typed, CallsOK, CallOK
<1>8. StoredStays'
  <2>1. ASSUME NEW u \in Threads, pc'[u] \in {"build", "apply"}, call'[u].alone,
               call'[u].item \in {"flow", "modem"}
        PROVE  ext'[call'[u].item] = call'[u].value
    <3>1. CASE u = t
      BY <1>1, <2>1, <3>1 DEF s
    <3>2. CASE u # t
      <4>1. call'[u] = call[u] /\ pc[u] \in {"build", "apply"}
        BY <1>1, <2>1, <3>2
      <4>2. call[u].item \in Items /\ call[u].item # s
        BY <1>6, <1>7, <2>1, <3>2, <4>1
      <4>. QED
        BY <2>1, <4>1, <4>2 DEF Settings, StoredStays, s
    <3>. QED
      BY <3>1, <3>2
  <2>. QED
    BY <2>1 DEF StoredStays
<1>9. MadeRuns'
  <2>1. ASSUME NEW o \in settled
        PROVE  KeepsNext(o, ext'[o])
    <3>1. o # s /\ o \in Items
      BY DEF Settings, Alone, s, Typed, HistoryOK
    <3>. QED
      BY <3>1 DEF Settings, MadeRuns, s
  <2>2. ASSUME NEW u \in Threads, Done(u)'
        PROVE  KeepsNext(call'[u].item, call'[u].value)
    <3>1. CASE u = t
      BY <1>1, <2>2, <3>1 DEF Done, s
    <3>2. CASE u # t
      <4>1. call'[u] = call[u] /\ Done(u)
        BY <1>1, <2>2, <3>2 DEF Done
      <4>2. call[u].item \in Items /\ call[u].item # s
        BY <1>6, <1>7, <3>2, <4>1 DEF Done
      <4>. QED
        BY <4>1, <4>2 DEF Settings, MadeRuns, s
    <3>. QED
      BY <3>1, <3>2
  <2>. QED
    BY <2>1, <2>2 DEF MadeRuns, Keeps, KeepsNext, Runs
<1>10. WillWake'
  <2>1. ASSUME Suspended', settled' # {} \/ \E u \in Threads : Done(u)'
        PROVE  saved'.valid
    <3>1. CASE settled # {} \/ \E u \in Threads : Done(u)
      BY <1>2, <2>1, <3>1 DEF Settings, WillWake
    <3>2. CASE Done(t)'
      BY <1>1, <1>2, <2>1, <3>2 DEF Done
    <3>. QED
      BY <1>1, <2>1, <3>1, <3>2 DEF Done
  <2>. QED
    BY <2>1 DEF WillWake
<1>. QED
  BY <1>5, <1>8, <1>9, <1>10 DEF Settings

(* The steps of the threads' calls.                                        *)
LEMMA CallSettings ==
  ASSUME Typed, Settings, NEW t \in Threads, Call(t)
  PROVE  Settings'
<1>1. CASE SetChipFirst(t)
  <2>1. PICK s \in {"baud", "line"} : \E v \in Values[s] : Start(t, s, v, "apply")
    BY <1>1 DEF SetChipFirst
  <2>2. PICK v \in Values[s] : Start(t, s, v, "apply")
    BY <2>1
  <2>3. UNCHANGED <<reg, Untouched>> /\ ext' = ext
    BY <1>1 DEF SetChipFirst
  <2>. QED
    BY <2>2, <2>3, StartSettings DEF Items
<1>2. CASE SetStoreFirst(t)
  <2>. DEFINE at(s) == IF s = "flow" THEN "build" ELSE "apply"
  <2>1. PICK s \in {"flow", "chars"} : \E v \in Values[s] :
          Start(t, s, v, at(s)) /\ ext' = [ext EXCEPT ![s] = v]
    BY <1>2 DEF SetStoreFirst
  <2>2. PICK v \in Values[s] : Start(t, s, v, at(s)) /\ ext' = [ext EXCEPT ![s] = v]
    BY <2>1
  <2>3. UNCHANGED <<reg, Untouched>> /\ at(s) \in {"store", "build", "apply"}
    BY <1>2 DEF SetStoreFirst
  <2>4. s \in Items /\ ext'[s] = v /\ \A o \in Items : o # s => ext'[o] = ext[o]
    BY <2>2 DEF Typed, ExtOK, Items
  <2>. HIDE DEF at
  <2>. QED
    BY <2>2, <2>3, <2>4, StartSettings
<1>3. CASE SetModemLine(t)
  <2>1. PICK v : Start(t, "modem", v, "store")
    BY <1>3 DEF SetModemLine
  <2>2. UNCHANGED <<reg, Untouched>> /\ ext' = ext
    BY <1>3 DEF SetModemLine
  <2>. QED
    BY <2>1, <2>2, StartSettings DEF Items
<1>4. CASE ModemStore(t)
  <2>1. /\ pc[t] # "idle" /\ call[t].item = "modem" /\ Go(t, "build")
        /\ ext' = [ext EXCEPT !.modem = call[t].value]
        /\ reg' = reg /\ call' = call /\ settled' = settled /\ UNCHANGED Untouched
    BY <1>4 DEF ModemStore, history
  <2>2. CallOK(call[t], pc[t])
    BY <2>1 DEF Typed, CallsOK
  <2>3. call[t].alone \in BOOLEAN
    BY <2>2 DEF CallOK
  <2>4. \A o, w : Keeps(o, w) => KeepsNext(o, w)
    BY <2>1 DEF Lasting, Suspended, Untouched, powerVars, Keeps, KeepsNext
  <2>5. ext'[call[t].item] = call'[t].value
        /\ \A o \in Items : o # call[t].item => ext'[o] = ext[o]
    BY <2>1 DEF Typed, ExtOK, Items
  <2>. QED
    BY <2>1, <2>3, <2>4, <2>5, GoSettings
<1>5. CASE Build(t)
  <2>1. /\ pc[t] = "build" /\ Go(t, "apply") /\ ext' = ext /\ reg' = reg /\ settled' = settled
        /\ call' = [call EXCEPT ![t].value = ext[call[t].item]] /\ UNCHANGED Untouched
    BY <1>5 DEF Build, history
  <2>2. CallOK(call[t], pc[t])
    BY <2>1 DEF Typed, CallsOK
  <2>3. /\ call[t].alone \in BOOLEAN /\ call'[t].item = call[t].item
        /\ call'[t].alone = call[t].alone /\ call'[t].value = ext[call[t].item]
        /\ \A u \in Threads : u # t => call'[u] = call[u]
    BY <2>1, <2>2 DEF CallOK, Typed, CallsOK
  <2>4. \A o, w : Keeps(o, w) => KeepsNext(o, w)
    BY <2>1 DEF Lasting, Suspended, Untouched, powerVars, Keeps, KeepsNext
  <2>. QED
    BY <2>1, <2>3, <2>4, GoSettings
<1>6. CASE Apply(t)
  <2>. DEFINE alone == call[t].alone /\ ~Suspended
              s == call[t].item
  <2>1. /\ pc[t] = "apply" /\ ext' = ext /\ UNCHANGED Untouched
        /\ Write(Applied(s, Argument(t), reg))
    BY <1>6 DEF Apply
  <2>2. CallOK(call[t], pc[t])
    BY <2>1 DEF Typed, CallsOK
  <2>3. s \in Items /\ alone \in BOOLEAN
    BY <2>2 DEF CallOK
  <2>4. \A o \in Items : o # s => \A w : Keeps(o, w) => KeepsNext(o, w)
    <3>1. \A o \in Items : o # s => \A w : Runs(reg, o, w) => Runs(reg', o, w)
      BY <2>1, <2>3, AppliedRuns DEF Write, Typed, ChipOK
    <3>2. power' = power /\ transit' = transit /\ saved' = saved
      BY <2>1 DEF Untouched, powerVars
    <3>. QED
      BY <3>1, <3>2 DEF Lasting, Suspended, Keeps, KeepsNext
  <2>5. alone => KeepsNext(s, Argument(t))
    <3>1. alone => reg' = Applied(s, Argument(t), reg) /\ Lasting' = {reg'}
      BY <2>1 DEF Write, Lasting, Suspended, Untouched, powerVars, Typed, PowerOK
    <3>2. Runs(Applied(s, Argument(t), reg), s, Argument(t))
      BY <2>3, AppliedRuns DEF Typed, ChipOK
    <3>. QED
      BY <3>1, <3>2 DEF KeepsNext
  <2>6. CASE Stored(t)
    <3>1. Return(t, alone)
      BY <1>6, <2>6 DEF Apply
    <3>2. alone => ext[s] = Argument(t)
      BY <2>1, <2>6 DEF Settings, StoredStays, Stored, Argument
    <3>3. alone => ~Suspended
      OBVIOUS
    <3>4. alone => call[t].alone
      OBVIOUS
    <3>. HIDE DEF alone
    <3>. QED
      BY <2>1, <2>3, <2>4, <2>5, <3>1, <3>2, <3>3, <3>4, ReturnSettings
  <2>7. CASE ~Stored(t)
    <3>1. /\ Go(t, "publish") /\ call' = [call EXCEPT ![t].alone = alone]
          /\ settled' = settled
      BY <1>6, <2>7 DEF Apply, history
    <3>2. alone => KeepsNext(s, call[t].value)
      BY <2>5, <2>7 DEF Stored, Argument
    <3>3. alone => ~Suspended
      OBVIOUS
    <3>4. alone => call[t].alone
      OBVIOUS
    <3>. HIDE DEF alone
    <3>5. /\ call'[t].item = call[t].item /\ call'[t].value = call[t].value
          /\ call'[t].alone = alone /\ \A u \in Threads : u # t => call'[u] = call[u]
      BY <2>2, <3>1 DEF Typed, CallsOK, CallOK
    <3>. QED
      BY <2>1, <2>3, <2>4, <3>1, <3>2, <3>3, <3>4, <3>5, GoSettings
  <2>. QED
    BY <2>6, <2>7
<1>7. CASE Publish(t)
  <2>1. /\ pc[t] = "publish" /\ Return(t, call[t].alone) /\ reg' = reg /\ UNCHANGED Untouched
        /\ ext' = [ext EXCEPT ![call[t].item] = call[t].value]
    BY <1>7 DEF Publish
  <2>2. CallOK(call[t], pc[t])
    BY <2>1 DEF Typed, CallsOK
  <2>3. call[t].item \in Items /\ call[t].alone \in BOOLEAN
    BY <2>2 DEF CallOK
  <2>4. ext'[call[t].item] = call[t].value /\ \A o \in Items : o # call[t].item => ext'[o] = ext[o]
    BY <2>1, <2>3 DEF Typed, ExtOK
  <2>5. \A o, w : Keeps(o, w) => KeepsNext(o, w)
    BY <2>1 DEF Lasting, Suspended, Untouched, powerVars, Keeps, KeepsNext
  <2>6. call[t].alone => Keeps(call[t].item, call[t].value) /\ (Suspended => saved.valid)
    BY <2>1 DEF Settings, MadeRuns, WillWake, Done
  <2>. QED
    BY <2>1, <2>3, <2>4, <2>5, <2>6, ReturnSettings
<1>. QED
  BY <1>1, <1>2, <1>3, <1>4, <1>5, <1>6, <1>7 DEF Call

(* A break is none of the settings, and modem events are about none.       *)
LEMMA OtherSettings ==
  ASSUME Typed, Settings, UNCHANGED <<ext, pc, call, settled, handle, powerVars>>,
         \A s \in Items : \A v : Runs(reg, s, v) => Runs(reg', s, v)
  PROVE  Settings'
<1>1. \A s \in Items : \A v : Keeps(s, v) => KeepsNext(s, v)
  BY DEF Lasting, Suspended, powerVars, Keeps, KeepsNext
<1>2. OnlyWhileOpen' /\ Alone' /\ StoredStays' /\ WillWake'
  BY DEF Settings, OnlyWhileOpen, Alone, StoredStays, WillWake, Done, Suspended, powerVars
<1>3. \A t \in Threads : Done(t) => call[t].item \in Items
  BY DEF Done, Typed, CallsOK, CallOK
<1>4. MadeRuns'
  <2>1. \A s \in settled : KeepsNext(s, ext[s])
    BY <1>1 DEF Typed, HistoryOK, Settings, MadeRuns
  <2>2. \A t \in Threads : Done(t) => KeepsNext(call[t].item, call[t].value)
    BY <1>1, <1>3 DEF Settings, MadeRuns
  <2>. QED
    BY <2>1, <2>2 DEF MadeRuns, Keeps, KeepsNext, Runs, Done
<1>. QED
  BY <1>2, <1>4 DEF Settings
-----------------------------------------------------------------------------
(* A session that sleeps finds its own registers.                          *)

(* Most steps have nothing to do with it.                                  *)
LEMMA OwnElsewhere ==
  ASSUME OwnRegisters, UNCHANGED <<handle, opens, power, transit, saved, suspended>>
  PROVE  OwnRegisters'
BY DEF OwnRegisters, IsOpen, Suspended

LEMMA HandleOwn ==
  ASSUME Typed, OwnRegisters, HandleStep
  PROVE  OwnRegisters'
<1>. Suspended' = Suspended /\ saved' = saved /\ suspended' = suspended
  BY DEF HandleStep, CreateInit, CreateMark, Cleanup, CloseShutdown, CloseMark, powerVars, Suspended
<1>1. CASE CreateInit
  BY <1>1 DEF CreateInit, Typed, HandleOK, OwnRegisters, IsOpen
<1>2. CASE CreateMark
  BY <1>2 DEF CreateMark, OwnRegisters, IsOpen
<1>3. CASE Cleanup \/ CloseShutdown \/ CloseMark
  <2>1. opens' = opens /\ handle' # "opening" /\ (IsOpen' => IsOpen)
    BY <1>3 DEF Cleanup, CloseShutdown, CloseMark, IsOpen
  <2>. QED
    BY <2>1 DEF OwnRegisters
<1>. QED
  BY <1>1, <1>2, <1>3 DEF HandleStep

LEMMA PowerOwn ==
  ASSUME Typed, OwnRegisters, PowerStep
  PROVE  OwnRegisters'
<1>1. handle' = handle /\ opens' = opens /\ IsOpen' = IsOpen
  BY DEF PowerStep, SleepCheck, SleepSave, SleepMark, CardOff, CardOn, WakeCheck, WakeRestore,
         WakeMark, session, IsOpen
<1>2. CASE SleepSave
  <2>1. CASE IsOpen
    <3>1. saved' = [valid |-> TRUE, reg |-> SavedChannel(reg)]
          /\ suspended' = [session |-> opens, reg |-> reg]
      BY <1>2, <2>1 DEF SleepSave
    <3>2. DOMAIN reg = Fields /\ opens \in Nat /\ handle # "opening"
      BY <2>1 DEF Typed, ChipOK, RegOK, HandleOK, IsOpen
    <3>. QED
      BY <1>1, <3>1, <3>2 DEF OwnRegisters
  <2>2. CASE ~IsOpen
    BY <1>1, <1>2, <2>2 DEF SleepSave, OwnRegisters
  <2>. QED
    BY <2>1, <2>2
<1>3. CASE SleepCheck \/ SleepMark \/ CardOff \/ CardOn \/ WakeCheck
  <2>1. saved' = saved /\ suspended' = suspended /\ (Suspended' /\ IsOpen => Suspended)
    BY <1>3 DEF SleepCheck, SleepMark, CardOff, CardOn, WakeCheck, Suspended, Typed, PowerOK
  <2>. QED
    BY <1>1, <2>1 DEF OwnRegisters
<1>4. CASE WakeRestore \/ WakeMark
  <2>1. ~Suspended' /\ suspended' = suspended
    BY <1>4 DEF WakeRestore, WakeMark, Suspended
  <2>. QED
    BY <1>1, <2>1 DEF OwnRegisters
<1>. QED
  BY <1>2, <1>3, <1>4 DEF PowerStep

(* A session that wakes has the registers it slept with.                   *)
LEMMA WakesWithItsOwn ==
  ASSUME Typed, OwnRegisters, PowerStep, transit # "waking", transit' = "waking", IsOpen,
         suspended.session = opens
  PROVE  reg' = [suspended.reg EXCEPT !.break = FALSE, !.running = TRUE]
<1>1. WakeCheck \/ WakeRestore
  BY DEF PowerStep, SleepCheck, SleepSave, SleepMark, CardOff, CardOn, WakeMark
<1>2. Suspended
  BY <1>1 DEF WakeCheck, WakeRestore, Suspended, Typed, PowerOK
<1>3. saved.valid /\ saved.reg = SavedChannel(suspended.reg) /\ DOMAIN suspended.reg = Fields
  BY <1>2 DEF OwnRegisters
<1>4. WakeRestore
  BY <1>1, <1>3 DEF WakeCheck
<1>5. reg' = RestoredChannel(SavedChannel(suspended.reg), TRUE)
  BY <1>3, <1>4 DEF WakeRestore
<1>. QED
  BY <1>3, <1>5, SavedAndRestored

-----------------------------------------------------------------------------
(* The theorems.                                                           *)

(* The start.                                                              *)
LEMMA InitInv == Init => Inv
<1>. SUFFICES ASSUME Init PROVE Inv
  OBVIOUS
<1>1. ChipOK
  <2>1. saved = [valid |-> FALSE, reg |-> ResetChannel] /\ reg = ResetChannel
    BY DEF Init
  <2>. QED
    BY <2>1, ResetOK DEF ChipOK
<1>2. PowerOK /\ HandleOK /\ HistoryOK
  <2>1. /\ power = "D0" /\ powered = TRUE /\ transit = "none"
        /\ handle = "none" /\ opens = 0 /\ settled = {} /\ changed = {}
    BY DEF Init
  <2>. QED
    BY <2>1 DEF PowerOK, HandleOK, HistoryOK
<1>3. ExtOK /\ CallsOK
  <2>1. ExtOK
    BY DEF Init, ExtOK, Items
  <2>2. CallsOK
    BY DEF Init, CallsOK
  <2>. QED
    BY <2>1, <2>2
<1>4. WaitOK
  BY DEF Init, WaitOK, WaitsKept
<1>5. Settings
  <2>1. settled = {} /\ ~Suspended /\ (\A t \in Threads : pc[t] = "idle" /\ ~call[t].alone)
    BY DEF Init, NoCall, Suspended
  <2>. QED
    BY <2>1 DEF Settings, OnlyWhileOpen, Alone, StoredStays, MadeRuns, WillWake, Done
<1>6. OwnRegisters
  <2>1. DOMAIN ResetChannel = Fields
    BY ResetOK DEF RegOK
  <2>2. suspended = [session |-> 0, reg |-> ResetChannel] /\ handle = "none" /\ opens = 0
    BY DEF Init
  <2>. QED
    BY <2>1, <2>2 DEF OwnRegisters, IsOpen
<1>. QED
  BY <1>1, <1>2, <1>3, <1>4, <1>5, <1>6 DEF Inv, Typed

(* Every step.                                                             *)
LEMMA StepInv == Inv /\ [Next]_vars => Inv'
<1>. SUFFICES ASSUME Inv, [Next]_vars PROVE Inv'
  OBVIOUS
<1>. Typed /\ Settings /\ OwnRegisters
  BY DEF Inv
<1>1. CASE HandleStep
  BY <1>1, HandleTyped, HandleSettings, HandleOwn DEF Inv
<1>2. CASE PowerStep
  BY <1>2, PowerTyped, PowerSettings, PowerOwn DEF Inv
<1>3. ASSUME NEW t \in Threads, Call(t)
      PROVE  Inv'
  <2>1. UNCHANGED <<handle, opens, power, transit, saved, suspended>>
    BY <1>3 DEF Call, SetChipFirst, SetStoreFirst, SetModemLine, ModemStore, Build, Apply,
                Publish, Untouched, session, powerVars
  <2>. QED
    BY <1>3, <2>1, CallTyped, CallSettings, OwnElsewhere DEF Inv
<1>4. ASSUME NEW on \in BOOLEAN, Break(on)
      PROVE  Inv'
  <2>1. /\ UNCHANGED <<ext, pc, call, settled, handle, powerVars>>
        /\ UNCHANGED <<handle, opens, power, transit, saved, suspended>>
    BY <1>4 DEF Break, Untouched, session, powerVars, history
  <2>2. \A s \in Items : \A v : Runs(reg, s, v) => Runs(reg', s, v)
    BY <1>4, SameRuns DEF Break, Write, Typed, ChipOK
  <2>. QED
    BY <1>4, <2>1, <2>2, BreakTyped, OtherSettings, OwnElsewhere DEF Inv
<1>5. ASSUME NEW signal \in Signals, ModemChange(signal)
      PROVE  Inv'
  <2>1. /\ UNCHANGED <<ext, pc, call, settled, handle, powerVars>> /\ reg' = reg
        /\ UNCHANGED <<handle, opens, power, transit, saved, suspended>>
    BY <1>5 DEF ModemChange, session, powerVars, callVars, history
  <2>. QED
    BY <1>5, <2>1, ChangeTyped, OtherSettings, OwnElsewhere DEF Inv
<1>6. ASSUME NEW m, SetWaitMask(m)
      PROVE  Inv'
  <2>1. /\ UNCHANGED <<ext, pc, call, settled, handle, powerVars>> /\ reg' = reg
        /\ UNCHANGED <<handle, opens, power, transit, saved, suspended>>
    BY <1>6 DEF SetWaitMask, session, powerVars, history
  <2>. QED
    BY <1>6, <2>1, MaskTyped, OtherSettings, OwnElsewhere DEF Inv
<1>7. ASSUME NEW i \in Waits, WaitStep(i)
      PROVE  Inv'
  <2>1. /\ UNCHANGED <<ext, pc, call, settled, handle, powerVars>> /\ reg' = reg
        /\ UNCHANGED <<handle, opens, power, transit, saved, suspended>>
    BY <1>7 DEF WaitStep, WaitAsk, WaitEnter, WaitTake, session, powerVars, callVars,
                history
  <2>. QED
    BY <1>7, <2>1, WaitTyped, OtherSettings, OwnElsewhere DEF Inv
<1>8. CASE UNCHANGED vars
  <2>1. /\ UNCHANGED <<ext, pc, call, settled, handle, powerVars>> /\ reg' = reg
        /\ UNCHANGED <<handle, opens, power, transit, saved, suspended>>
    BY <1>8 DEF vars, session, powerVars, callVars, history
  <2>2. Typed'
    BY <1>8 DEF vars, session, powerVars, callVars, waitVars, Typed, ChipOK, ExtOK, CallsOK,
                PowerOK, HandleOK, WaitOK, WaitsKept, HistoryOK, history
  <2>. QED
    BY <2>1, <2>2, OtherSettings, OwnElsewhere DEF Inv
<1>. QED
  BY <1>1, <1>2, <1>3, <1>4, <1>5, <1>6, <1>7, <1>8 DEF Next, WaitStep

LEMMA Invariant == Spec => []Inv
BY InitInv, StepInv, PTL DEF Spec

(* The state is well formed: every value that reaches the chip fits the    *)
(* register's fields (CyBuildCOR1 and the other builders, cd1400.h and     *)
(* cyioctl.c), and a card without power has its port in D3 (cypower.c).    *)
THEOREM TypeCorrect == Spec => []TypeOK
<1>1. Inv => TypeOK
  <2>. SUFFICES ASSUME Inv PROVE TypeOK
    OBVIOUS
  <2>1. /\ reg.cor1 \in Cor1Codes \cup {UnsetCor1} /\ reg.msvr \subseteq {"DTR", "RTS"}
        /\ reg.srer \subseteq {"RxData", "MdmCh"} /\ reg.cor2 \subseteq {"CtsAE", "RtsAO", "TxIBE"}
        /\ DOMAIN reg = Fields /\ DOMAIN saved.reg = Fields
    BY DEF Inv, Typed, ChipOK, RegOK
  <2>2. DOMAIN ResetChannel = Fields
    BY ResetOK DEF RegOK
  <2>3. \A t \in Threads : pc[t] = "idle" <=> call[t] = NoCall
    <3>1. NoCall.item \notin Items
      BY DEF NoCall, Items
    <3>. QED
      BY <3>1 DEF Inv, Typed, CallsOK, CallOK
  <2>4. pc \in [Threads -> {"idle", "store", "build", "apply", "publish"}] /\ DOMAIN ext = Items
    BY DEF Inv, Typed, CallsOK, ExtOK
  <2>. QED
    BY <2>1, <2>2, <2>3, <2>4 DEF TypeOK, Inv, Typed, PowerOK, HandleOK, WaitOK, HistoryOK
<1>. QED
  BY <1>1, Invariant, PTL

(* What the port reports of a setting is what the chip runs with, if the   *)
(* call that made it met no other of its kind and no suspension: the       *)
(* chip-first and the extension-first calls of other kinds (cyioctl.c),    *)
(* the openings (cyserial.c) and earlier and later savings and restorings  *)
(* (cypower.c) leave it so, in whatever order they come.                   *)
THEOREM SettingsHold == Spec => []SettingsAgree
<1>1. Inv => SettingsAgree
  <2>. SUFFICES ASSUME Inv, IsOpen, power = "D0", NEW s \in settled
                PROVE  InForce(s, Reported[s])
    BY DEF SettingsAgree
  <2>1. s \in Items /\ Runs(reg, s, ext[s])
    BY DEF Inv, Typed, HistoryOK, Settings, MadeRuns, Keeps, Lasting
  <2>2. Reported[s] = ext[s]
    BY <2>1 DEF Reported, GetBaudRate, GetLineControl, GetHandFlow, GetChars, Items
  <2>. QED
    BY <2>1, <2>2 DEF Runs, InForce, Items
<1>. QED
  BY <1>1, Invariant, PTL

(* The pending wait is the one the port knows of (CyIoctlWaitOnMask,       *)
(* SetWaitMask and Cleanup).                                               *)
THEOREM WaitIsKnown == Spec => []WaitsKept
<1>1. Inv => WaitsKept
  BY DEF Inv, Typed, WaitOK
<1>. QED
  BY <1>1, Invariant, PTL

(* A session that is open across a suspension gets back the registers it   *)
(* had when they were saved (CySaveChannelStateSync and                    *)
(* CyRestoreChannelStateSync).                                             *)
THEOREM SuspensionIsUnseen == Spec => PowerRoundTrip
<1>. DEFINE Wakes == transit # "waking" /\ transit' = "waking" /\ IsOpen /\ suspended.session = opens
                     => reg' = [suspended.reg EXCEPT !.break = FALSE, !.running = TRUE]
<1>1. Inv /\ [Next]_vars => [Wakes]_vars
  <2>. SUFFICES ASSUME Inv, Next, transit # "waking", transit' = "waking", IsOpen,
                       suspended.session = opens
                PROVE  reg' = [suspended.reg EXCEPT !.break = FALSE, !.running = TRUE]
    OBVIOUS
  <2>1. PowerStep
    <3>1. transit' = transit \/ PowerStep
      BY DEF Next, HandleStep, CreateInit, CreateMark, Cleanup, CloseShutdown, CloseMark,
             Call, SetChipFirst, SetStoreFirst, SetModemLine, ModemStore, Build, Apply, Publish,
             Break, ModemChange, SetWaitMask, WaitAsk, WaitEnter, WaitTake, Untouched, powerVars
    <3>. QED
      BY <3>1
  <2>. QED
    BY <2>1, WakesWithItsOwn DEF Inv
<1>. QED
  BY <1>1, Invariant, PTL DEF Spec, PowerRoundTrip

-----------------------------------------------------------------------------
(* The installer.                                                          *)

\* What Windows keeps, and the flags.
InstallTyped ==
  /\ driven \subseteq Devices /\ file \in BOOLEAN
  /\ service \in {"none", "stopped", "stopping", "running"}
  /\ doomed \subseteq {"service", "file"}
  /\ failed \in BOOLEAN /\ spoiled \in BOOLEAN /\ ended \in {"no", "clean", "refused"}

\* The steps of an uninstall with those that follow, and what a run in which
\* nothing was refused has done when it comes to one.
Uninstalling == {"stop", "poll", "ports", "bus", "service", "file", "keys", "inf", "cert"}
NoDriver == {"service", "file", "keys", "inf", "cert"}
NoService == {"file", "keys", "inf", "cert"}
NoFile == {"keys", "inf", "cert"}

ServiceLeaves == service = "none" \/ "service" \in doomed
FileLeaves == ~file \/ "file" \in doomed

\* Nothing stands in the way of the removal of the devices.
Clear == onPci /\ (~failed \/ ~spoiled)

StepsDone ==
  /\ step \in Uninstalling => args.do = "uninstall"
  /\ Clear /\ step = "bus" => "ports" \notin driven
  /\ Clear /\ step \in NoDriver => driven = {}
  /\ ~failed /\ step \in NoService => ServiceLeaves
  /\ ~failed /\ step \in NoFile => FileLeaves
  /\ ~failed /\ step = "cert" => ~store

\* A service that is gone has no key, and what a device needs is there.
Registered == service = "none" => "cyport" \notin keys
Whole ==
  driven # {} /\ onPci /\ ~spoiled =>
    service # "none" /\ file /\ doomed = {} /\ "cyport" \in keys
Gone ==
  ended = "clean" =>
    /\ ~store /\ ServiceLeaves /\ FileLeaves
    /\ onPci => driven = {}

\* An install begins with the memory of the last uninstall gone.
Anew == step \in {"check", "trust", "copy"} => ended = "no"

InstallInv == InstallTyped /\ StepsDone /\ Registered /\ Whole /\ Gone /\ Anew

-----------------------------------------------------------------------------
\* The order of the steps.
LEMMA StepAt == ASSUME NEW k \in 1..8 PROVE (CHOOSE i \in 1..Len(Steps) : Steps[i] = Steps[k]) = k
<1>1. Len(Steps) = 8 BY DEF Steps
<1>2. \A i, j \in 1..8 : Steps[i] = Steps[j] => i = j BY DEF Steps
<1> QED BY <1>1, <1>2

LEMMA StepAfter == ASSUME NEW k \in 1..7 PROVE After(Steps[k]) = Steps[k + 1]
<1>1. k \in 1..8 OBVIOUS
<1> QED BY <1>1, StepAt DEF After

LEMMA Order ==
  /\ After("stop") = "ports" /\ After("ports") = "bus" /\ After("bus") = "service"
  /\ After("service") = "file" /\ After("file") = "keys" /\ After("keys") = "inf"
<1>1. /\ Steps[1] = "stop" /\ Steps[2] = "ports" /\ Steps[3] = "bus" /\ Steps[4] = "service"
      /\ Steps[5] = "file" /\ Steps[6] = "keys" /\ Steps[7] = "inf"
  BY DEF Steps
<1>2. /\ After(Steps[1]) = Steps[2] /\ After(Steps[2]) = Steps[3] /\ After(Steps[3]) = Steps[4]
      /\ After(Steps[4]) = Steps[5] /\ After(Steps[5]) = Steps[6] /\ After(Steps[6]) = Steps[7]
  <2>1. After(Steps[1]) = Steps[1 + 1] BY StepAfter
  <2>2. After(Steps[2]) = Steps[2 + 1] BY StepAfter
  <2>3. After(Steps[3]) = Steps[3 + 1] BY StepAfter
  <2>4. After(Steps[4]) = Steps[4 + 1] BY StepAfter
  <2>5. After(Steps[5]) = Steps[5 + 1] BY StepAfter
  <2>6. After(Steps[6]) = Steps[6 + 1] BY StepAfter
  <2> QED BY <2>1, <2>2, <2>3, <2>4, <2>5, <2>6
<1> QED BY <1>1, <1>2

-----------------------------------------------------------------------------
\* One lemma for each part of the program.  A run begins, installs, or ends:
\* no step of an uninstall is before it, or nothing has changed.
LEMMA BeginKeeps ==
  ASSUME InstallInv, UNCHANGED onPci, NEW a \in Install \cup Uninstall, Main(a) PROVE InstallInv'
<1> USE DEF Main, windows
<1>1. InstallTyped' BY DEF InstallInv, InstallTyped
<1>2. StepsDone' BY DEF InstallInv, InstallTyped, StepsDone, Install, Uninstall, Uninstalling,
                        NoDriver, NoService, NoFile, ServiceLeaves, FileLeaves
<1>3. Registered' /\ Whole' BY DEF InstallInv, InstallTyped, Registered, Whole
<1>4. Gone' /\ Anew'
  BY DEF InstallInv, Gone, ServiceLeaves, FileLeaves, Anew, Install, Uninstall
<1> QED BY <1>1, <1>2, <1>3, <1>4 DEF InstallInv

LEMMA InstallKeeps ==
  ASSUME InstallInv, UNCHANGED onPci,
         Unelevated \/ CheckMedia \/ Trust \/ CopyInf \/ Rescan \/ Killed
  PROVE  InstallInv'
<1>1. UNCHANGED <<driven, service, keys, file, doomed, flags>>
  BY DEF Unelevated, CheckMedia, Trust, CopyInf, Rescan, Killed, windows
<1>2. /\ step' \in {"idle", "trust", "copy", "rescan"}
      /\ store' = store \/ step = "copy"
  BY DEF Unelevated, CheckMedia, Trust, CopyInf, Rescan, Killed, Exit, GoTo, windows
<1>3. InstallTyped' BY <1>1 DEF InstallInv, InstallTyped, flags
<1>4. StepsDone' BY <1>1, <1>2 DEF InstallInv, StepsDone, Uninstalling, NoDriver, NoService, NoFile, flags
<1>5. Registered' /\ Whole' BY <1>1 DEF InstallInv, Registered, Whole, flags
<1>6. Gone'
  <2>1. step = "copy" => ended = "no" BY DEF InstallInv, Anew
  <2> QED BY <1>1, <1>2, <2>1 DEF InstallInv, Gone, ServiceLeaves, FileLeaves, flags
<1>7. Anew'
  BY <1>1 DEF InstallInv, Anew, flags, Unelevated, CheckMedia, Trust, CopyInf, Rescan, Killed, Exit, GoTo
<1> QED BY <1>3, <1>4, <1>5, <1>6, <1>7 DEF InstallInv

\* The stop leaves the devices alone and what is doomed, and the service stays
\* registered.
LEMMA StopKeeps ==
  ASSUME InstallInv, UNCHANGED onPci, StopDriverService \/ Poll \/ ServiceStops PROVE InstallInv'
<1>1. UNCHANGED <<store, driven, keys, file, doomed, flags>>
  BY DEF StopDriverService, Poll, ServiceStops, windows
<1>2. /\ service' \in {"none", "stopped", "stopping", "running"}
      /\ service' = "none" <=> service = "none"
  BY DEF StopDriverService, Poll, ServiceStops, windows, InstallInv, InstallTyped
<1>3. \/ step' = "idle"
      \/ step \in {"stop", "poll"} /\ step' \in {"poll", "ports"} /\ args' = args
      \/ step' = step /\ args' = args
  BY Order DEF StopDriverService, Poll, ServiceStops, GiveUp, GoTo, Exit
<1>4. InstallTyped' BY <1>1, <1>2 DEF InstallInv, InstallTyped, flags
<1>5. StepsDone'
  BY <1>1, <1>2, <1>3 DEF InstallInv, StepsDone, Uninstalling, NoDriver, NoService, NoFile,
                          ServiceLeaves, FileLeaves, Clear, flags
<1>6. Registered' /\ Whole' /\ Gone'
  BY <1>1, <1>2 DEF InstallInv, Registered, Whole, Gone, ServiceLeaves, FileLeaves, flags
<1>7. Anew' BY <1>1, <1>3 DEF InstallInv, Anew, flags
<1> QED BY <1>4, <1>5, <1>6, <1>7 DEF InstallInv

\* A device that was found and not refused has no driver any more.
LEMMA RemoveKeeps ==
  ASSUME InstallInv, UNCHANGED onPci, NEW d \in Devices, RemoveDevices(d) PROVE InstallInv'
<1>1. /\ driven' \subseteq driven
      /\ UNCHANGED <<store, keys, file, doomed, ended>>
      /\ \/ driven' = driven \ {d} /\ failed' = failed /\ spoiled' = spoiled
         \/ failed' = TRUE /\ spoiled' = TRUE
         \/ ~Found(d) /\ driven' = driven /\ failed' = failed /\ spoiled' = spoiled
  BY DEF RemoveDevices, Refused, windows, flags
<1>2. /\ service' \in {"none", "stopped", "stopping", "running"}
      /\ service' = "none" <=> service = "none"
  BY DEF RemoveDevices, Refused, windows, InstallInv, InstallTyped
<1>3. /\ args' = args
      /\ \/ step = "ports" /\ d = "ports" /\ step' = "bus"
         \/ step = "bus" /\ d = "bus" /\ step' = "service"
  BY Order DEF RemoveDevices, GoTo, Devices
<1>4. InstallTyped' BY <1>1, <1>2 DEF InstallInv, InstallTyped
<1>5. onPci => driven' = driven \ {d} \/ (failed' = TRUE /\ spoiled' = TRUE)
  BY <1>1 DEF Found
<1>6. StepsDone'
  <2>1. step' = "bus" \/ step' = "service" BY <1>3
  <2>2. Clear' /\ step' = "bus" => "ports" \notin driven' BY <1>3, <1>5 DEF Clear
  <2>3. Clear' /\ step' = "service" => driven' = {}
    <3>1. Clear' => Clear BY <1>1 DEF Clear, InstallInv, InstallTyped
    <3> QED BY <1>3, <1>5, <3>1 DEF Clear, InstallInv, InstallTyped, StepsDone, Devices
  <2>4. step' \in Uninstalling => args'.do = "uninstall"
    BY <1>3 DEF InstallInv, StepsDone, Uninstalling
  <2> QED BY <2>1, <2>2, <2>3, <2>4 DEF StepsDone, NoDriver, NoService, NoFile
<1>7. Registered' /\ Gone'
  BY <1>1, <1>2 DEF InstallInv, Registered, Gone, ServiceLeaves, FileLeaves
<1>8. Whole'
  <2>1. ~spoiled' => ~spoiled BY <1>1
  <2>2. driven' # {} => driven # {} BY <1>1
  <2> QED BY <1>1, <1>2, <2>1, <2>2 DEF InstallInv, Whole
<1>9. Anew' BY <1>1, <1>3 DEF InstallInv, Anew
<1> QED BY <1>4, <1>6, <1>7, <1>8, <1>9 DEF InstallInv

\* The registration goes, now or at the next boot, or was refused.
LEMMA ServiceKeeps == ASSUME InstallInv, UNCHANGED onPci, DeleteDriverService PROVE InstallInv'
<1> USE DEF DeleteDriverService
<1>1. step = "service" /\ step' = "file" /\ args' = args BY Order DEF GoTo
<1>2. /\ failed' = failed \/ failed' = TRUE
      /\ UNCHANGED <<store, driven, file, spoiled, ended>>
  BY DEF Refused, flags, windows
<1>3. ~failed' => ServiceLeaves' /\ ~failed
  BY DEF InstallInv, Refused, flags, windows, ServiceLeaves, AtBoot
<1>4. Clear' => Clear /\ driven' = {}
  BY <1>1, <1>2 DEF InstallInv, InstallTyped, StepsDone, NoDriver, Clear
<1>5. InstallTyped'
  BY DEF InstallInv, InstallTyped, Refused, flags, windows, AtBoot
<1>6. StepsDone'
  BY <1>1, <1>3, <1>4 DEF InstallInv, StepsDone, Uninstalling, NoDriver, NoService, NoFile
<1>7. Registered' BY DEF InstallInv, Registered, Refused, windows
<1>8. Whole' BY <1>4 DEF Whole, Clear
<1>9. Gone'
  <2>1. ServiceLeaves => ServiceLeaves' BY DEF ServiceLeaves, Refused, windows, AtBoot
  <2>2. FileLeaves => FileLeaves' BY DEF FileLeaves, Refused, windows, AtBoot
  <2> QED BY <1>2, <2>1, <2>2 DEF InstallInv, Gone
<1>10. Anew' BY <1>1 DEF Anew
<1> QED BY <1>5, <1>6, <1>7, <1>8, <1>9, <1>10 DEF InstallInv

\* The file in the same way.
LEMMA FileKeeps == ASSUME InstallInv, UNCHANGED onPci, DeleteDriverFile PROVE InstallInv'
<1> USE DEF DeleteDriverFile
<1>1. step = "file" /\ step' = "keys" /\ args' = args BY Order DEF GoTo
<1>2. /\ failed' = failed \/ failed' = TRUE
      /\ UNCHANGED <<store, driven, service, keys, spoiled, ended>>
  BY DEF Refused, flags, windows
<1>3. ~failed' => FileLeaves' /\ ~failed
  BY DEF InstallInv, Refused, flags, windows, FileLeaves, AtBoot
<1>4. Clear' => Clear /\ driven' = {}
  BY <1>1, <1>2 DEF InstallInv, InstallTyped, StepsDone, NoDriver, Clear
<1>5. InstallTyped'
  BY DEF InstallInv, InstallTyped, Refused, flags, windows, AtBoot
<1>6. ServiceLeaves => ServiceLeaves' BY DEF ServiceLeaves, Refused, windows, AtBoot
<1>7. StepsDone'
  BY <1>1, <1>3, <1>4, <1>6 DEF InstallInv, StepsDone, Uninstalling, NoDriver, NoService, NoFile
<1>8. Registered' BY <1>2 DEF InstallInv, Registered
<1>9. Whole' BY <1>4 DEF Whole, Clear
<1>10. Gone'
  <2>1. FileLeaves => FileLeaves' BY DEF FileLeaves, Refused, windows, AtBoot
  <2> QED BY <1>2, <1>6, <2>1 DEF InstallInv, Gone
<1>11. Anew' BY <1>1 DEF Anew
<1> QED BY <1>5, <1>7, <1>8, <1>9, <1>10, <1>11 DEF InstallInv

\* The keys only get fewer, and no driven device is left by then.
LEMMA KeysKeep == ASSUME InstallInv, UNCHANGED onPci, CleanRegistry PROVE InstallInv'
<1> USE DEF CleanRegistry
<1>1. step = "keys" /\ step' = "inf" /\ args' = args BY Order DEF GoTo
<1>2. UNCHANGED <<store, driven, service, file, doomed, flags>> OBVIOUS
<1>3. keys' \subseteq keys OBVIOUS
<1>4. InstallTyped' BY <1>2 DEF InstallInv, InstallTyped, flags
<1>5. StepsDone'
  BY <1>1, <1>2 DEF InstallInv, StepsDone, Uninstalling, NoDriver, NoService, NoFile,
                    ServiceLeaves, FileLeaves, Clear, flags
<1>6. Registered' /\ Gone'
  BY <1>2, <1>3 DEF InstallInv, Registered, Gone, ServiceLeaves, FileLeaves, flags
<1>7. Whole'
  BY <1>1, <1>2 DEF InstallInv, InstallTyped, StepsDone, NoDriver, Whole, Clear, flags
<1>8. Anew' BY <1>1 DEF Anew
<1> QED BY <1>4, <1>5, <1>6, <1>7, <1>8 DEF InstallInv

\* The last steps: the uninstall is clean if nothing was refused.
LEMMA EndKeeps == ASSUME InstallInv, UNCHANGED onPci, RemoveInf \/ RemoveCert PROVE InstallInv'
<1> USE DEF RemoveInf, RemoveCert
<1>1. /\ step \in {"inf", "cert"}
      /\ step' = "idle" \/ (step = "inf" /\ step' = "cert" /\ args' = args)
  BY DEF GoTo, Exit
<1>2. UNCHANGED <<driven, service, keys, file, doomed, spoiled>> BY DEF windows
<1>3. /\ ~failed' => ~failed /\ ~store'
      /\ failed' \in BOOLEAN /\ (store' => store)
  <2>1. CASE RemoveInf
    <3>1. failed \in BOOLEAN BY DEF InstallInv, InstallTyped
    <3>2. (store' = FALSE /\ failed' = failed) \/ (store' = store /\ failed' = TRUE) BY <2>1
    <3>3. CASE store' = FALSE /\ failed' = failed BY <3>1, <3>3
    <3>4. CASE store' = store /\ failed' = TRUE BY <3>4
    <3> QED BY <3>2, <3>3, <3>4
  <2>2. CASE RemoveCert
    <3>1. failed' = failed /\ store' = store /\ step = "cert" BY <2>2 DEF windows
    <3>2. failed \in BOOLEAN /\ (~failed => ~store) BY <3>1 DEF InstallInv, InstallTyped, StepsDone
    <3> QED BY <3>1, <3>2
  <2> QED BY <2>1, <2>2
<1>4. ended' = ended \/ ended' = Outcome(failed')
  BY DEF windows
<1>5. InstallTyped' BY <1>2, <1>3, <1>4 DEF InstallInv, InstallTyped, Outcome
<1>6. ~failed' => ServiceLeaves' /\ FileLeaves' /\ (onPci => driven' = {})
  BY <1>1, <1>2, <1>3 DEF InstallInv, StepsDone, NoDriver, NoService, NoFile, Clear,
                          ServiceLeaves, FileLeaves
<1>7. step' = "cert" /\ Clear' => driven' = {}
  <2>1. Clear' => Clear BY <1>2, <1>3 DEF Clear
  <2> QED BY <1>1, <1>2, <2>1 DEF InstallInv, StepsDone, NoDriver
<1>8. StepsDone'
  <2>1. step' \in Uninstalling => args'.do = "uninstall"
    BY <1>1 DEF InstallInv, StepsDone, Uninstalling
  <2> QED BY <1>1, <1>3, <1>6, <1>7, <2>1 DEF StepsDone, NoDriver, NoService, NoFile
<1>9. Registered' /\ Whole' BY <1>2 DEF InstallInv, Registered, Whole
<1>10. Gone'
  <2>1. CASE ended' = ended
    BY <1>2, <1>3, <2>1 DEF InstallInv, Gone, ServiceLeaves, FileLeaves
  <2>2. CASE ended' = Outcome(failed')
    BY <1>3, <1>6, <2>2 DEF Outcome, Gone
  <2> QED BY <1>4, <2>1, <2>2
<1>11. Anew' BY <1>1 DEF Anew
<1> QED BY <1>5, <1>8, <1>9, <1>10, <1>11 DEF InstallInv

\* What Windows does by itself.
LEMMA ConfigureKeeps == ASSUME InstallInv, UNCHANGED onPci, Configure PROVE InstallInv'
<1> USE DEF Configure
<1>1. InstallTyped' BY DEF InstallInv, InstallTyped
<1>2. StepsDone'
  <2>1. step \in Uninstalling => failed' /\ spoiled'
    BY DEF InstallInv, StepsDone
  <2>2. NoDriver \subseteq Uninstalling /\ NoService \subseteq Uninstalling
        /\ NoFile \subseteq Uninstalling /\ {"bus", "cert"} \subseteq Uninstalling
    BY DEF Uninstalling, NoDriver, NoService, NoFile
  <2> QED BY <2>1, <2>2 DEF InstallInv, StepsDone, Clear
<1>3. Registered' BY DEF Registered
<1>4. Whole'
  <2>1. "cyport" \in keys' BY DEF Keys
  <2>2. ~spoiled' => doomed' = {} BY DEF InstallInv, InstallTyped
  <2> QED BY <2>1, <2>2 DEF Whole
<1>5. Gone' /\ Anew' BY DEF InstallInv, Gone, Anew
<1> QED BY <1>1, <1>2, <1>3, <1>4, <1>5 DEF InstallInv

LEMMA BootKeeps == ASSUME InstallInv, UNCHANGED onPci, Boot PROVE InstallInv'
<1> USE DEF Boot
<1>1. InstallTyped' BY DEF InstallInv, InstallTyped, flags
<1>2. StepsDone' /\ Anew'
  BY DEF InstallInv, StepsDone, Uninstalling, NoDriver, NoService, NoFile, Exit, flags, Anew
<1>3. Registered' BY DEF Registered
<1>4. Whole' BY DEF InstallInv, InstallTyped, Whole, flags
<1>5. Gone'
  <2>1. service = "none" \/ "service" \in doomed => "cyport" \notin keys'
    BY DEF InstallInv, Registered
  <2> QED BY <2>1 DEF InstallInv, InstallTyped, Gone, ServiceLeaves, FileLeaves, flags
<1> QED BY <1>1, <1>2, <1>3, <1>4, <1>5 DEF InstallInv

-----------------------------------------------------------------------------
LEMMA InstallInitInv == InstallInit => InstallInv
<1> SUFFICES ASSUME InstallInit PROVE InstallInv OBVIOUS
<1> USE DEF InstallInit
<1>1. InstallTyped BY DEF InstallTyped
<1>2. StepsDone BY DEF StepsDone, Uninstalling, NoDriver, NoService, NoFile
<1>3. Registered /\ Whole /\ Gone /\ Anew BY DEF Registered, Whole, Gone, Anew
<1> QED BY <1>1, <1>2, <1>3 DEF InstallInv

LEMMA InstallStepInv == InstallInv /\ [InstallNext]_installVars => InstallInv'
<1> SUFFICES ASSUME InstallInv, [InstallNext]_installVars PROVE InstallInv' OBVIOUS
<1>0. CASE UNCHANGED installVars
  BY <1>0 DEF installVars, windows, flags, InstallInv, InstallTyped, StepsDone, Registered, Whole, Gone,
              ServiceLeaves, FileLeaves, Clear, Anew
<1>1. CASE InstallStep /\ UNCHANGED onPci
  <2> USE <1>1
  <2>1. CASE \E a \in Install \cup Uninstall : Main(a) BY <2>1, BeginKeeps
  <2>2. CASE Unelevated \/ CheckMedia \/ Trust \/ CopyInf \/ Rescan \/ Killed BY <2>2, InstallKeeps
  <2>3. CASE StopDriverService \/ Poll \/ ServiceStops BY <2>3, StopKeeps
  <2>4. CASE \E d \in Devices : RemoveDevices(d) BY <2>4, RemoveKeeps
  <2>5. CASE DeleteDriverService BY <2>5, ServiceKeeps
  <2>6. CASE DeleteDriverFile BY <2>6, FileKeeps
  <2>7. CASE CleanRegistry BY <2>7, KeysKeep
  <2>8. CASE RemoveInf \/ RemoveCert BY <2>8, EndKeeps
  <2>9. CASE Configure BY <2>9, ConfigureKeeps
  <2>10. CASE Boot BY <2>10, BootKeeps
  <2> QED
    BY <2>1, <2>2, <2>3, <2>4, <2>5, <2>6, <2>7, <2>8, <2>9, <2>10 DEF InstallStep
<1> QED BY <1>0, <1>1 DEF InstallNext

\* Wherever the uninstaller is killed or the machine restarted, a device of a
\* PCI card that still has the driver has a service and a file that are not
\* about to go, as long as no removal of a device was refused and none came
\* back under an uninstall or after one that left the file to the next boot.
THEOREM NothingOrphaned == InstallSpec => []NoOrphan
<1>1. InstallInv => NoOrphan BY DEF InstallInv, Whole, NoOrphan
<1> QED BY InstallInitInv, InstallStepInv, <1>1, PTL DEF InstallSpec

\* An uninstall of a PCI card with nothing refused and the INF gone leaves no
\* device, and no service and no file beyond the next boot, at the first attempt
\* or at a repetition, until the next install.
THEOREM UninstallsClean == InstallSpec => []GoneAfterBoot
<1>1. InstallInv => GoneAfterBoot
  BY DEF InstallInv, Gone, GoneAfterBoot, Status, ServiceGoes, FileGoes, ServiceLeaves, FileLeaves
<1> QED BY InstallInitInv, InstallStepInv, <1>1, PTL DEF InstallSpec

-----------------------------------------------------------------------------
(* The device objects of a card.                                           *)

PnpStates == {"NotStarted", "Started", "StopPending", "Stopped",
              "RemovePending", "SurpriseRemoved", "Removed"}
PdoRec == [index : Nat, pnp : PnpStates, prev : {"NotStarted", "Started"},
           link : {"none", "held", "lost"}, alive : BOOLEAN]
FdoRec == [there : BOOLEAN, pnp : PnpStates, prev : {"NotStarted", "Started"},
           started : BOOLEAN]

PnpTyped ==
  /\ numChips \in Nat /\ starts \in 0..MaxStarts
  /\ children \in Seq(Objects \cup {NoPort}) /\ DOMAIN pdo \subseteq Objects
  /\ \A o \in DOMAIN pdo : pdo[o] \in PdoRec
  /\ fdo \in FdoRec

(* A later start does not meet an object of an earlier one.                *)
Fresh == \A o \in DOMAIN pdo : WindowOf(o) <= starts

(* What the manager knows of is alive, and until the card is removed so is *)
(* what the card would report.                                             *)
Live(o) == o \in DOMAIN pdo /\ pdo[o].alive /\ WindowOf(o) \in mapped
Backed == \A o \in known : Live(o)
Kept == fdo.pnp # "Removed"
ListLives ==
  /\ Listed \subseteq DOMAIN pdo
  /\ Kept => \A i \in DOMAIN children : Live(children[i])

Handles == present \subseteq known /\ open \subseteq known

(* A port the manager does not know is not started.                        *)
Idle == \A o \in DOMAIN pdo : o \notin known => pdo[o].pnp \in {"NotStarted", "Removed"}

(* When the card is removed the manager knows none any more.               *)
Forgotten == ~Kept => known = {}

(* The chips lie in a mapped window as long as a port is listed.           *)
Based == Listed # {} /\ numChips # 0 => chipBase \in mapped

(* Stronger than distinct instance IDs: they count from 0.                 *)
Numbered == Kept => \A i \in DOMAIN children : pdo[children[i]].index = i - 1

Placed ==
  Kept /\ Len(children) = numChips * Channels =>
    \A i \in DOMAIN children : children[i][2] * Channels + children[i][3] = i - 1

(* An object nobody will remove any more holds no name.                    *)
Unnamed ==
  \A o \in DOMAIN pdo : o \notin known \/ pdo[o].pnp = "Removed" => pdo[o].link # "held"

PnpInv ==
  /\ PnpTyped /\ Fresh /\ Backed /\ ListLives /\ Handles /\ Idle /\ Forgotten /\ Based
  /\ Numbered /\ Placed /\ Unnamed /\ NamesDie

-----------------------------------------------------------------------------
(* The ports in the order they are created.                                *)

(* The constants are numbers.                                              *)
LEMMA Numbers ==
  MaxChips \in Nat \ {0} /\ Channels \in Nat \ {0} /\ MaxStarts \in Nat /\ MaxHandles \in Nat
BY PnpAssumption

(* A product of intervals from 0 has as many members as the product says.  *)
LEMMA CountPorts ==
  ASSUME NEW n \in Nat
  PROVE  IsFiniteSet(PortsOf(n)) /\ Cardinality(PortsOf(n)) = n * Channels
<1>0. Channels \in Nat
  BY Numbers
<1>1. /\ IsFiniteSet(0..n - 1) /\ Cardinality(0..n - 1) = n
      /\ IsFiniteSet(0..Channels - 1) /\ Cardinality(0..Channels - 1) = Channels
  <2>1. n - 1 \in Int /\ Channels - 1 \in Int
    BY <1>0
  <2>2. /\ IsFiniteSet(0..n - 1)
        /\ Cardinality(0..n - 1) = IF 0 > n - 1 THEN 0 ELSE n - 1 - 0 + 1
    BY <2>1, FS_Interval
  <2>3. /\ IsFiniteSet(0..Channels - 1)
        /\ Cardinality(0..Channels - 1) = IF 0 > Channels - 1 THEN 0 ELSE Channels - 1 - 0 + 1
    BY <2>1, FS_Interval
  <2>. QED
    BY <1>0, <2>2, <2>3
<1>2. /\ IsFiniteSet((0..n - 1) \X (0..Channels - 1))
      /\ Cardinality((0..n - 1) \X (0..Channels - 1))
           = Cardinality(0..n - 1) * Cardinality(0..Channels - 1)
  BY <1>1, FS_Product
<1>. QED
  BY <1>1, <1>2 DEF PortsOf

(* How many ports come before that of a chip and channel.                  *)
LEMMA Rank ==
  ASSUME NEW n \in Nat, NEW c \in 0..n - 1, NEW d \in 0..Channels - 1
  PROVE  Cardinality({p \in PortsOf(n) : Before(p, <<c, d>>)}) = c * Channels + d
<1>0. Channels \in Nat /\ c \in Nat /\ d \in Nat
  BY Numbers
<1> DEFINE Row == {c} \X (0..d - 1)
           Earlier == {p \in PortsOf(n) : Before(p, <<c, d>>)}
<1>1. Earlier = PortsOf(c) \cup Row
  <2>1. ASSUME NEW p \in PortsOf(n), Before(p, <<c, d>>)
        PROVE  p \in PortsOf(c) \cup Row
    BY <1>0, <2>1 DEF PortsOf, Before
  <2>2. ASSUME NEW p \in PortsOf(c) \cup Row
        PROVE  p \in PortsOf(n) /\ Before(p, <<c, d>>)
    BY <1>0, <2>2 DEF PortsOf, Before
  <2>. QED
    BY <2>1, <2>2
<1>2. IsFiniteSet(PortsOf(c)) /\ Cardinality(PortsOf(c)) = c * Channels
  BY <1>0, CountPorts
<1>3. IsFiniteSet(Row) /\ Cardinality(Row) = d
  <2>1. IsFiniteSet({c}) /\ Cardinality({c}) = 1
    BY FS_Singleton
  <2>2. d - 1 \in Int
    BY <1>0
  <2>3. IsFiniteSet(0..d - 1) /\ Cardinality(0..d - 1) = IF 0 > d - 1 THEN 0 ELSE d - 1 - 0 + 1
    BY <2>2, FS_Interval
  <2>4. Cardinality(0..d - 1) = d
    BY <1>0, <2>3
  <2>5. IsFiniteSet(Row) /\ Cardinality(Row) = Cardinality({c}) * Cardinality(0..d - 1)
    BY <2>1, <2>3, FS_Product
  <2>. QED
    BY <1>0, <2>1, <2>4, <2>5
<1>4. PortsOf(c) \cap Row = {}
  BY <1>0 DEF PortsOf
<1>5. Cardinality(PortsOf(c) \cup Row)
        = Cardinality(PortsOf(c)) + Cardinality(Row) - Cardinality(PortsOf(c) \cap Row)
  <2>. HIDE DEF Row
  <2>. QED
    BY <1>2, <1>3, FS_Union
<1>6. Cardinality({}) = 0
  BY FS_EmptySet
<1>7. c * Channels \in Nat
  BY <1>0
<1> DEFINE product == c * Channels
<1>8. Cardinality(Earlier) = product + d
  <2>1. product \in Nat /\ d \in Nat
    BY <1>0, <1>7
  <2>2. Cardinality(PortsOf(c)) = product
    BY <1>2
  <2>. HIDE DEF product, Row, Earlier
  <2>3. Cardinality(Earlier) = product + d - 0
    BY <1>1, <1>3, <1>4, <1>5, <1>6, <2>2
  <2>. QED
    BY <2>1, <2>3
<1>. QED
  BY <1>8

(* What the creation leaves in ChildPDOs: ports of the chips without a     *)
(* repetition; all of them, each at its place, when there are as many.     *)
LEMMA SlotsInOrder ==
  ASSUME NEW n \in Nat, NEW missing \in SUBSET PortsOf(n), NEW slots \in Created(n, missing)
  PROVE  /\ slots \in Seq(PortsOf(n))
         /\ \A i, j \in DOMAIN slots : slots[i] = slots[j] => i = j
         /\ Len(slots) = n * Channels =>
              \A i \in DOMAIN slots : slots[i][1] * Channels + slots[i][2] = i - 1
<1> DEFINE made == PortsOf(n) \ missing
           size == Cardinality(made)
<1>1. /\ IsFiniteSet(PortsOf(n)) /\ Cardinality(PortsOf(n)) = n * Channels
  BY CountPorts
<1>2. made \in SUBSET PortsOf(n)
  OBVIOUS
<1>3. /\ IsFiniteSet(made)
      /\ Cardinality(PortsOf(n)) = Cardinality(made) => PortsOf(n) = made
  <2>. HIDE DEF made
  <2>. QED
    BY <1>1, <1>2, FS_Subset
<1>4. size \in Nat
  <2>. HIDE DEF made
  <2>. QED
    BY <1>3, FS_CardinalityType
<1>5. /\ slots \in [1..size -> made]
      /\ \A i \in 1..size : Cardinality({p \in made : Before(p, slots[i])}) = i - 1
  BY DEF Created
<1> HIDE DEF size, made
<1>6. slots \in Seq(made) /\ Len(slots) = size /\ DOMAIN slots = 1..size
  BY <1>4, <1>5, SeqDef, LenProperties
<1>7. slots \in Seq(PortsOf(n))
  BY <1>2, <1>4, <1>5, SeqDef
<1>8. ASSUME NEW i \in DOMAIN slots, NEW j \in DOMAIN slots, slots[i] = slots[j]
      PROVE  i = j
  <2>1. {p \in made : Before(p, slots[i])} = {p \in made : Before(p, slots[j])}
    BY <1>8
  <2>2. i \in Nat /\ j \in Nat /\ i \in 1..size /\ j \in 1..size
    BY <1>4, <1>6
  <2>3. i - 1 = j - 1
    BY <1>5, <2>1, <2>2
  <2>. QED
    BY <2>2, <2>3
<1>9. ASSUME Len(slots) = n * Channels, NEW i \in DOMAIN slots
      PROVE  slots[i][1] * Channels + slots[i][2] = i - 1
  <2>1. made = PortsOf(n)
    BY <1>1, <1>3, <1>6, <1>9 DEF size
  <2>2. slots[i] \in PortsOf(n)
    BY <1>5, <1>6, <2>1
  <2>3. PICK c \in 0..n - 1, d \in 0..Channels - 1 : slots[i] = <<c, d>>
    BY <2>2 DEF PortsOf
  <2>4. Cardinality({p \in PortsOf(n) : Before(p, <<c, d>>)}) = i - 1
    BY <1>5, <1>6, <2>1, <2>3
  <2>5. Cardinality({p \in PortsOf(n) : Before(p, <<c, d>>)}) = c * Channels + d
    BY Rank
  <2>. QED
    BY <2>3, <2>4, <2>5
<1>. QED
  BY <1>7, <1>8, <1>9

-----------------------------------------------------------------------------
(* Steps of one object.                                                    *)

(* A new state leaves the rest of an object as it was.                     *)
LEMMA StateSet ==
  ASSUME NEW d \in PdoRec, NEW state \in PnpStates,
         state \in Pending => d.pnp \in {"NotStarted", "Started"}
  PROVE  /\ SetPnPState(d, state) \in PdoRec
         /\ SetPnPState(d, state).index = d.index
         /\ SetPnPState(d, state).link = d.link
         /\ SetPnPState(d, state).alive = d.alive
         /\ SetPnPState(d, state).pnp = state
BY DEF SetPnPState, PdoRec, PnpStates, Pending

(* So does a cancel, which never brings back a removed object.             *)
LEMMA StateRestored ==
  ASSUME NEW d \in PdoRec
  PROVE  /\ RestorePnPState(d) \in PdoRec
         /\ RestorePnPState(d).index = d.index
         /\ RestorePnPState(d).link = d.link
         /\ RestorePnPState(d).alive = d.alive
         /\ RestorePnPState(d).pnp # "Removed"
BY DEF RestorePnPState, PdoRec, PnpStates

(* The name of an object is a field of its own.                            *)
LEMMA LinkSet ==
  ASSUME NEW d \in PdoRec, NEW l \in {"none", "held", "lost"}
  PROVE  /\ [d EXCEPT !.link = l] \in PdoRec
         /\ [d EXCEPT !.link = l].index = d.index
         /\ [d EXCEPT !.link = l].link = l
         /\ [d EXCEPT !.link = l].alive = d.alive
         /\ [d EXCEPT !.link = l].pnp = d.pnp
BY DEF PdoRec

(* A state of the card changes nothing else of it.                         *)
LEMMA CardStateSet ==
  ASSUME NEW d \in FdoRec, NEW state \in PnpStates,
         state \in Pending => d.pnp = "Started"
  PROVE  SetPnPState(d, state) \in FdoRec /\ SetPnPState(d, state).pnp = state
BY DEF SetPnPState, FdoRec, PnpStates, Pending

(* A cancel does not bring back a removed card.                            *)
LEMMA CardRestored ==
  ASSUME NEW d \in FdoRec
  PROVE  RestorePnPState(d) \in FdoRec /\ RestorePnPState(d).pnp # "Removed"
BY DEF RestorePnPState, FdoRec, PnpStates

(* Steps that change neither an object nor a list keep everything.         *)
LEMMA NothingOfPorts ==
  ASSUME PnpInv, fdo' \in FdoRec, Kept' = Kept,
         UNCHANGED <<numChips, chipBase, children, mapped, starts, pdo, links, present, known, open>>
  PROVE  PnpInv'
<1>1. PnpTyped' /\ Fresh' /\ Handles'
  BY DEF PnpInv, PnpTyped, Fresh, Handles
<1>2. Backed' /\ ListLives'
  BY DEF PnpInv, Backed, ListLives, Listed, Live
<1>3. Numbered' /\ Placed'
  BY DEF PnpInv, Numbered, Placed
<1>4. Unnamed' /\ NamesDie'
  BY DEF PnpInv, Unnamed, NamesDie, Ports
<1>5. Idle' /\ Forgotten' /\ Based'
  BY DEF PnpInv, Idle, Forgotten, Based, Listed
<1>. QED
  BY <1>1, <1>2, <1>3, <1>4, <1>5 DEF PnpInv

(* A step of a known object that keeps its index and does not delete it    *)
(* disturbs the names at most.                                             *)
LEMMA ObjectStep ==
  ASSUME PnpInv, NEW o \in known, NEW r \in PdoRec,
         r.index = pdo[o].index, r.alive = pdo[o].alive,
         pdo' = [pdo EXCEPT ![o] = r], known' \subseteq known, Handles',
         UNCHANGED card
  PROVE  /\ PnpTyped' /\ Fresh' /\ Backed' /\ ListLives' /\ Numbered' /\ Placed'
         /\ Forgotten' /\ Based'
         /\ o \in DOMAIN pdo /\ DOMAIN pdo' = DOMAIN pdo /\ pdo'[o] = r
         /\ \A x \in DOMAIN pdo \ {o} : pdo'[x] = pdo[x]
<1>1. o \in DOMAIN pdo
  BY DEF PnpInv, Backed, Live
<1>2. /\ DOMAIN pdo' = DOMAIN pdo /\ pdo'[o] = r
      /\ \A x \in DOMAIN pdo \ {o} : pdo'[x] = pdo[x]
  BY <1>1
<1>3. UNCHANGED <<fdo, numChips, chipBase, children, mapped, starts>> /\ Kept' = Kept
  BY DEF card, Kept
<1>4. \A x \in DOMAIN pdo : pdo'[x].index = pdo[x].index /\ pdo'[x].alive = pdo[x].alive
  BY <1>1, <1>2
<1>5. PnpTyped'
  <2>1. \A x \in DOMAIN pdo' : pdo'[x] \in PdoRec
    BY <1>2 DEF PnpInv, PnpTyped
  <2>. QED
    BY <1>2, <1>3, <2>1 DEF PnpInv, PnpTyped
<1>6. Fresh'
  BY <1>2, <1>3 DEF PnpInv, Fresh
<1>7. Backed' /\ ListLives'
  <2>1. Backed'
    BY <1>2, <1>3, <1>4 DEF PnpInv, Backed, Live
  <2>. QED
    BY <1>2, <1>3, <1>4, <2>1 DEF PnpInv, ListLives, Listed, Live
<1>8. Numbered'
  <2>1. Kept => \A i \in DOMAIN children : children[i] \in DOMAIN pdo
    BY DEF PnpInv, ListLives, Live
  <2>. QED
    BY <1>3, <1>4, <2>1 DEF PnpInv, Numbered
<1>9. Placed' /\ Forgotten' /\ Based'
  BY <1>3 DEF PnpInv, Placed, Forgotten, Based, Listed
<1>. QED
  BY <1>1, <1>2, <1>5, <1>6, <1>7, <1>8, <1>9

(* If it keeps the name as well, nothing is disturbed.                     *)
LEMMA NamelessStep ==
  ASSUME PnpInv, NEW o \in known, NEW r \in PdoRec,
         r.index = pdo[o].index, r.alive = pdo[o].alive,
         r.link = pdo[o].link, r.pnp # "Removed",
         pdo' = [pdo EXCEPT ![o] = r], UNCHANGED <<card, manager, open, links>>
  PROVE  PnpInv'
<1>1. UNCHANGED <<present, known, open, links>>
  BY DEF manager
<1>2. Handles'
  BY <1>1 DEF PnpInv, Handles
<1>3. /\ PnpTyped' /\ Fresh' /\ Backed' /\ ListLives' /\ Numbered' /\ Placed'
      /\ Forgotten' /\ Based'
      /\ o \in DOMAIN pdo /\ DOMAIN pdo' = DOMAIN pdo /\ pdo'[o] = r
      /\ \A x \in DOMAIN pdo \ {o} : pdo'[x] = pdo[x]
  BY <1>1, <1>2, ObjectStep
<1>4. Unnamed' /\ Idle'
  BY <1>1, <1>3 DEF PnpInv, Unnamed, Idle
<1>5. NamesDie'
  <2>1. \A x \in DOMAIN pdo : /\ pdo'[x].index = pdo[x].index /\ pdo'[x].alive = pdo[x].alive
                              /\ pdo'[x].link = pdo[x].link
    BY <1>3
  <2>. QED
    BY <1>1, <1>3, <2>1 DEF PnpInv, NamesDie, Ports
<1>. QED
  BY <1>2, <1>3, <1>4, <1>5 DEF PnpInv

-----------------------------------------------------------------------------
(* The requests to the ports.                                              *)

(* A start makes the name, or keeps one that has to be kept.               *)
LEMMA StartPortHolds ==
  ASSUME PnpInv, NEW o \in known, NEW named \in BOOLEAN, StartPort(o, named)
  PROVE  PnpInv'
<1> DEFINE l == LinkAfterStart(o, named)
           d == SetPnPState(pdo[o], "Started")
           r == [d EXCEPT !.link = l]
<1>1. /\ o \in DOMAIN pdo /\ pdo[o] \in PdoRec /\ pdo[o].alive
      /\ UNCHANGED <<card, manager, open>>
      /\ pdo' = [pdo EXCEPT ![o] = r]
      /\ links' = IF named THEN links \cup {pdo[o].index} ELSE links
  BY DEF StartPort, PortState, PnpInv, PnpTyped, Backed, Live
<1>2. l \in {"none", "held", "lost"}
  BY DEF LinkAfterStart
<1>3. /\ d \in PdoRec /\ d.index = pdo[o].index /\ d.alive = pdo[o].alive /\ d.pnp = "Started"
  BY <1>1, StateSet DEF PnpStates, Pending
<1>4. /\ r \in PdoRec /\ r.index = pdo[o].index /\ r.alive = pdo[o].alive
      /\ r.link = l /\ r.pnp = "Started"
  <2>. HIDE DEF d, l
  <2>. QED
    BY <1>2, <1>3, LinkSet
<1>5. UNCHANGED <<present, known, open>>
  BY <1>1 DEF manager
<1> HIDE DEF r
<1>6. Handles'
  BY <1>5 DEF PnpInv, Handles
<1>7. /\ PnpTyped' /\ Fresh' /\ Backed' /\ ListLives' /\ Numbered' /\ Placed'
      /\ Forgotten' /\ Based'
      /\ o \in DOMAIN pdo /\ DOMAIN pdo' = DOMAIN pdo /\ pdo'[o] = r
      /\ \A x \in DOMAIN pdo \ {o} : pdo'[x] = pdo[x]
  BY <1>1, <1>4, <1>5, <1>6, ObjectStep
<1>8. Unnamed' /\ Idle'
  BY <1>4, <1>5, <1>7 DEF PnpInv, Unnamed, Idle
<1>9. NamesDie'
  <2>1. ASSUME NEW k \in links'
        PROVE  \E x \in DOMAIN pdo' :
                 /\ pdo'[x].index = k
                 /\ (x \in Ports' /\ pdo'[x].link = "held") \/ pdo'[x].link = "lost"
    <3>1. CASE named /\ k = pdo[o].index
      <4>1. l = "held"
        BY <3>1 DEF LinkAfterStart
      <4>. QED
        BY <1>1, <1>4, <1>7, <3>1, <4>1 DEF Ports
    <3>2. CASE k \in links
      <4>1. PICK x \in DOMAIN pdo :
              /\ pdo[x].index = k
              /\ (pdo[x].alive /\ pdo[x].link = "held") \/ pdo[x].link = "lost"
        BY <3>2 DEF PnpInv, NamesDie, Ports
      <4>2. CASE x # o
        BY <1>7, <4>1, <4>2 DEF Ports
      <4>3. CASE x = o
        <5>1. l \in {"held", "lost"}
          BY <4>1, <4>3 DEF LinkAfterStart
        <5>. QED
          BY <1>1, <1>4, <1>7, <4>1, <4>3, <5>1 DEF Ports
      <4>. QED
        BY <4>2, <4>3
    <3>. QED
      BY <1>1, <2>1, <3>1, <3>2
  <2>. QED
    BY <2>1 DEF NamesDie
<1>. QED
  BY <1>6, <1>7, <1>8, <1>9 DEF PnpInv

(* Stops, cancels, queries and surprise removals keep the name.            *)
LEMMA ChangePortHolds ==
  ASSUME PnpInv, NEW o \in known, ChangePort(o)
  PROVE  PnpInv'
<1>1. o \in DOMAIN pdo /\ pdo[o] \in PdoRec
  BY DEF PnpInv, PnpTyped, Backed, Live
<1>2. UNCHANGED <<card, manager, open, links>>
  BY DEF ChangePort, PortState
<1>3. \/ pdo' = [pdo EXCEPT ![o] = RestorePnPState(pdo[o])]
      \/ \E state \in {"StopPending", "RemovePending"} :
           pdo[o].pnp = "Started" /\ pdo' = [pdo EXCEPT ![o] = SetPnPState(pdo[o], state)]
      \/ \E state \in {"Stopped", "SurpriseRemoved"} :
           pdo' = [pdo EXCEPT ![o] = SetPnPState(pdo[o], state)]
  BY DEF ChangePort, PortState, InState
<1>4. CASE pdo' = [pdo EXCEPT ![o] = RestorePnPState(pdo[o])]
  <2> DEFINE r == RestorePnPState(pdo[o])
  <2>1. /\ r \in PdoRec /\ r.index = pdo[o].index /\ r.alive = pdo[o].alive
        /\ r.link = pdo[o].link /\ r.pnp # "Removed"
    BY <1>1, StateRestored
  <2>2. pdo' = [pdo EXCEPT ![o] = r]
    BY <1>4
  <2>. HIDE DEF r
  <2>. QED
    BY <1>2, <2>1, <2>2, NamelessStep
<1>5. ASSUME NEW state \in PnpStates \ {"Removed"},
             state \in Pending => pdo[o].pnp = "Started",
             pdo' = [pdo EXCEPT ![o] = SetPnPState(pdo[o], state)]
      PROVE  PnpInv'
  <2> DEFINE r == SetPnPState(pdo[o], state)
  <2>1. /\ r \in PdoRec /\ r.index = pdo[o].index /\ r.alive = pdo[o].alive
        /\ r.link = pdo[o].link /\ r.pnp # "Removed"
    BY <1>1, <1>5, StateSet
  <2>2. pdo' = [pdo EXCEPT ![o] = r]
    BY <1>5
  <2>. HIDE DEF r
  <2>. QED
    BY <1>2, <2>1, <2>2, NamelessStep
<1>. QED
  BY <1>3, <1>4, <1>5 DEF PnpStates, Pending

(* A removal takes the name with it; the manager may forget the port.      *)
LEMMA RemovePortHolds ==
  ASSUME PnpInv, NEW o \in known, RemovePort(o)
  PROVE  PnpInv'
<1> DEFINE d == SetPnPState(pdo[o], "Removed")
           l == LinkAfterRemove(o)
           r == [d EXCEPT !.link = l]
<1>1. /\ o \in DOMAIN pdo /\ pdo[o] \in PdoRec /\ o \notin open
      /\ UNCHANGED <<card, present, open>>
      /\ pdo' = [pdo EXCEPT ![o] = r]
      /\ links' = IF pdo[o].link = "held" THEN links \ {pdo[o].index} ELSE links
      /\ known' = IF o \in present THEN known ELSE known \ {o}
  BY DEF RemovePort, LinksAfter, PnpInv, PnpTyped, Backed, Live
<1>2. /\ d \in PdoRec /\ d.index = pdo[o].index /\ d.alive = pdo[o].alive
      /\ d.pnp = "Removed" /\ d.link = pdo[o].link
  BY <1>1, StateSet DEF PnpStates, Pending
<1>3. l \in {"none", "held", "lost"} /\ l # "held"
  BY <1>1 DEF LinkAfterRemove, PdoRec
<1>4. /\ r \in PdoRec /\ r.index = pdo[o].index /\ r.alive = pdo[o].alive
      /\ r.link = l /\ r.pnp = "Removed"
  <2>. HIDE DEF d, l
  <2>. QED
    BY <1>2, <1>3, LinkSet
<1> HIDE DEF r
<1>5. known' \subseteq known /\ \A x \in known \ {o} : x \in known'
  BY <1>1
<1>6. Handles'
  BY <1>1 DEF PnpInv, Handles
<1>7. /\ PnpTyped' /\ Fresh' /\ Backed' /\ ListLives' /\ Numbered' /\ Placed'
      /\ Forgotten' /\ Based'
      /\ o \in DOMAIN pdo /\ DOMAIN pdo' = DOMAIN pdo /\ pdo'[o] = r
      /\ \A x \in DOMAIN pdo \ {o} : pdo'[x] = pdo[x]
  BY <1>1, <1>4, <1>5, <1>6, ObjectStep
<1>8. Unnamed' /\ Idle'
  BY <1>3, <1>4, <1>5, <1>7 DEF PnpInv, Unnamed, Idle
<1>9. NamesDie'
  <2>1. ASSUME NEW k \in links'
        PROVE  \E x \in DOMAIN pdo' :
                 /\ pdo'[x].index = k
                 /\ (x \in Ports' /\ pdo'[x].link = "held") \/ pdo'[x].link = "lost"
    <3>1. k \in links /\ (pdo[o].link = "held" => k # pdo[o].index)
      BY <1>1, <2>1
    <3>2. PICK x \in DOMAIN pdo :
            /\ pdo[x].index = k
            /\ (pdo[x].alive /\ pdo[x].link = "held") \/ pdo[x].link = "lost"
      BY <3>1 DEF PnpInv, NamesDie, Ports
    <3>3. CASE x # o
      BY <1>7, <3>2, <3>3 DEF Ports
    <3>4. CASE x = o
      <4>1. l = "lost"
        BY <3>1, <3>2, <3>4 DEF LinkAfterRemove
      <4>. QED
        BY <1>4, <1>7, <3>2, <3>4, <4>1
    <3>. QED
      BY <3>3, <3>4
  <2>. QED
    BY <2>1 DEF NamesDie
<1>. QED
  BY <1>6, <1>7, <1>8, <1>9 DEF PnpInv

(* Opening and closing a port that is known.                               *)
LEMMA HandlesHold ==
  ASSUME PnpInv, (\E o \in known : OpenPort(o)) \/ (\E o \in open : ClosePort(o))
  PROVE  PnpInv'
<1>1. /\ UNCHANGED <<fdo, numChips, chipBase, children, mapped, starts, pdo, links, present, known>>
      /\ open' \subseteq open \cup known
  BY DEF OpenPort, ClosePort, card, manager
<1>2. Handles'
  BY <1>1 DEF PnpInv, Handles
<1>3. PnpTyped' /\ Fresh' /\ Kept' = Kept
  BY <1>1 DEF PnpInv, PnpTyped, Fresh, Kept
<1>4. Backed' /\ ListLives'
  BY <1>1, <1>3 DEF PnpInv, Backed, ListLives, Listed, Live
<1>5. Numbered' /\ Placed'
  BY <1>1, <1>3 DEF PnpInv, Numbered, Placed
<1>6. Unnamed' /\ NamesDie'
  BY <1>1 DEF PnpInv, Unnamed, NamesDie, Ports
<1>7. Idle' /\ Forgotten' /\ Based'
  BY <1>1, <1>3 DEF PnpInv, Idle, Forgotten, Based, Listed
<1>. QED
  BY <1>2, <1>3, <1>4, <1>5, <1>6, <1>7 DEF PnpInv

-----------------------------------------------------------------------------
(* The requests to the card.                                               *)

(* What the creation leaves in the slots.                                  *)
MadeFrom(slots) ==
  /\ children' \in Seq(Objects) /\ Len(children') = Len(slots)
  /\ DOMAIN children' = DOMAIN slots
  /\ DOMAIN pdo' = DOMAIN pdo \cup {children'[i] : i \in DOMAIN children'}
  /\ \A o \in DOMAIN pdo : pdo'[o] = pdo[o]
  /\ \A i \in DOMAIN slots :
       /\ children'[i] = <<starts', slots[i][1], slots[i][2]>>
       /\ children'[i] \in Objects \ DOMAIN pdo
       /\ pdo'[children'[i]] = NewPdo(i - 1)

(* A start makes new objects, one for each port it could create, and       *)
(* leaves those of an earlier start alone.                                 *)
LEMMA ChildrenMade ==
  ASSUME PnpInv, NEW n \in 1..MaxChips, NEW missing \in SUBSET PortsOf(n),
         NEW slots \in Created(n, missing), CreateChildPDOs(slots),
         starts < MaxStarts, starts' = starts + 1
  PROVE  MadeFrom(slots)
<1> DEFINE object(i) == <<starts', slots[i][1], slots[i][2]>>
<1>1. n \in Nat /\ n \in 1..MaxChips /\ starts \in Nat /\ starts' \in 1..MaxStarts
  BY Numbers DEF PnpInv, PnpTyped
<1>2. /\ slots \in Seq(PortsOf(n))
      /\ \A i, j \in DOMAIN slots : slots[i] = slots[j] => i = j
  BY <1>1, SlotsInOrder
<1>3. /\ Len(slots) \in Nat /\ slots \in [1..Len(slots) -> PortsOf(n)]
      /\ DOMAIN slots = 1..Len(slots)
  BY <1>2, LenProperties
<1>4. ASSUME NEW i \in DOMAIN slots
      PROVE  /\ slots[i] # NoPort /\ object(i) \in Objects /\ object(i) \notin DOMAIN pdo
             /\ slots[i] = <<slots[i][1], slots[i][2]>>
  <2>1. slots[i] \in PortsOf(n)
    BY <1>3
  <2>2. PICK c \in 0..n - 1, d \in 0..Channels - 1 : slots[i] = <<c, d>>
    BY <2>1 DEF PortsOf
  <2>3. c \in 0..MaxChips - 1 /\ c \in Nat /\ d \in Nat
    BY <1>1, Numbers
  <2>4. slots[i] # NoPort
    BY <2>2, <2>3, PnpAssumption
  <2>5. object(i) = <<starts', c, d>>
    BY <2>2
  <2>6. object(i) \in Objects
    BY <1>1, <2>3, <2>5 DEF Objects
  <2>7. object(i) \notin DOMAIN pdo
    <3>1. ASSUME object(i) \in DOMAIN pdo PROVE FALSE
      <4>1. object(i)[1] <= starts
        BY <3>1 DEF PnpInv, Fresh, WindowOf
      <4>. QED
        BY <1>1, <2>5, <4>1
    <3>. QED
      BY <3>1
  <2>. QED
    BY <2>2, <2>4, <2>6, <2>7
<1>5. \A i, j \in DOMAIN slots : object(i) = object(j) => i = j
  <2>1. ASSUME NEW i \in DOMAIN slots, NEW j \in DOMAIN slots, object(i) = object(j)
        PROVE  i = j
    <3>1. slots[i][1] = slots[j][1] /\ slots[i][2] = slots[j][2]
      BY <2>1
    <3>2. slots[i] = slots[j]
      BY <1>4, <3>1
    <3>. QED
      BY <1>2, <3>2
  <2>. QED
    BY <2>1
<1>6. {i \in DOMAIN slots : slots[i] # NoPort} = DOMAIN slots
  BY <1>4
<1>7. /\ children' = [i \in DOMAIN slots |-> object(i)]
      /\ pdo' = [o \in DOMAIN pdo \cup {object(i) : i \in DOMAIN slots} |->
                   IF o \in DOMAIN pdo THEN pdo[o]
                   ELSE NewPdo((CHOOSE i \in DOMAIN slots : object(i) = o) - 1)]
  BY <1>4, <1>6 DEF CreateChildPDOs
<1> HIDE DEF object
<1>8. children' \in [1..Len(slots) -> Objects]
  BY <1>3, <1>4, <1>7
<1>9. children' \in Seq(Objects) /\ Len(children') = Len(slots) /\ DOMAIN children' = DOMAIN slots
  <2>1. children' \in Seq(Objects)
    BY <1>3, <1>8, SeqDef
  <2>2. /\ Len(children') \in Nat /\ DOMAIN children' = 1..Len(children')
        /\ DOMAIN children' = 1..Len(slots)
    BY <1>8, <2>1, LenProperties
  <2>3. ASSUME NEW a \in Nat, NEW b \in Nat, 1..a = 1..b
        PROVE  a = b
    <3>1. a <= b
      <4>1. a = 0 \/ a \in 1..b
        BY <2>3
      <4>. QED
        BY <4>1
    <3>2. b <= a
      <4>1. b = 0 \/ b \in 1..a
        BY <2>3
      <4>. QED
        BY <4>1
    <3>. QED
      BY <3>1, <3>2
  <2>4. Len(children') = Len(slots)
    BY <1>3, <2>2, <2>3
  <2>. QED
    BY <1>3, <2>1, <2>2, <2>4
<1>10. \A i \in DOMAIN slots : children'[i] = object(i)
  BY <1>7
<1>11. /\ DOMAIN pdo' = DOMAIN pdo \cup {children'[i] : i \in DOMAIN children'}
       /\ \A o \in DOMAIN pdo : pdo'[o] = pdo[o]
  BY <1>7, <1>9, <1>10
<1>12. ASSUME NEW i \in DOMAIN slots
       PROVE  pdo'[children'[i]] = NewPdo(i - 1)
  <2>1. (CHOOSE j \in DOMAIN slots : object(j) = object(i)) = i
    <3>1. \E j \in DOMAIN slots : object(j) = object(i)
      OBVIOUS
    <3>2. /\ (CHOOSE j \in DOMAIN slots : object(j) = object(i)) \in DOMAIN slots
          /\ object(CHOOSE j \in DOMAIN slots : object(j) = object(i)) = object(i)
      BY <3>1
    <3>. QED
      BY <1>5, <3>2
  <2>2. pdo'[object(i)] = NewPdo((CHOOSE j \in DOMAIN slots : object(j) = object(i)) - 1)
    BY <1>4, <1>7
  <2>. QED
    BY <1>10, <2>1, <2>2
<1>. QED
  BY <1>4, <1>9, <1>10, <1>11, <1>12 DEF object, MadeFrom

(* The start of a card, however many of its ports can be created.          *)
LEMMA StartCardHolds ==
  ASSUME PnpInv, NEW n \in 1..MaxChips, NEW missing \in SUBSET PortsOf(n), StartCard(n, missing)
  PROVE  PnpInv'
<1>1. /\ starts < MaxStarts /\ starts' = starts + 1 /\ numChips' = n /\ chipBase' = starts'
      /\ UNCHANGED <<links, present, known, open>>
      /\ IF children' # <<>> THEN mapped' = mapped \cup {starts'} ELSE mapped' = mapped
  BY DEF StartCard, manager
<1>0. Kept /\ Kept' /\ fdo' \in FdoRec
  <2>1. fdo \in FdoRec /\ fdo.pnp \in {"NotStarted", "Stopped"}
    BY DEF PnpInv, PnpTyped, StartCard, Starting
  <2>2. fdo' = fdo \/ fdo' = [SetPnPState(fdo, "Started") EXCEPT !.started = TRUE]
    BY DEF StartCard
  <2>3. [SetPnPState(fdo, "Started") EXCEPT !.started = TRUE] \in FdoRec
        /\ [SetPnPState(fdo, "Started") EXCEPT !.started = TRUE].pnp = "Started"
    <3>1. SetPnPState(fdo, "Started") \in FdoRec /\ SetPnPState(fdo, "Started").pnp = "Started"
      BY <2>1, CardStateSet DEF PnpStates, Pending
    <3>. QED
      BY <3>1 DEF FdoRec
  <2>. QED
    BY <2>1, <2>2, <2>3 DEF Kept
<1>2. PICK slots \in Created(n, missing) : CreateChildPDOs(slots)
  BY DEF StartCard
<1>3. n \in Nat /\ starts \in Nat /\ starts' \in 0..MaxStarts
  BY <1>1, Numbers DEF PnpInv, PnpTyped
<1>4. MadeFrom(slots)
  BY <1>1, <1>2, ChildrenMade
<1> USE DEF MadeFrom
<1>5. /\ slots \in Seq(PortsOf(n))
      /\ Len(slots) = n * Channels =>
           \A i \in DOMAIN slots : slots[i][1] * Channels + slots[i][2] = i - 1
  BY <1>3, SlotsInOrder
<1>6. Len(slots) \in Nat /\ DOMAIN slots = 1..Len(slots)
  BY <1>5, LenProperties
<1>7. \A i \in DOMAIN slots : pdo'[children'[i]].alive /\ pdo'[children'[i]].index = i - 1
        /\ pdo'[children'[i]].link = "none" /\ pdo'[children'[i]] \in PdoRec
        /\ pdo'[children'[i]].pnp = "NotStarted"
  <2>1. \A i \in DOMAIN slots : i - 1 \in Nat
    BY <1>6
  <2>2. ASSUME NEW k \in Nat
        PROVE  /\ NewPdo(k) \in PdoRec /\ NewPdo(k).alive
               /\ NewPdo(k).index = k /\ NewPdo(k).link = "none" /\ NewPdo(k).pnp = "NotStarted"
    BY DEF NewPdo, PdoRec, PnpStates
  <2>3. ASSUME NEW i \in DOMAIN slots
        PROVE  pdo'[children'[i]] = NewPdo(i - 1) /\ i - 1 \in Nat
    BY <1>4, <2>1
  <2>. QED
    BY <2>2, <2>3
<1>8. PnpTyped'
  <2>1. ASSUME NEW o \in DOMAIN pdo' PROVE o \in Objects /\ pdo'[o] \in PdoRec
    <3>1. CASE o \in DOMAIN pdo
      BY <1>4, <3>1 DEF PnpInv, PnpTyped
    <3>2. CASE o \notin DOMAIN pdo
      <4>1. PICK i \in DOMAIN slots : o = children'[i]
        BY <1>4, <3>2
      <4>2. pdo'[children'[i]] \in PdoRec
        BY <1>7
      <4>3. o \in Objects
        BY <1>4, <3>2
      <4>. QED
        BY <4>1, <4>2, <4>3
    <3>. QED
      BY <3>1, <3>2
  <2>2. children' \in Seq(Objects \cup {NoPort})
    <3>1. Seq(Objects) \subseteq Seq(Objects \cup {NoPort})
      <4>. DEFINE S == Objects
      <4>. HIDE DEF S
      <4>1. Seq(S) \subseteq Seq(S \cup {NoPort})
        OBVIOUS
      <4>. QED
        BY <4>1 DEF S
    <3>. QED
      BY <1>4, <3>1
  <2>. QED
    BY <1>0, <1>1, <1>3, <1>4, <2>1, <2>2 DEF PnpTyped
<1>9. Fresh'
  <2>1. ASSUME NEW o \in DOMAIN pdo' PROVE o[1] <= starts'
    <3>1. CASE o \in DOMAIN pdo
      <4>1. o[1] <= starts /\ o[1] \in Nat
        BY <3>1 DEF PnpInv, Fresh, WindowOf, PnpTyped, Objects
      <4>. QED
        BY <1>1, <1>3, <4>1
    <3>2. CASE o \notin DOMAIN pdo
      BY <1>3, <1>4, <3>2
    <3>. QED
      BY <3>1, <3>2
  <2>. QED
    BY <2>1 DEF Fresh, WindowOf
<1>10. Backed' /\ ListLives'
  <2>1. ASSUME NEW o \in known PROVE Live(o)'
    <3>1. o \in DOMAIN pdo /\ pdo[o].alive /\ o[1] \in mapped
      BY DEF PnpInv, Backed, Live, WindowOf
    <3>. QED
      BY <1>1, <1>4, <3>1 DEF Live, WindowOf
  <2>2. ASSUME NEW i \in DOMAIN children' PROVE Live(children[i])'
    <3>1. children' # <<>>
      BY <1>4
    <3>2. children'[i][1] \in mapped'
      BY <1>1, <1>4, <3>1
    <3>. QED
      BY <1>4, <1>7, <3>2 DEF Live, WindowOf
  <2>. QED
    BY <1>1, <1>4, <2>1, <2>2 DEF Backed, ListLives, Listed, Live
<1>11. Handles'
  BY <1>1 DEF PnpInv, Handles
<1>12. Numbered'
  BY <1>4, <1>7 DEF Numbered
<1>13. Placed'
  <2>1. \A i \in DOMAIN slots : children'[i][2] = slots[i][1] /\ children'[i][3] = slots[i][2]
    BY <1>4
  <2>. QED
    BY <1>1, <1>4, <1>5, <2>1 DEF Placed
<1>14. Unnamed' /\ Idle'
  <2>1. ASSUME NEW o \in DOMAIN pdo', o \notin known' \/ pdo'[o].pnp = "Removed"
        PROVE  pdo'[o].link # "held"
    <3>1. CASE o \in DOMAIN pdo
      BY <1>1, <1>4, <2>1, <3>1 DEF PnpInv, Unnamed
    <3>2. CASE o \notin DOMAIN pdo
      BY <1>4, <1>7, <3>2
    <3>. QED
      BY <3>1, <3>2
  <2>2. ASSUME NEW o \in DOMAIN pdo', o \notin known'
        PROVE  pdo'[o].pnp \in {"NotStarted", "Removed"}
    <3>1. CASE o \in DOMAIN pdo
      BY <1>1, <1>4, <2>2, <3>1 DEF PnpInv, Idle
    <3>2. CASE o \notin DOMAIN pdo
      BY <1>4, <1>7, <3>2
    <3>. QED
      BY <3>1, <3>2
  <2>. QED
    BY <2>1, <2>2 DEF Unnamed, Idle
<1>16. Forgotten' /\ Based'
  <2>1. Forgotten'
    BY <1>0 DEF Forgotten
  <2>2. ASSUME Listed' # {} PROVE chipBase' \in mapped'
    <3>1. children' # <<>>
      BY <2>2 DEF Listed
    <3>. QED
      BY <1>1, <3>1
  <2>. QED
    BY <2>1, <2>2 DEF Based
<1>15. NamesDie'
  BY <1>1, <1>4 DEF PnpInv, NamesDie, Ports
<1>. QED
  BY <1>8, <1>9, <1>10, <1>11, <1>12, <1>13, <1>14, <1>15, <1>16 DEF PnpInv

(* A failed start may forget the chips.                                    *)
LEMMA StartFailsHolds ==
  ASSUME PnpInv, StartFails
  PROVE  PnpInv'
<1>1. /\ numChips' \in {numChips, 0}
      /\ UNCHANGED <<fdo, chipBase, children, mapped, starts, pdo, links, present, known, open>>
      /\ Kept' = Kept
  BY DEF StartFails, manager, Kept
<1>2. PnpTyped' /\ Fresh' /\ Handles'
  BY <1>1 DEF PnpInv, PnpTyped, Fresh, Handles
<1>3. Backed' /\ ListLives'
  BY <1>1 DEF PnpInv, Backed, ListLives, Listed, Live
<1>4. Numbered' /\ Idle' /\ Forgotten' /\ Based'
  BY <1>1 DEF PnpInv, Numbered, Idle, Forgotten, Based, Listed
<1>5. Placed'
  <2>1. CASE numChips' = numChips
    BY <1>1, <2>1 DEF PnpInv, Placed
  <2>2. CASE numChips' = 0
    <3>1. DOMAIN children = 1..Len(children) /\ Len(children) \in Nat
      BY LenProperties DEF PnpInv, PnpTyped
    <3>2. numChips' * Channels = 0
      BY <2>2, Numbers
    <3>3. Len(children) = 0 => DOMAIN children = {}
      BY <3>1
    <3>. QED
      BY <1>1, <3>2, <3>3 DEF Placed
  <2>. QED
    BY <1>1, <2>1, <2>2
<1>6. Unnamed' /\ NamesDie'
  BY <1>1 DEF PnpInv, Unnamed, NamesDie, Ports
<1>. QED
  BY <1>2, <1>3, <1>4, <1>5, <1>6 DEF PnpInv

(* What the card reports becomes known.                                    *)
LEMMA QueryHolds ==
  ASSUME PnpInv, QueryRelations
  PROVE  PnpInv'
<1>1. /\ present' = {children[i] : i \in DOMAIN children} /\ known' = known \cup present'
      /\ UNCHANGED <<fdo, numChips, chipBase, children, mapped, starts, pdo, links, open>>
      /\ Kept /\ Kept'
  BY DEF QueryRelations, card, Kept
<1>2. PnpTyped' /\ Fresh' /\ Handles'
  BY <1>1 DEF PnpInv, PnpTyped, Fresh, Handles
<1>3. Backed' /\ ListLives'
  BY <1>1 DEF PnpInv, Backed, ListLives, Listed, Live
<1>4. Numbered' /\ Placed'
  BY <1>1 DEF PnpInv, Numbered, Placed
<1>5. Unnamed' /\ NamesDie' /\ Idle' /\ Forgotten' /\ Based'
  BY <1>1 DEF PnpInv, Unnamed, NamesDie, Ports, Idle, Forgotten, Based, Listed
<1>. QED
  BY <1>2, <1>3, <1>4, <1>5 DEF PnpInv

(* Stops, queries, cancels and a surprise removal.                         *)
LEMMA CardStateHolds ==
  ASSUME PnpInv, \/ QueryStopCard \/ CancelStopCard \/ StopCard
                 \/ QueryRemoveCard \/ CancelRemoveCard \/ SurpriseRemoveCard
  PROVE  PnpInv'
<1>1. UNCHANGED <<numChips, chipBase, children, mapped, starts, pdo, links, present, known, open>>
  BY DEF QueryStopCard, CancelStopCard, StopCard, QueryRemoveCard, CancelRemoveCard,
         SurpriseRemoveCard, CardState, WindowAfterStop, manager
<1>2. fdo \in FdoRec
  BY DEF PnpInv, PnpTyped
<1>3. /\ fdo.pnp # "Removed"
      /\ \/ \E state \in {"StopPending", "RemovePending"} :
              fdo.pnp = "Started" /\ fdo' = SetPnPState(fdo, state)
         \/ fdo' = SetPnPState(fdo, "SurpriseRemoved")
         \/ fdo' = [SetPnPState(fdo, "Stopped") EXCEPT !.started = FALSE]
         \/ fdo' = RestorePnPState(fdo)
  BY DEF QueryStopCard, CancelStopCard, StopCard, QueryRemoveCard, CancelRemoveCard,
         SurpriseRemoveCard, CardState
<1>4. ASSUME NEW state \in PnpStates, state \in Pending => fdo.pnp = "Started"
      PROVE  SetPnPState(fdo, state) \in FdoRec /\ SetPnPState(fdo, state).pnp = state
  BY <1>2, <1>4, CardStateSet
<1>5. /\ [SetPnPState(fdo, "Stopped") EXCEPT !.started = FALSE] \in FdoRec
      /\ [SetPnPState(fdo, "Stopped") EXCEPT !.started = FALSE].pnp = "Stopped"
  <2>1. SetPnPState(fdo, "Stopped") \in FdoRec /\ SetPnPState(fdo, "Stopped").pnp = "Stopped"
    BY <1>4 DEF PnpStates, Pending
  <2>. QED
    BY <2>1 DEF FdoRec
<1>6. fdo' \in FdoRec /\ fdo'.pnp # "Removed"
  <2>1. CASE \E state \in {"StopPending", "RemovePending"} :
               fdo.pnp = "Started" /\ fdo' = SetPnPState(fdo, state)
    BY <1>4, <2>1 DEF PnpStates
  <2>2. CASE fdo' = SetPnPState(fdo, "SurpriseRemoved")
    BY <1>4, <2>2 DEF PnpStates, Pending
  <2>3. CASE fdo' = [SetPnPState(fdo, "Stopped") EXCEPT !.started = FALSE]
    BY <1>5, <2>3
  <2>4. CASE fdo' = RestorePnPState(fdo)
    BY <1>2, <2>4, CardRestored
  <2>. QED
    BY <1>3, <2>1, <2>2, <2>3, <2>4
<1>7. Kept' = Kept
  BY <1>3, <1>6 DEF Kept
<1>. QED
  BY <1>1, <1>6, <1>7, NothingOfPorts

(* A card is new or gone with no child listed.                             *)
LEMMA NewCardHolds ==
  ASSUME PnpInv, AddDevice \/ DeleteCard
  PROVE  PnpInv'
<1>1. /\ UNCHANGED <<mapped, starts, pdo, links, present, known, open>>
      /\ children' = <<>> /\ numChips' \in {numChips, 0}
      /\ fdo' = NoCard \/ fdo' = [NoCard EXCEPT !.there = TRUE]
  BY DEF AddDevice, DeleteCard, manager
<1>2. fdo' \in FdoRec /\ Kept'
  <2>1. NoCard \in FdoRec /\ NoCard.pnp = "NotStarted"
    BY DEF NoCard, FdoRec, PnpStates
  <2>2. [NoCard EXCEPT !.there = TRUE] \in FdoRec
        /\ [NoCard EXCEPT !.there = TRUE].pnp = "NotStarted"
    BY <2>1 DEF FdoRec
  <2>. QED
    BY <1>1, <2>1, <2>2 DEF Kept
<1>3. DOMAIN children' = {} /\ children' \in Seq(Objects \cup {NoPort})
  BY <1>1
<1>4. PnpTyped' /\ Fresh' /\ Handles'
  BY <1>1, <1>2, <1>3 DEF PnpInv, PnpTyped, Fresh, Handles
<1>5. Backed' /\ ListLives'
  BY <1>1, <1>3 DEF PnpInv, Backed, ListLives, Listed, Live
<1>6. Numbered' /\ Placed' /\ Based' /\ Forgotten'
  BY <1>2, <1>3 DEF Numbered, Placed, Based, Listed, Forgotten
<1>7. Unnamed' /\ NamesDie' /\ Idle'
  BY <1>1 DEF PnpInv, Unnamed, NamesDie, Ports, Idle
<1>. QED
  BY <1>4, <1>5, <1>6, <1>7 DEF PnpInv

(* The removal begins when the manager has removed all it knows of.        *)
LEMMA RemoveCardHolds ==
  ASSUME PnpInv, RemoveCard
  PROVE  PnpInv'
<1>1. /\ \A o \in known : pdo[o].pnp = "Removed" /\ o \notin open
      /\ fdo' = SetPnPState(fdo, "Removed") /\ present' = {} /\ known' = {}
      /\ UNCHANGED <<numChips, chipBase, children, mapped, starts, pdo, links, open>>
  BY DEF RemoveCard, InState
<1>2. fdo' \in FdoRec /\ ~Kept'
  <2>1. fdo \in FdoRec
    BY DEF PnpInv, PnpTyped
  <2>2. SetPnPState(fdo, "Removed") \in FdoRec /\ SetPnPState(fdo, "Removed").pnp = "Removed"
    BY <2>1, CardStateSet DEF PnpStates, Pending
  <2>. QED
    BY <1>1, <2>2 DEF Kept
<1>3. open = {}
  BY <1>1 DEF PnpInv, Handles
<1>4. PnpTyped' /\ Fresh' /\ Handles'
  BY <1>1, <1>2, <1>3 DEF PnpInv, PnpTyped, Fresh, Handles
<1>5. Backed' /\ ListLives' /\ Numbered' /\ Placed' /\ Forgotten'
  BY <1>1, <1>2 DEF PnpInv, Backed, ListLives, Listed, Numbered, Placed, Forgotten
<1>6. Unnamed' /\ NamesDie' /\ Idle' /\ Based'
  BY <1>1 DEF PnpInv, Unnamed, NamesDie, Ports, Idle, Based, Listed
<1>. QED
  BY <1>4, <1>5, <1>6 DEF PnpInv

(* It deletes objects without a name.                                      *)
LEMMA DeleteChildHolds ==
  ASSUME PnpInv, NEW i \in DOMAIN children, DeleteChild(i)
  PROVE  PnpInv'
<1>1. /\ pdo' = [pdo EXCEPT ![children[i]].alive = FALSE] /\ ~Kept
      /\ UNCHANGED <<fdo, numChips, chipBase, children, mapped, starts, links, present, known, open>>
  BY DEF DeleteChild, Removing, Kept, card, manager
<1>2. known = {} /\ ~Kept' /\ known' = {}
  BY <1>1 DEF PnpInv, Forgotten, Kept
<1>3. /\ DOMAIN pdo' = DOMAIN pdo
      /\ \A o \in DOMAIN pdo :
           /\ pdo'[o] \in PdoRec /\ pdo'[o].index = pdo[o].index
           /\ pdo'[o].link = pdo[o].link /\ pdo'[o].pnp = pdo[o].pnp
  <2>1. ASSUME NEW d \in PdoRec
        PROVE  /\ [d EXCEPT !.alive = FALSE] \in PdoRec
               /\ [d EXCEPT !.alive = FALSE].index = d.index
               /\ [d EXCEPT !.alive = FALSE].link = d.link
               /\ [d EXCEPT !.alive = FALSE].pnp = d.pnp
    BY DEF PdoRec
  <2>2. DOMAIN pdo' = DOMAIN pdo
    BY <1>1
  <2>3. \A o \in DOMAIN pdo : pdo'[o] = pdo[o] \/ pdo'[o] = [pdo[o] EXCEPT !.alive = FALSE]
    BY <1>1
  <2>. QED
    BY <2>1, <2>2, <2>3 DEF PnpInv, PnpTyped
<1>4. PnpTyped' /\ Fresh' /\ Handles'
  BY <1>1, <1>3 DEF PnpInv, PnpTyped, Fresh, Handles
<1>5. Backed' /\ ListLives' /\ Numbered' /\ Placed' /\ Forgotten'
  BY <1>1, <1>2, <1>3 DEF PnpInv, Backed, ListLives, Listed, Numbered, Placed, Forgotten
<1>6. Unnamed' /\ Idle' /\ Based'
  BY <1>1, <1>3 DEF PnpInv, Unnamed, Idle, Based, Listed
<1>7. NamesDie'
  <2>1. \A o \in DOMAIN pdo : pdo[o].link # "held"
    BY <1>2 DEF PnpInv, Unnamed
  <2>2. ASSUME NEW k \in links'
        PROVE  \E o \in DOMAIN pdo' : pdo'[o].index = k /\ pdo'[o].link = "lost"
    <3>1. PICK o \in DOMAIN pdo : pdo[o].index = k /\ pdo[o].link = "lost"
      BY <1>1, <2>1, <2>2 DEF PnpInv, NamesDie, Ports
    <3>. QED
      BY <1>3, <3>1
  <2>. QED
    BY <2>2 DEF NamesDie
<1>. QED
  BY <1>4, <1>5, <1>6, <1>7 DEF PnpInv

(* It empties the slots.                                                   *)
LEMMA ForgetChildHolds ==
  ASSUME PnpInv, NEW i \in DOMAIN children, ForgetChild(i)
  PROVE  PnpInv'
<1>1. /\ children' = [children EXCEPT ![i] = NoPort] /\ ~Kept
      /\ UNCHANGED <<fdo, numChips, chipBase, mapped, starts, pdo, links, present, known, open>>
  BY DEF ForgetChild, Removing, Kept, manager
<1>2. known' = {} /\ ~Kept'
  BY <1>1 DEF PnpInv, Forgotten, Kept
<1>3. children' \in Seq(Objects \cup {NoPort})
  <2>. DEFINE S == Objects \cup {NoPort}
  <2>1. children \in Seq(S) /\ NoPort \in S
    BY DEF PnpInv, PnpTyped
  <2>. HIDE DEF S
  <2>2. [children EXCEPT ![i] = NoPort] \in Seq(S)
    BY <2>1
  <2>. QED
    BY <1>1, <2>2 DEF S
<1>4. Listed' \subseteq Listed
  BY <1>1 DEF Listed
<1>5. PnpTyped' /\ Fresh' /\ Handles'
  BY <1>1, <1>3 DEF PnpInv, PnpTyped, Fresh, Handles
<1>6. Backed' /\ ListLives' /\ Numbered' /\ Placed' /\ Forgotten'
  BY <1>1, <1>2, <1>4 DEF PnpInv, Backed, ListLives, Numbered, Placed, Forgotten
<1>7. Unnamed' /\ NamesDie' /\ Idle' /\ Based'
  BY <1>1, <1>4 DEF PnpInv, Unnamed, NamesDie, Ports, Idle, Based
<1>. QED
  BY <1>5, <1>6, <1>7 DEF PnpInv

(* When no child is listed the window goes.                                *)
LEMMA UnmapCardHolds ==
  ASSUME PnpInv, UnmapCard
  PROVE  PnpInv'
<1>1. /\ children' = <<>> /\ ~Kept
      /\ UNCHANGED <<fdo, numChips, chipBase, starts, pdo, links, present, known, open>>
  BY DEF UnmapCard, Removing, Kept, manager
<1>2. known' = {} /\ ~Kept' /\ Listed' = {}
  BY <1>1 DEF PnpInv, Forgotten, Kept, Listed
<1>3. children' \in Seq(Objects \cup {NoPort})
  BY <1>1
<1>4. PnpTyped' /\ Fresh' /\ Handles'
  BY <1>1, <1>3 DEF PnpInv, PnpTyped, Fresh, Handles
<1>5. Backed' /\ ListLives' /\ Numbered' /\ Placed' /\ Forgotten' /\ Based'
  BY <1>2 DEF Backed, ListLives, Numbered, Placed, Forgotten, Based
<1>6. Unnamed' /\ NamesDie' /\ Idle'
  BY <1>1 DEF PnpInv, Unnamed, NamesDie, Ports, Idle
<1>. QED
  BY <1>4, <1>5, <1>6 DEF PnpInv

-----------------------------------------------------------------------------
(* The theorems.                                                           *)

(* At first there is nothing.                                              *)
LEMMA PnpStarts == PnpInit => PnpInv
<1>1. SUFFICES ASSUME PnpInit PROVE PnpInv
  OBVIOUS
<1>2. DOMAIN pdo = {} /\ DOMAIN children = {} /\ children \in Seq(Objects \cup {NoPort})
  BY <1>1 DEF PnpInit
<1>. QED
  BY <1>1, <1>2, Numbers DEF PnpInit, PnpInv, PnpTyped, Fresh, Backed, ListLives, Handles, Numbered,
                             Placed, Unnamed, NamesDie, Idle, Forgotten, Based, Listed,
                             NoCard, FdoRec, PnpStates, Kept

(* Every step keeps the invariant.                                         *)
LEMMA PnpStep == PnpInv /\ [PnpNext]_pnpVars => PnpInv'
<1>1. SUFFICES ASSUME PnpInv, [PnpNext]_pnpVars PROVE PnpInv'
  OBVIOUS
<1>2. CASE UNCHANGED pnpVars
  <2>1. fdo' \in FdoRec /\ Kept' = Kept
    BY <1>1, <1>2 DEF pnpVars, card, PnpInv, PnpTyped, Kept
  <2>. QED
    BY <1>1, <1>2, <2>1, NothingOfPorts DEF pnpVars, card, manager
<1>3. CASE QueryStopCard \/ CancelStopCard \/ StopCard \/ QueryRemoveCard
           \/ CancelRemoveCard \/ SurpriseRemoveCard
  BY <1>1, <1>3, CardStateHolds
<1>10. CASE AddDevice \/ DeleteCard
  BY <1>1, <1>10, NewCardHolds
<1>4. CASE StartFails
  BY <1>1, <1>4, StartFailsHolds
<1>5. CASE QueryRelations
  BY <1>1, <1>5, QueryHolds
<1>6. CASE RemoveCard \/ UnmapCard
  BY <1>1, <1>6, RemoveCardHolds, UnmapCardHolds
<1>11. CASE \E i \in DOMAIN children : DeleteChild(i) \/ ForgetChild(i)
  BY <1>1, <1>11, DeleteChildHolds, ForgetChildHolds
<1>7. CASE \E n \in 1..MaxChips : \E missing \in SUBSET PortsOf(n) : StartCard(n, missing)
  BY <1>1, <1>7, StartCardHolds
<1>8. CASE \E o \in known : Manage(o)
  BY <1>1, <1>8, StartPortHolds, ChangePortHolds, RemovePortHolds DEF Manage
<1>9. CASE (\E o \in known : OpenPort(o)) \/ (\E o \in open : ClosePort(o))
  BY <1>1, <1>9, HandlesHold
<1>. QED
  BY <1>1, <1>2, <1>3, <1>4, <1>5, <1>6, <1>7, <1>8, <1>9, <1>10, <1>11 DEF PnpNext

(* The invariant holds always.                                             *)
LEMMA PnpAlways == PnpSpec => []PnpInv
BY PnpStarts, PnpStep, PTL DEF PnpSpec

(* A port that is open or served is not deleted and its window is mapped,  *)
(* and as long as the interrupt routine serves a port the chips it reads   *)
(* are mapped, in any order of requests to the card and its ports.         *)
THEOREM WindowOutlivesAccess == PnpSpec => []AccessIsSafe
<1>1. ASSUME PnpInv PROVE AccessIsSafe
  <2>1. ASSUME NEW o \in Served PROVE o \in known
    <3>1. o \in DOMAIN pdo /\ pdo[o].pnp = "Started"
      BY <1>1 DEF PnpInv, ListLives, Served, InState
    <3>. QED
      BY <1>1, <3>1 DEF PnpInv, Idle
  <2>2. \A o \in open \cup Served : o \in Ports /\ WindowOf(o) \in mapped
    BY <1>1, <2>1 DEF PnpInv, Backed, Live, Handles, Ports
  <2>3. Served # {} => ReadChips \subseteq mapped
    BY <1>1 DEF PnpInv, Based, Served, ReadChips
  <2>. QED
    BY <2>2, <2>3 DEF AccessIsSafe
<1>. QED
  BY <1>1, PnpAlways, PTL

(* Until the card is removed the list it reports has no gap and no two     *)
(* ports of one instance ID, whichever creations fail, and is ordered by   *)
(* chip and channel when none does.                                        *)
THEOREM ListHasNoGap == PnpSpec => []ChildrenWhole
<1>1. ASSUME PnpInv, Kept PROVE ChildrenWhole
  <2>1. \A i \in DOMAIN children : children[i] \in Ports
    BY <1>1 DEF PnpInv, ListLives, Live, Ports
  <2>2. \A i \in DOMAIN children : i \in Nat /\ InstanceID(children[i]) = i - 1
    <3>1. Len(children) \in Nat /\ DOMAIN children = 1..Len(children)
      BY <1>1, LenProperties DEF PnpInv, PnpTyped
    <3>. QED
      BY <1>1, <3>1 DEF PnpInv, Numbered, InstanceID
  <2>3. \A i, j \in DOMAIN children : InstanceID(children[i]) = InstanceID(children[j]) => i = j
    BY <2>2
  <2>. QED
    BY <1>1, <2>1, <2>3 DEF PnpInv, Placed, ChildrenWhole
<1>2. PnpInv => ChildrenWhole
  BY <1>1 DEF Kept, ChildrenWhole
<1>. QED
  BY <1>2, PnpAlways, PTL

(* A COM name in the system belongs to a live port that made it, or was    *)
(* lost by one that was started again without memory.                      *)
THEOREM NamesHaveOwners == PnpSpec => []NamesDie
<1>1. PnpInv => NamesDie
  BY DEF PnpInv
<1>. QED
  BY <1>1, PnpAlways, PTL
=============================================================================

----------------------------- MODULE CySettings -----------------------------
(***************************************************************************)
(* The settings of a Cyclades port, which the driver keeps twice: in the   *)
(* device extension, from where it reports them, and in the registers of   *)
(* the chip, which run with them and lose them when the card has no power. *)
(* Threads of the program change them without a lock while power           *)
(* transitions save and restore the registers, and wait for modem events.  *)
(* A callback under the interrupt lock is one step; what a dispatch        *)
(* routine does before and after it is another.                            *)
(***************************************************************************)
EXTENDS Cd1400, FiniteSets

CONSTANTS Threads,
          Waits, NoIrp,       \* WAIT_ON_MASK requests
          Values,             \* per setting, the values asked for
          Signals,            \* modem inputs that change
          Is60MHz,
          MaxOpens, MaxCalls, MaxSleeps, MaxChanges

\* The values are those the handlers let through (cyioctl.c 557-563 and the
\* like); a call with any other changes nothing.
ASSUME SettingsAssumption ==
  /\ IsFiniteSet(Waits) /\ NoIrp \notin Waits /\ Is60MHz \in BOOLEAN
  /\ {MaxOpens, MaxCalls, MaxSleeps, MaxChanges} \subseteq Nat
  /\ \A l \in Values.line : ValidLine(l)
  /\ \A b \in Values.baud : LookupBaud(Is60MHz, b) # {}
  /\ \A h \in Values.flow : h \subseteq {"cts", "rts", "xon"}
  /\ Values.modem \subseteq {"DTR", "RTS"}

VARIABLES reg,          \* the channel's registers
          ext,          \* per setting, the field of the extension
          handle,       \* none, opening, open, cleaned, closing
          opens,
          power,        \* DevicePowerState of the port: D0 or D3
          powered,      \* the card has power
          transit,      \* how far SET_POWER is: none, saving, marking (D3 next),
                        \* restoring, waking (D0 next)
          saved,        \* SavedPowerState: its Valid flag and the registers
          pc, call,     \* per thread: where its call is, and the call
          mask, events, \* WaitMask and EventHistory
          waitIrp,      \* WaitIrp
          wait,         \* per request: where it is
          calls, sleeps, changes,
          changed,      \* history: settings made in this session,
          settled,      \* and those made by a call that met neither another of its
                        \* kind nor a suspension
          suspended     \* history: session and registers when one was last saved

session   == <<handle, opens>>
powerVars == <<power, powered, transit, saved, suspended>>
callVars  == <<pc, call, calls>>
waitVars  == <<mask, events, waitIrp, wait>>
others    == <<sleeps, changes>>
history   == <<changed, settled>>
vars == <<reg, ext, session, powerVars, callVars, waitVars, others, history>>

Items == {"baud", "line", "flow", "chars", "modem"}
NoCall == [item |-> "none", value |-> Unset, alone |-> FALSE]

Init ==
  /\ reg = ResetChannel
  /\ ext = [baud |-> 9600, line |-> EightN1, flow |-> {}, chars |-> Unset,
            modem |-> {}]
  /\ handle = "none" /\ opens = 0
  /\ power = "D0" /\ powered = TRUE /\ transit = "none"
  /\ saved = [valid |-> FALSE, reg |-> ResetChannel]
  /\ suspended = [session |-> 0, reg |-> ResetChannel]
  /\ pc = [t \in Threads |-> "idle"] /\ call = [t \in Threads |-> NoCall]
  /\ mask = {} /\ events = {} /\ waitIrp = NoIrp
  /\ wait = [i \in Waits |-> "new"]
  /\ calls = 0 /\ sleeps = 0 /\ changes = 0 /\ changed = {} /\ settled = {}

\* Nothing is kept that is written to a card without power.
Write(new) == reg' = IF powered THEN new ELSE reg

-----------------------------------------------------------------------------
\* Opening and closing: the callback, and then the IsOpen flag.
IsOpen == handle \in {"open", "cleaned", "closing"}

CreateInit ==
  /\ handle = "none" /\ opens < MaxOpens
  /\ handle' = "opening" /\ opens' = opens + 1
  /\ Write(InitChannel)
  /\ ext' = [ext EXCEPT !.modem = {"DTR", "RTS"}]
  /\ events' = {} /\ changed' = {} /\ settled' = {}
  /\ UNCHANGED <<powerVars, callVars, mask, waitIrp, wait, others>>

CreateMark ==
  /\ handle = "opening" /\ handle' = "open"
  /\ UNCHANGED <<reg, ext, opens, powerVars, callVars, waitVars, others, history>>

\* The part of Cleanup that is about WaitIrp.
Cleanup ==
  /\ handle = "open" /\ handle' = "cleaned"
  /\ waitIrp' = NoIrp
  /\ wait' = [i \in Waits |-> IF i = waitIrp THEN "cancelled" ELSE wait[i]]
  /\ UNCHANGED <<reg, ext, opens, powerVars, callVars, mask, events, others, history>>

\* Close comes when no call is under way and no request is left.
CloseShutdown ==
  /\ handle = "cleaned" /\ handle' = "closing"
  /\ \A t \in Threads : pc[t] = "idle"
  /\ \A i \in Waits : wait[i] \in {"new", "ok", "cancelled"}
  /\ Write(ShutdownChannel(reg))
  /\ ext' = [ext EXCEPT !.modem = {}]
  /\ changed' = {} /\ settled' = {}
  /\ UNCHANGED <<opens, powerVars, callVars, waitVars, others>>

CloseMark ==
  /\ handle = "closing" /\ handle' = "none"
  /\ UNCHANGED <<reg, ext, opens, powerVars, callVars, waitVars, others, history>>

-----------------------------------------------------------------------------
\* What the chip is made to run with when setting s is v, on registers r.
Entry(baud) == CHOOSE e \in LookupBaud(Is60MHz, baud) : TRUE
Applied(s, v, r) ==
  CASE s = "baud"     -> SetBaud(r, Entry(v))
    [] s = "line"     -> SetLine(r, BuildCor1(v))
    [] s = "flow"     -> SetCor2(r, BuildCor2(v))
    [] s = "chars"    -> SetSpecialChars(r, v)
    [] s = "modem"    -> SetModem(r, v)

\* A call starts, on an open port and with a valid value; any other changes nothing.
Start(t, s, v, at) ==
  LET rivals == {u \in Threads : call[u].item = s} IN
    /\ pc[t] = "idle" /\ handle = "open" /\ calls < MaxCalls
    /\ calls' = calls + 1
    /\ pc' = [pc EXCEPT ![t] = at]
    /\ call' = [u \in Threads |->
         IF u = t THEN [item |-> s, value |-> v, alone |-> rivals = {}]
         ELSE IF u \in rivals THEN [call[u] EXCEPT !.alone = FALSE] ELSE call[u]]
    /\ settled' = settled \ {s} /\ UNCHANGED changed

Go(t, at) == pc' = [pc EXCEPT ![t] = at]
Return(t, alone) ==
  /\ pc' = [pc EXCEPT ![t] = "idle"] /\ call' = [call EXCEPT ![t] = NoCall]
  /\ changed' = changed \cup {call[t].item}
  /\ settled' = IF alone THEN settled \cup {call[t].item} ELSE settled
  /\ UNCHANGED calls

Untouched == <<session, powerVars, waitVars, others>>

\* SET_BAUD_RATE and SET_LINE_CONTROL: the chip first, then the extension.
SetChipFirst(t) ==
  /\ \E s \in {"baud", "line"} : \E v \in Values[s] : Start(t, s, v, "apply")
  /\ UNCHANGED <<reg, ext, Untouched>>

\* SET_HANDFLOW and SET_CHARS: the extension first.
SetStoreFirst(t) ==
  /\ \E s \in {"flow", "chars"} : \E v \in Values[s] :
       /\ Start(t, s, v, IF s = "flow" THEN "build" ELSE "apply")
       /\ ext' = [ext EXCEPT ![s] = v]
  /\ UNCHANGED <<reg, Untouched>>

\* SET_DTR, CLR_DTR, SET_RTS, CLR_RTS: ModemControl is read, changed and
\* written back.
SetModemLine(t) ==
  /\ \E signal \in Values.modem : \E v \in {ext.modem \cup {signal}, ext.modem \ {signal}} :
       Start(t, "modem", v, "store")
  /\ UNCHANGED <<reg, ext, Untouched>>

ModemStore(t) ==
  /\ pc[t] = "store" /\ call[t].item = "modem" /\ Go(t, "build")
  /\ ext' = [ext EXCEPT !.modem = call[t].value]
  /\ UNCHANGED <<reg, call, calls, history, Untouched>>

\* MSVR and COR2 are made from what the extension has by then.
Build(t) ==
  /\ pc[t] = "build" /\ Go(t, "apply")
  /\ call' = [call EXCEPT ![t].value = ext[call[t].item]]
  /\ UNCHANGED <<reg, ext, calls, history, Untouched>>

\* A suspension lasts from the saving of the registers, or the decision that
\* there are none to save, to their restoring.
Suspended == transit = "marking" \/ (power = "D3" /\ transit # "waking")

\* The callback under the interrupt lock.  SET_CHARS hands it the address of
\* the field, the others a value.
Argument(t) == IF call[t].item = "chars" THEN ext.chars ELSE call[t].value
Stored(t) == call[t].item \in {"flow", "chars", "modem"}
Apply(t) ==
  /\ pc[t] = "apply"
  /\ Write(Applied(call[t].item, Argument(t), reg))
  /\ LET alone == call[t].alone /\ ~Suspended IN
       IF Stored(t) THEN Return(t, alone)
       ELSE /\ Go(t, "publish") /\ call' = [call EXCEPT ![t].alone = alone]
            /\ UNCHANGED <<calls, history>>
  /\ UNCHANGED <<ext, Untouched>>

Publish(t) ==
  /\ pc[t] = "publish"
  /\ ext' = [ext EXCEPT ![call[t].item] = call[t].value]
  /\ Return(t, call[t].alone)
  /\ UNCHANGED <<reg, Untouched>>

\* SET_BREAK_ON and SET_BREAK_OFF.
Break(on) ==
  /\ handle = "open" /\ calls < MaxCalls /\ calls' = calls + 1
  /\ Write(SetBreak(reg, on))
  /\ UNCHANGED <<ext, pc, call, history, Untouched>>

\* The GET requests answer with the field of the extension; none is about the
\* modem outputs.
GetBaudRate == ext.baud
GetLineControl == ext.line
GetHandFlow == ext.flow
GetChars == ext.chars
Reported == [baud |-> GetBaudRate, line |-> GetLineControl, flow |-> GetHandFlow,
             chars |-> GetChars, modem |-> ext.modem]

-----------------------------------------------------------------------------
\* The port's power.  The card loses power only when its ports are in D3, and
\* has it again before they are told to wake.
SleepCheck ==
  /\ power = "D0" /\ transit = "none" /\ sleeps < MaxSleeps
  /\ transit' = IF IsOpen THEN "saving" ELSE "marking"
  /\ sleeps' = sleeps + 1
  /\ UNCHANGED <<reg, ext, session, power, powered, saved, suspended, callVars, waitVars, changes, history>>

SleepSave ==
  /\ transit = "saving" /\ transit' = "marking"
  /\ saved' = [valid |-> TRUE, reg |-> SavedChannel(reg)]
  /\ suspended' = IF IsOpen THEN [session |-> opens, reg |-> reg] ELSE suspended
  /\ UNCHANGED <<reg, ext, session, power, powered, callVars, waitVars, others, history>>

SleepMark ==
  /\ transit = "marking" /\ transit' = "none" /\ power' = "D3"
  /\ UNCHANGED <<reg, ext, session, powered, saved, suspended, callVars, waitVars, others, history>>

CardOff ==
  /\ power = "D3" /\ powered /\ transit = "none"
  /\ powered' = FALSE /\ reg' = ResetChannel
  /\ UNCHANGED <<ext, session, power, transit, saved, suspended, callVars, waitVars, others, history>>

CardOn ==
  /\ ~powered /\ powered' = TRUE
  /\ UNCHANGED <<reg, ext, session, power, transit, saved, suspended, callVars, waitVars, others, history>>

\* An open port with something saved is restored, any other left as it is.
WakeCheck ==
  /\ power = "D3" /\ powered /\ transit = "none"
  /\ transit' = IF IsOpen /\ saved.valid THEN "restoring" ELSE "waking"
  /\ UNCHANGED <<reg, ext, session, power, powered, saved, suspended, callVars, waitVars, others, history>>

WakeRestore ==
  /\ transit = "restoring" /\ transit' = "waking"
  /\ reg' = RestoredChannel(saved.reg, IsOpen)
  /\ saved' = [saved EXCEPT !.valid = FALSE]
  /\ UNCHANGED <<ext, session, power, powered, suspended, callVars, waitVars, others, history>>

WakeMark ==
  /\ transit = "waking" /\ transit' = "none" /\ power' = "D0"
  /\ UNCHANGED <<reg, ext, session, powered, saved, suspended, callVars, waitVars, others, history>>

-----------------------------------------------------------------------------
\* Modem events.  EventLock is held by a request that takes events; the
\* interrupt routine does not ask for it.
Locked == \E i \in Waits : wait[i] = "taking"

ModemChange(signal) ==
  /\ powered /\ "MdmCh" \in reg.srer /\ changes < MaxChanges
  /\ changes' = changes + 1
  /\ events' = events \cup {EventOf(signal)}
  /\ UNCHANGED <<reg, ext, session, powerVars, callVars, mask, waitIrp, wait, sleeps, history>>

\* Completes a pending request and starts afresh under the new mask.
SetWaitMask(m) ==
  /\ handle = "open" /\ ~Locked /\ calls < MaxCalls /\ calls' = calls + 1
  /\ wait' = [i \in Waits |-> IF i = waitIrp THEN "ok" ELSE wait[i]]
  /\ waitIrp' = NoIrp /\ mask' = m /\ events' = {}
  /\ UNCHANGED <<reg, ext, session, powerVars, pc, call, others, history>>

WaitAsk(i) ==
  /\ handle = "open" /\ wait[i] = "new"
  /\ wait' = [wait EXCEPT ![i] = "asked"]
  /\ UNCHANGED <<reg, ext, session, powerVars, callVars, mask, events, waitIrp, others, history>>

\* Fault: a second request takes the place of the first.
RefuseNever == FALSE
Refuse == waitIrp # NoIrp

\* Refused, served with what has happened, or left for later.
WaitEnter(i) ==
  /\ wait[i] = "asked" /\ ~Locked
  /\ LET place == CASE Refuse                          -> "ok"
                    [] ~Refuse /\ events \cap mask # {} -> "taking"
                    [] ~Refuse /\ events \cap mask = {} -> "pending" IN
       /\ wait' = [wait EXCEPT ![i] = place]
       /\ waitIrp' = IF place = "pending" THEN i ELSE waitIrp
  /\ UNCHANGED <<reg, ext, session, powerVars, callVars, mask, events, others, history>>

WaitTake(i) ==
  /\ wait[i] = "taking"
  /\ wait' = [wait EXCEPT ![i] = "ok"] /\ events' = {}
  /\ UNCHANGED <<reg, ext, session, powerVars, callVars, mask, waitIrp, others, history>>

-----------------------------------------------------------------------------
HandleStep == CreateInit \/ CreateMark \/ (Cleanup /\ ~Locked) \/ CloseShutdown \/ CloseMark
PowerStep == SleepCheck \/ SleepSave \/ SleepMark \/ CardOff \/ CardOn
             \/ WakeCheck \/ WakeRestore \/ WakeMark
Call(t) == SetChipFirst(t) \/ SetStoreFirst(t) \/ SetModemLine(t)
           \/ ModemStore(t) \/ Build(t) \/ Apply(t) \/ Publish(t)

Next ==
  \/ HandleStep \/ PowerStep
  \/ \E t \in Threads : Call(t)
  \/ \E on \in BOOLEAN : Break(on)
  \/ \E signal \in Signals : ModemChange(signal)
  \/ \E m \in SUBSET {EventOf(signal) : signal \in Signals} : SetWaitMask(m)
  \/ \E i \in Waits : WaitAsk(i) \/ WaitEnter(i) \/ WaitTake(i)

Spec == Init /\ [][Next]_vars

-----------------------------------------------------------------------------
\* COR1 as the data sheet lays it out: no field spills into the next.
Cor1Codes == {d + 4 * s + p : d \in 0..3, s \in 0..2, p \in {0, 32, 64, 160, 192}}

\* The type of the state, and of every value that reaches the chip.
TypeOK ==
  /\ reg.cor1 \in Cor1Codes \cup {UnsetCor1} /\ reg.msvr \subseteq {"DTR", "RTS"}
  /\ reg.srer \subseteq {"RxData", "MdmCh"} /\ reg.cor2 \subseteq {"CtsAE", "RtsAO", "TxIBE"}
  /\ DOMAIN reg = DOMAIN ResetChannel /\ DOMAIN saved.reg = DOMAIN ResetChannel
  /\ DOMAIN ext = Items
  /\ handle \in {"none", "opening", "open", "cleaned", "closing"}
  /\ power \in {"D0", "D3"} /\ powered \in BOOLEAN
  /\ transit \in {"none", "saving", "marking", "restoring", "waking"}
  /\ ~powered => power = "D3" /\ transit = "none"
  /\ pc \in [Threads -> {"idle", "store", "build", "apply", "publish"}]
  /\ \A t \in Threads : pc[t] = "idle" <=> call[t] = NoCall
  /\ wait \in [Waits -> {"new", "asked", "taking", "pending", "ok", "cancelled"}]
  /\ waitIrp \in Waits \cup {NoIrp} /\ settled \subseteq changed /\ changed \subseteq Items

InForce(s, v) ==
  CASE s = "baud"  -> {reg.tx, reg.rx} = {ClockOf(Entry(v))}
    [] s = "line"  -> reg.cor1 = BuildCor1(v)
    [] s = "flow"  -> reg.cor2 = BuildCor2(v)
    [] s = "chars" -> reg.chars = v
    [] s = "modem" -> reg.msvr = v

\* What the port reports of a setting is what the chip runs with, in both
\* directions.  It holds for a setting that was made in this session by a call
\* that met no other call of its kind and no suspension, whatever suspensions,
\* other settings and openings came before, between or since.
SettingsAgree ==
  (IsOpen /\ power = "D0") => \A s \in settled : InForce(s, Reported[s])

\* What that leaves out: calls of a kind at the same time, though "every IOCTL"
\* is said to take its lock before it touches registers or port state, and calls
\* that come while the port is suspended, though "the complete configuration" is
\* said to be saved before the card loses power.  The code keeps it in neither.
ReportedRuns ==
  (IsOpen /\ power = "D0" /\ transit = "none") =>
    \A s \in changed : (\A t \in Threads : call[t].item # s) => InForce(s, Reported[s])

\* A session that is still open after a suspension goes on with the registers
\* it had when they were saved, though the card has lost them in between and
\* whatever was tried while it slept.  A break under way is over.
PowerRoundTrip ==
  [][(transit # "waking" /\ transit' = "waking" /\ IsOpen /\ suspended.session = opens)
       => reg' = [suspended.reg EXCEPT !.break = FALSE, !.running = TRUE]]_vars

\* A request that waits is the one the port knows of, so that a new mask or the
\* closing of the handle finds it: none is forgotten and none completed twice.
WaitsKept == {i \in Waits : wait[i] = "pending"} = {waitIrp} \ {NoIrp}
=============================================================================

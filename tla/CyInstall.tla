------------------------------ MODULE CyInstall ------------------------------
(***************************************************************************)
(* The installer and uninstaller of the Cyclades driver: a program of      *)
(* steps over state that Windows keeps, each of which Windows may refuse.  *)
(* The program may be killed and the machine restarted between any two     *)
(* steps, the program may be run again, and the PnP manager configures a   *)
(* card it finds whenever a matching INF is in the driver store.  What     *)
(* Windows does is external and follows from the calls the program makes.  *)
(***************************************************************************)
EXTENDS Naturals, Sequences

CONSTANTS MaxRuns, MaxPolls    \* runs of the program, polls of a stopping service

ASSUME InstallAssumption == MaxRuns \in Nat /\ MaxPolls \in Nat

VARIABLES onPci,        \* whether the card sits on the PCI bus, or on ISA
          store,        \* whether the INF is in the driver store
          driven,       \* device nodes that have the driver
          service,      \* "none", "stopped", "stopping" or "running"
          keys,         \* the service's registry key and its subkeys
          file,         \* whether cyport.sys is in place
          doomed,       \* what the next boot deletes
          trusted, testSigning,
          step, args, polls, runs,
          failed,       \* a deletion of this run was refused or undone
          spoiled,      \* a device was left or came back where none was expected
          ended         \* how the last uninstall that came to its end did so:
                        \* "no" since the last install, "clean" or "refused"

windows == <<store, driven, service, keys, file, doomed>>
signing == <<trusted, testSigning>>
flags == <<failed, spoiled, ended>>
installVars == <<onPci, windows, signing, step, args, polls, runs, flags>>

Devices == {"ports", "bus"}
Subkeys == {"Parameters", "Enum", "Security"}      \* those CleanRegistry knows
Keys == Subkeys \cup {"cyport"}
Media == {"cyclom-y.inf", "cyport.sys", "cyyport.inf"}
Stores == {"TrustedPublisher", "Root"}

Install == [do : {"install"}, elevated : BOOLEAN, media : SUBSET Media,
            testSign : BOOLEAN, cert : BOOLEAN]
Uninstall == [do : {"uninstall"}, elevated : BOOLEAN, force : BOOLEAN, removeCert : BOOLEAN]
NoArgs == [do |-> "nothing"]

InstallInit ==
  /\ onPci \in BOOLEAN
  /\ store = FALSE /\ driven = {} /\ service = "none" /\ keys = {} /\ file = FALSE
  /\ doomed = {} /\ trusted = {} /\ testSigning = FALSE
  /\ step = "idle" /\ args = NoArgs /\ polls = 0 /\ runs = 0
  /\ failed = FALSE /\ spoiled = FALSE /\ ended = "no"

\* The deletions an uninstall makes, in order.
\* Fault: the registration goes before the devices.
StepsServiceFirst == <<"stop", "service", "ports", "bus", "file", "keys", "inf", "cert">>
Steps == <<"stop", "ports", "bus", "service", "file", "keys", "inf", "cert">>

After(s) == Steps[(CHOOSE i \in 1..Len(Steps) : Steps[i] = s) + 1]

GoTo(s) == step' = s /\ UNCHANGED <<args, polls, runs>>
Exit == step' = "idle" /\ args' = NoArgs /\ polls' = 0 /\ UNCHANGED runs

\* A refused deletion is reported and passed over.
Refused ==
  /\ failed' = TRUE /\ UNCHANGED <<windows, ended>>

-----------------------------------------------------------------------------
\* main: the arguments, then DoInstall or DoUninstall, which first wants to
\* be elevated.  A new run starts with a clean slate.
Main(a) ==
  /\ step = "idle" /\ runs < MaxRuns /\ runs' = runs + 1
  /\ args' = a /\ polls' = 0 /\ failed' = FALSE
  /\ ended' = IF a.do = "uninstall" THEN ended ELSE "no"
  /\ step' = IF ~a.elevated THEN "refuse" ELSE IF a.do = "install" THEN "check" ELSE "stop"
  /\ UNCHANGED <<windows, signing, spoiled>>

Unelevated == step = "refuse" /\ Exit /\ UNCHANGED <<windows, signing, flags>>

\* DoInstall: every file must be there before anything is changed.
CheckMedia ==
  /\ step = "check"
  /\ IF args.media # Media \/ (args.testSign /\ ~args.cert) THEN Exit
     ELSE GoTo(IF args.testSign THEN "trust" ELSE "copy")
  /\ UNCHANGED <<windows, signing, flags>>

\* The certificate goes into both stores and TESTSIGNING on; what is refused
\* is reported and passed over.
Trust ==
  /\ step = "trust"
  /\ \E added \in SUBSET Stores : trusted' = trusted \cup added
  /\ testSigning' \in {testSigning, TRUE}
  /\ GoTo("copy")
  /\ UNCHANGED <<windows, flags>>

CopyInf ==
  /\ step = "copy"
  /\ \/ store' = TRUE /\ GoTo("rescan")
     \/ store' = store /\ Exit
  /\ UNCHANGED <<driven, service, keys, file, doomed, signing, flags>>

\* The rescan only asks: the answer is Configure, whenever it comes.
Rescan == step = "rescan" /\ Exit /\ UNCHANGED <<windows, signing, flags>>

-----------------------------------------------------------------------------
\* DoUninstall.  StopDriverService: no service and one that does not run are
\* as good as stopped; the manager, the service or the request may be refused
\* in any state, and a service that does not stop in time counts as refused.
\* Only /force goes on after that.
GiveUp == IF args.force THEN GoTo(After("stop")) ELSE Exit

StopDriverService ==
  /\ step = "stop"
  /\ \/ /\ service \in {"none", "stopped"}
        /\ GoTo(After("stop")) /\ UNCHANGED service
     \/ GiveUp /\ UNCHANGED service
     \/ /\ service = "running" /\ service' = "stopping"
        /\ GoTo("poll")
  /\ UNCHANGED <<store, driven, keys, file, doomed, signing, flags>>

Poll ==
  /\ step = "poll"
  /\ IF service = "stopped" THEN GoTo(After("stop"))
     ELSE IF polls < MaxPolls
       THEN step' = "poll" /\ polls' = polls + 1 /\ UNCHANGED <<args, runs>>
       ELSE GiveUp
  /\ UNCHANGED <<windows, signing, flags>>

\* The device nodes, ports first.  The card itself is looked for among PCI
\* devices only, and a node that is not found is passed over.  When the last
\* one goes the driver may be unloaded.
Found(d) == d \in driven /\ (d = "bus" => onPci)

RemoveDevices(d) ==
  /\ step = d /\ GoTo(After(d))
  /\ \/ /\ Found(d) /\ driven' = driven \ {d}
        /\ service' \in IF driven' = {} /\ service # "none"
                          THEN {service, "stopped"} ELSE {service}
        /\ UNCHANGED <<store, keys, file, doomed, flags>>
     \/ Found(d) /\ Refused /\ spoiled' = TRUE
     \/ ~Found(d) /\ UNCHANGED <<windows, flags>>
  /\ UNCHANGED signing

\* What cannot go now goes at the next boot.
\* Fault: it is counted as gone.
AtBootNever(x) == doomed
AtBoot(x) == doomed \cup {x}

\* The registration goes at once, with its keys, when nobody holds it.
DeleteDriverService ==
  /\ step = "service" /\ GoTo(After("service"))
  /\ \/ service = "none" /\ UNCHANGED <<windows, flags>>
     \/ /\ service = "stopped" /\ service' = "none" /\ keys' = {}
        /\ doomed' = doomed \ {"service"}
        /\ UNCHANGED <<store, driven, file, flags>>
     \/ /\ service # "none" /\ doomed' = AtBoot("service")
        /\ UNCHANGED <<store, driven, service, keys, file, flags>>
     \/ service # "none" /\ Refused /\ UNCHANGED spoiled
  /\ UNCHANGED signing

\* The file of a loaded driver is locked, others may be.
DeleteDriverFile ==
  /\ step = "file" /\ GoTo(After("file"))
  /\ \/ ~file /\ UNCHANGED <<windows, flags>>
     \/ /\ file /\ service \in {"none", "stopped"} /\ file' = FALSE
        /\ doomed' = doomed \ {"file"}
        /\ UNCHANGED <<store, driven, service, keys, flags>>
     \/ /\ file /\ doomed' = AtBoot("file")
        /\ UNCHANGED <<store, driven, service, keys, file, flags>>
     \/ file /\ Refused /\ UNCHANGED spoiled
  /\ UNCHANGED signing

\* CleanRegistry: the known subkeys, then the key, which must have none left.
CleanRegistry ==
  /\ step = "keys" /\ GoTo(After("keys"))
  /\ \E held \in SUBSET keys :
       keys' = IF held = {} /\ keys \ Keys = {} THEN {} ELSE (keys \ Subkeys) \cup held
  /\ UNCHANGED <<store, driven, service, file, doomed, signing, flags>>

\* The INF is asked for under the name it had on the disk, not under the one
\* the store has given it: it stays unless Windows accepts that.
Outcome(refused) == IF refused THEN "refused" ELSE "clean"

RemoveInf ==
  /\ step = "inf"
  /\ \/ store' = FALSE /\ failed' = failed
     \/ store /\ store' = store /\ failed' = TRUE
  /\ IF args.removeCert THEN GoTo("cert") /\ UNCHANGED ended
     ELSE Exit /\ ended' = Outcome(failed')
  /\ UNCHANGED <<driven, service, keys, file, doomed, signing, spoiled>>

RemoveCert ==
  /\ step = "cert" /\ Exit /\ ended' = Outcome(failed)
  /\ \E gone \in SUBSET Stores : trusted' = trusted \ gone
  /\ testSigning' \in {testSigning, FALSE}
  /\ UNCHANGED <<windows, failed, spoiled>>

\* DoStatus reports, of what is here modelled, the service and the file.
Status == [service |-> IF service = "none" THEN "not installed" ELSE service,
           file |-> file]

-----------------------------------------------------------------------------
\* The PnP manager finds a card it has a driver for: the file is copied, the
\* service registered and started.  One marked for deletion cannot be
\* registered again before the next boot.  A device that comes back under a
\* running uninstall, or while its file is about to go, is one nobody expects.
Configure ==
  /\ store /\ driven # Devices /\ "service" \notin doomed
  /\ driven' = Devices /\ service' = "running" /\ file' = TRUE
  /\ \E other \in {{}, {"Other"}} : keys' = keys \cup Keys \cup other
  /\ failed' = (failed \/ args.do = "uninstall")
  /\ spoiled' = (spoiled \/ args.do = "uninstall" \/ "file" \in doomed)
  /\ UNCHANGED <<store, doomed, signing, step, args, polls, runs, ended>>

ServiceStops ==
  /\ service = "stopping" /\ service' = "stopped"
  /\ UNCHANGED <<store, driven, keys, file, doomed, signing, step, args, polls, runs, flags>>

\* The program is killed; the machine restarts, with or without it running.
Killed ==
  /\ step # "idle" /\ Exit /\ UNCHANGED <<windows, signing, flags>>

Boot ==
  /\ file' = (file /\ "file" \notin doomed)
  /\ keys' = IF "service" \in doomed THEN {} ELSE keys
  /\ service' = IF "cyport" \notin keys' THEN "none"
                ELSE IF driven # {} /\ file' THEN "running" ELSE "stopped"
  /\ doomed' = {}
  /\ Exit
  /\ UNCHANGED <<store, driven, signing, flags>>

InstallStep ==
  \/ \E a \in Install \cup Uninstall : Main(a)
  \/ Unelevated \/ CheckMedia \/ Trust \/ CopyInf \/ Rescan
  \/ StopDriverService \/ Poll \/ \E d \in Devices : RemoveDevices(d)
  \/ DeleteDriverService \/ DeleteDriverFile \/ CleanRegistry \/ RemoveInf \/ RemoveCert
  \/ Configure \/ ServiceStops \/ Killed \/ Boot

InstallNext == InstallStep /\ UNCHANGED onPci

InstallSpec == InstallInit /\ [][InstallNext]_installVars

-----------------------------------------------------------------------------
\* What is left of the service and the file is at most until the next boot.
ServiceGoes == Status.service = "not installed" \/ "service" \in doomed
FileGoes == ~Status.file \/ "file" \in doomed

\* Wherever the uninstaller is killed or the machine restarted, and whichever
\* other deletions are refused, a device that still has the driver has a
\* service and a file that are not about to go: the devices go first.  That is
\* so of a PCI card as long as no removal of a device has ever been refused and
\* no device configured under a running uninstall or after one that left the
\* file to the next boot: the code deletes service and file all the same.
NoOrphan ==
  driven # {} /\ onPci /\ ~spoiled => service # "none" /\ file /\ doomed = {}

\* An uninstall of a PCI card that comes to its end with nothing refused but,
\* under /force, the stop itself, and the INF gone, leaves no device and nothing
\* that /status would report once the machine has restarted, at the first
\* attempt or as the repetition of one that was killed or refused half way; and
\* nothing comes back until the next install.
GoneAfterBoot ==
  ended = "clean" /\ onPci => driven = {} /\ ServiceGoes /\ FileGoes

\* What the usage text and the guide say of every uninstall that reports its
\* end: the driver is removed completely, from the driver store too.  The code
\* does not keep this.
RemovesCompletely ==
  ended # "no" => ~store /\ driven = {} /\ ServiceGoes /\ FileGoes
=============================================================================

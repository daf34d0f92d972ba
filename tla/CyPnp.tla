-------------------------------- MODULE CyPnp --------------------------------
(***************************************************************************)
(* The device objects of a Cyclades card: the function driver's object     *)
(* maps the card's window, looks for chips in it and creates one object    *)
(* per port; the PnP manager starts, stops and removes each of them, and   *)
(* programs open the ports.  The manager is external: it queries, stops    *)
(* and removes children before their parent, sends a cancel only after its *)
(* query, and removes no object that a program still has open.  So is the  *)
(* interrupt: it is taken to be connected when a port is first started,    *)
(* and no code disconnects it.                                             *)
(***************************************************************************)
EXTENDS Integers, Sequences, FiniteSets

CONSTANTS MaxChips, Channels,    \* CY_MAX_CHIPS, CY_PORTS_PER_CHIP
          NoPort, NoWindow,
          MaxStarts,             \* of the card, one window mapped by each
          MaxHandles             \* open at a time

ASSUME PnpAssumption ==
  MaxChips \in Nat \ {0} /\ Channels \in Nat \ {0} /\ MaxStarts \in Nat /\ MaxHandles \in Nat
  /\ NoPort \notin Nat \X Nat

VARIABLES fdo,          \* of the card: whether it is there, PnP states, Started
          numChips,
          chipBase,     \* the window Chips[0 .. NumChips - 1].Base point into
          children,     \* ChildPDOs[0 .. NumPDOs - 1]
          cardBase,     \* the window the card's object knows
          mapped,       \* windows that are mapped
          starts,
          pdo,          \* the port objects created so far
          links,        \* COM names in \DosDevices, by port index
          present,      \* ports in the last answer to BusRelations
          known,        \* ports the manager has not removed for good
          open,         \* ports with a handle
          connected     \* whether the interrupt routine may be called

card == <<fdo, numChips, chipBase, children, cardBase, mapped, starts>>
manager == <<present, known>>
pnpVars == <<card, pdo, links, manager, open, connected>>

\* A port object: the start that created it, whose window it uses, chip and channel.
Objects == (1..MaxStarts) \X (0..MaxChips - 1) \X (0..Channels - 1)
WindowOf(o) == o[1]

NoCard == [there |-> FALSE, pnp |-> "NotStarted", prev |-> "NotStarted", started |-> FALSE]

PnpInit ==
  /\ fdo = NoCard /\ numChips = 0 /\ chipBase = NoWindow /\ children = <<>>
  /\ cardBase = NoWindow /\ mapped = {} /\ starts = 0
  /\ pdo = <<>> /\ links = {} /\ present = {} /\ known = {} /\ open = {}
  /\ connected = FALSE

\* CySetPnPState and CyRestorePnPState.  The previous state is read by a cancel
\* only, so it is kept while one may come.
Pending == {"StopPending", "RemovePending"}
SetPnPState(d, state) ==
  [d EXCEPT !.prev = IF state \in Pending THEN d.pnp ELSE "NotStarted", !.pnp = state]
RestorePnPState(d) == [d EXCEPT !.pnp = d.prev, !.prev = "NotStarted"]

Ports == {o \in DOMAIN pdo : pdo[o].alive}
InState(o, states) == pdo[o].pnp \in states

-----------------------------------------------------------------------------
\* The card's object, with a new extension.  If it cannot be attached it is
\* deleted again.
AddDevice ==
  /\ ~fdo.there /\ starts < MaxStarts
  /\ fdo' = [NoCard EXCEPT !.there = TRUE]
  /\ numChips' = 0 /\ chipBase' = NoWindow /\ children' = <<>> /\ cardBase' = NoWindow
  /\ UNCHANGED <<mapped, starts, pdo, links, manager, open, connected>>

\* CyCreateChildPDOs visits the channels of the first chip, then those of the
\* next; a port that cannot be created leaves no gap.
PortsOf(n) == (0..n - 1) \X (0..Channels - 1)
Before(p, q) == p[1] < q[1] \/ (p[1] = q[1] /\ p[2] < q[2])
\* Fault: it leaves its place empty.
CreatedGappy(n, missing) ==
  LET port(i) == <<(i - 1) \div Channels, (i - 1) % Channels>> IN
    {[i \in 1..(n * Channels) |-> IF port(i) \in missing THEN NoPort ELSE port(i)]}
Created(n, missing) ==
  LET made == PortsOf(n) \ missing IN
    {s \in [1..Cardinality(made) -> made] :
       \A i \in DOMAIN s : Cardinality({p \in made : Before(p, s[i])}) = i - 1}

NewPdo(index) == [index |-> index, pnp |-> "NotStarted", prev |-> "NotStarted",
                  link |-> "none", alive |-> TRUE]

CreateChildPDOs(slots) ==
  LET used == {i \in DOMAIN slots : slots[i] # NoPort}
      object(i) == <<starts', slots[i][1], slots[i][2]>> IN
    /\ children' = [i \in DOMAIN slots |-> IF i \in used THEN object(i) ELSE NoPort]
    /\ pdo' = [o \in DOMAIN pdo \cup {object(i) : i \in used} |->
                 IF o \in DOMAIN pdo THEN pdo[o]
                 ELSE NewPdo((CHOOSE i \in used : object(i) = o) - 1)]

\* START of a card that is not started, after the bus below has started it.
Starting == fdo.there /\ ~fdo.started /\ fdo.pnp \in {"NotStarted", "Stopped"}

\* The window cannot be mapped, or no chip answers in it: it is unmapped again.
StartFails ==
  /\ Starting /\ cardBase' = NoWindow
  /\ numChips' \in {numChips, 0}
  /\ UNCHANGED <<fdo, chipBase, children, mapped, starts, pdo, links, manager, open, connected>>

\* If no port can be created the window is unmapped again, and the chips stay
\* as the scan has found them.
StartCard(n, missing) ==
  /\ Starting /\ starts < MaxStarts /\ starts' = starts + 1
  /\ numChips' = n /\ chipBase' = starts'
  /\ \E slots \in Created(n, missing) : CreateChildPDOs(slots)
  /\ IF children' # <<>>
       THEN /\ cardBase' = starts' /\ mapped' = mapped \cup {starts'}
            /\ fdo' = [SetPnPState(fdo, "Started") EXCEPT !.started = TRUE]
       ELSE cardBase' = NoWindow /\ UNCHANGED <<mapped, fdo>>
  /\ UNCHANGED <<links, manager, open, connected>>

\* The answer to QUERY_ID, which must tell apart what BusRelations reports.
InstanceID(o) == pdo[o].index

\* The answer to BusRelations.
QueryRelations ==
  /\ fdo.there /\ fdo.pnp = "Started"
  /\ present' = {children[i] : i \in DOMAIN children}
  /\ known' = known \cup present'
  /\ UNCHANGED <<card, pdo, links, open, connected>>

CardState(from, new) ==
  /\ fdo.there /\ fdo.pnp \in from /\ fdo' = new
  /\ UNCHANGED <<numChips, chipBase, children, cardBase, mapped, starts>>
  /\ UNCHANGED <<pdo, links, manager, open, connected>>

\* A query reaches the ports first.
Queried == \A o \in known : ~InState(o, {"Started"})

QueryStopCard == Queried /\ CardState({"Started"}, SetPnPState(fdo, "StopPending"))
CancelStopCard == CardState({"StopPending"}, RestorePnPState(fdo))
QueryRemoveCard == Queried /\ CardState({"Started"}, SetPnPState(fdo, "RemovePending"))
CancelRemoveCard == CardState({"RemovePending"}, RestorePnPState(fdo))
SurpriseRemoveCard ==
  CardState({"Started", "Stopped"}, SetPnPState(fdo, "SurpriseRemoved"))

\* Stopping releases nothing of the card.
\* Fault: it unmaps the window, as the resources are about to be reassigned.
WindowAfterStopUnmapped == mapped \ {cardBase}
WindowAfterStop == mapped

StopCard ==
  /\ fdo.pnp = "StopPending"
  /\ \A o \in known : InState(o, {"NotStarted", "Stopped", "Removed"})
  /\ fdo' = [SetPnPState(fdo, "Stopped") EXCEPT !.started = FALSE]
  /\ mapped' = WindowAfterStop
  /\ UNCHANGED <<numChips, chipBase, children, cardBase, starts>>
  /\ UNCHANGED <<pdo, links, manager, open, connected>>

\* REMOVE.  The interrupt routine may run between any two of its steps.
RemoveCard ==
  /\ fdo.there
  /\ fdo.pnp \in {"RemovePending", "SurpriseRemoved"} \/ Starting
  /\ \A o \in known : InState(o, {"Removed"}) /\ o \notin open
  /\ fdo' = SetPnPState(fdo, "Removed")
  /\ present' = {} /\ known' = {}
  /\ UNCHANGED <<numChips, chipBase, children, cardBase, mapped, starts>>
  /\ UNCHANGED <<pdo, links, open, connected>>

Removing == fdo.there /\ fdo.pnp = "Removed"
AtChild(i) == children[i] # NoPort /\ \A j \in 1..(i - 1) : children[j] = NoPort

\* The children the manager has not removed are deleted, and then forgotten
\* like the others, which are left to themselves.
DeleteChild(i) ==
  /\ Removing /\ AtChild(i)
  /\ ~InState(children[i], {"Removed"}) /\ pdo[children[i]].alive
  /\ pdo' = [pdo EXCEPT ![children[i]].alive = FALSE]
  /\ UNCHANGED <<card, links, manager, open, connected>>

ForgetChild(i) ==
  /\ Removing /\ AtChild(i)
  /\ InState(children[i], {"Removed"}) \/ ~pdo[children[i]].alive
  /\ children' = [children EXCEPT ![i] = NoPort]
  /\ UNCHANGED <<fdo, numChips, chipBase, cardBase, mapped, starts>>
  /\ UNCHANGED <<pdo, links, manager, open, connected>>

Emptied == \A i \in DOMAIN children : children[i] = NoPort

UnmapCard ==
  /\ Removing /\ Emptied /\ (children # <<>> \/ cardBase # NoWindow)
  /\ children' = <<>> /\ mapped' = mapped \ {cardBase} /\ cardBase' = NoWindow
  /\ UNCHANGED <<fdo, numChips, chipBase, starts, pdo, links, manager, open, connected>>

\* The object is deleted, and its extension with it.
DeleteCard ==
  /\ Removing /\ children = <<>> /\ cardBase = NoWindow
  /\ fdo' = NoCard
  /\ UNCHANGED <<numChips, chipBase, children, cardBase, mapped, starts>>
  /\ UNCHANGED <<pdo, links, manager, open, connected>>

-----------------------------------------------------------------------------
\* The port objects.
PortState(o, from, new) ==
  /\ InState(o, from) /\ pdo' = [pdo EXCEPT ![o] = new]
  /\ UNCHANGED <<card, manager, open>>

\* START makes the COM name of the port's index; one that exists stays as it
\* is.  Without memory there is none, and a name made by an earlier start is
\* lost: it exists, and the port no longer knows.
LinkAfterStart(o, named) ==
  IF named THEN "held" ELSE IF pdo[o].link = "none" THEN "none" ELSE "lost"

StartPort(o, named) ==
  /\ o \in present /\ fdo.pnp = "Started"
  /\ PortState(o, {"NotStarted", "Stopped", "Removed"},
       [SetPnPState(pdo[o], "Started") EXCEPT !.link = LinkAfterStart(o, named)])
  /\ links' = IF named THEN links \cup {pdo[o].index} ELSE links
  /\ connected' = TRUE

ChangePort(o) ==
  /\ \/ PortState(o, {"Started"}, SetPnPState(pdo[o], "StopPending"))
     \/ PortState(o, {"StopPending"}, RestorePnPState(pdo[o]))
     \/ PortState(o, {"StopPending"}, SetPnPState(pdo[o], "Stopped"))
     \/ o \notin open /\ PortState(o, {"Started"}, SetPnPState(pdo[o], "RemovePending"))
     \/ PortState(o, {"RemovePending"}, RestorePnPState(pdo[o]))
     \/ /\ o \notin present \/ fdo.pnp = "SurpriseRemoved"
        /\ PortState(o, {"Started", "Stopped"}, SetPnPState(pdo[o], "SurpriseRemoved"))
  /\ UNCHANGED <<links, connected>>

\* Fault: the name is freed and its link left.
LinksAfterKept(o) == links
LinksAfter(o) == IF pdo[o].link = "held" THEN links \ {pdo[o].index} ELSE links

LinkAfterRemove(o) == IF pdo[o].link = "held" THEN "none" ELSE pdo[o].link

\* REMOVE deletes the name and keeps the object, which may be started again.
RemovePort(o) ==
  /\ o \notin open
  /\ InState(o, {"NotStarted", "Stopped", "RemovePending", "SurpriseRemoved"})
  /\ pdo' = [pdo EXCEPT ![o] =
                [SetPnPState(pdo[o], "Removed") EXCEPT !.link = LinkAfterRemove(o)]]
  /\ links' = LinksAfter(o)
  /\ known' = IF o \in present THEN known ELSE known \ {o}
  /\ UNCHANGED <<card, present, open, connected>>

-----------------------------------------------------------------------------
\* Create and Close, of a port the manager has reported.
OpenPort(o) ==
  /\ InState(o, {"Started"}) /\ o \notin open /\ Cardinality(open) < MaxHandles
  /\ open' = open \cup {o}
  /\ UNCHANGED <<card, pdo, links, manager, connected>>

ClosePort(o) ==
  /\ o \in open /\ open' = open \ {o}
  /\ UNCHANGED <<card, pdo, links, manager, connected>>

Manage(o) == (\E named \in BOOLEAN : StartPort(o, named)) \/ ChangePort(o) \/ RemovePort(o)

PnpNext ==
  \/ AddDevice \/ StartFails \/ QueryRelations
  \/ RemoveCard \/ UnmapCard \/ DeleteCard
  \/ \E i \in DOMAIN children : DeleteChild(i) \/ ForgetChild(i)
  \/ \E n \in 1..MaxChips : \E missing \in SUBSET PortsOf(n) : StartCard(n, missing)
  \/ QueryStopCard \/ CancelStopCard \/ StopCard
  \/ QueryRemoveCard \/ CancelRemoveCard \/ SurpriseRemoveCard
  \/ \E o \in known : Manage(o) \/ OpenPort(o)
  \/ \E o \in open : ClosePort(o)

PnpSpec == PnpInit /\ [][PnpNext]_pnpVars

-----------------------------------------------------------------------------
\* The interrupt routine reads a register of every chip before it looks up a
\* port, and serves the started ports among the children.
ReadChips == IF numChips = 0 THEN {} ELSE {chipBase}
Listed == {children[i] : i \in DOMAIN children} \ {NoPort}
Served == {o \in Listed : InState(o, {"Started"})}

\* A port that a program has open, or that the interrupt routine serves, is not
\* deleted and its window is mapped; and as long as the routine serves any port
\* the chips it reads are mapped too, however the card was stopped, restarted,
\* torn out or failed to start.  Of a routine that serves no port any more this
\* says nothing: see InterruptIsSafe.
AccessIsSafe ==
  /\ \A o \in open \cup Served : o \in Ports /\ WindowOf(o) \in mapped
  /\ Served # {} => ReadChips \subseteq mapped

\* What the comments promise: the interrupt is disconnected with the last port,
\* so that it finds neither a deleted object nor an unmapped window.  The code
\* does not keep this.
InterruptIsSafe ==
  connected => fdo.there /\ ReadChips \subseteq mapped /\ Listed \subseteq Ports

\* Until the card is removed, what it reports and the interrupt routine looks
\* up are live objects without a gap, each under its own instance ID; and when
\* no creation failed a slot belongs to the chip and channel the interrupt
\* routine computes it from.
ChildrenWhole ==
  fdo.pnp # "Removed" =>
    /\ \A i \in DOMAIN children : children[i] \in Ports
    /\ \A i, j \in DOMAIN children :
         InstanceID(children[i]) = InstanceID(children[j]) => i = j
    /\ Len(children) = numChips * Channels =>
         \A i \in DOMAIN children : children[i][2] * Channels + children[i][3] = i - 1

\* Over any stops, restarts and removals a COM name does not outlive the ports
\* that have asked for it, but for those lost to a restart without memory.
NamesDie ==
  \A k \in links : \E o \in DOMAIN pdo :
    /\ pdo[o].index = k
    /\ (o \in Ports /\ pdo[o].link = "held") \/ pdo[o].link = "lost"
=============================================================================

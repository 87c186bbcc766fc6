------------------------- MODULE FleetPopulationProofs -------------------------
(***************************************************************************)
(* What FleetPopulation keeps for every number of owners, operations,      *)
(* devices, generations, holds and crashes: its types, at most one         *)
(* dispatch of a native write, no slot used twice, exclusive holds, no     *)
(* write without cover, and a published population that is proved.         *)
(*                                                                         *)
(* None of these is inductive.  Four invariants carry them, each on top    *)
(* of the one before:                                                      *)
(*   Journal     an index is issued once and its slot quarantined, and the *)
(*               journal of the present change has every write that was    *)
(*               sent for its devices;                                     *)
(*   Cover       the phase of an operation in the ledger bounds the state  *)
(*               of its change in the journal, and both say which devices  *)
(*               each port has served;                                     *)
(*   Calm        a release that has marked the change leaves no call of    *)
(*               the adapter and no device to be created;                  *)
(*   Publishing  the ledger's published population is the journal's, or    *)
(*               the one before the commit of the operation under way.     *)
(***************************************************************************)
EXTENDS FleetPopulation, TLAPS, FiniteSetTheorems

\* The indices issued; a journal of the present generation; a hold used for it.
Indices == 0..(Len(pop.issued) - 1)
Ours == pop.gen = gen.id
Held == hold.state = "consumed" /\ hold.gen = gen.id

\* Where the adapter's call is agrees with the phase of its operation.
Located ==
    /\ pc.at # "idle" => pc.op \in Ops
    /\ pc.op \in Ops => rec[pc.op].phase # "none"
    /\ pc.at \in {"reserve", "keep"} => Now = "reserved"
    /\ pc.at \in {"port", "note"} => Now \in DOMAIN Receipt
    /\ pc.at \in {"consume", "consumed"} => Now = "consume_pending"
    /\ pc.at = "exclude" => Now = "withdrawn"
    /\ pc.at \in {"retire", "retired"} => Now = "retire_pending"
    /\ pc.at = "publish" => Now = "native_ready"

\* A fleet that nobody changed is as it was launched.
Launched ==
    /\ pop.gen <= gen.id /\ hold.gen <= gen.id
    /\ Held /\ ~Ours => /\ gen.alloc = 0..FleetSize-1
                        /\ \A w \in Write : sent[w] = 0

-----------------------------------------------------------------------------
\* The types of the state, part by part.
Gens == [id : 0..MaxGen, alloc : SUBSET Device]
Holdings == [id : 0..MaxHold, owner : Owners \cup {NoOne}, live : BOOLEAN,
             state : {"none", "held", "consumed", "released"}, base : 0..MaxGen, gen : 0..MaxGen]
Deltas == [op : Ops \cup {NoOne}, base : Nat, state : DeltaState, live : BOOLEAN,
           add : SUBSET Device, remove : SUBSET Device]
Pops == [gen : 0..MaxGen, rev : Nat, births : SUBSET Device, issued : Seq(Slot),
         quarantine : SUBSET Slot, tomb : SUBSET Device, writes : SUBSET Write, delta : Deltas]
Snaps == [rev : Nat, members : SUBSET Device, pending : Ops \cup {NoOne}, excluded : SUBSET Device]
Records == [phase : Phase, fleet : 0..MaxGen, base : Nat, add : 0..MaxAdd, remove : SUBSET Device]
Rounds == {"none", "ordinary", "starting", "active", "ended", "stopping", "stopped"}
At == {"idle", "resume", "reserve", "keep", "port", "note",
       "consume", "consumed", "exclude", "retire", "retired", "publish"}
Calls == [op : Ops \cup {NoOne}, at : At]
Proofs == [rev : Nat, members : SUBSET Device]

HoldOK == hold \in Holdings /\ handle \in [Owners -> 0..MaxHold]
JournalOK == gen \in Gens /\ pop \in Pops
LedgerOK == snap \in Snaps /\ rec \in [Ops -> Records] /\ round \in Rounds /\ fleet \in 0..MaxGen
WorldOK ==
    /\ pods \subseteq Device /\ native \subseteq Device /\ admitted \subseteq Device
    /\ policy \subseteq Device /\ window \subseteq Device /\ flight \subseteq Write
    /\ release \in {"none", "freezing", "frozen", "closing"}
AdapterOK == pc \in Calls /\ proof \in Proofs
HistoryOK == dirty \in BOOLEAN /\ sent \in [Write -> Nat] /\ crashes \in 0..MaxCrash

\* The type invariant in parts, each about the variables a group of steps writes.
LEMMA TypeParts == TypeOK <=> HoldOK /\ JournalOK /\ LedgerOK /\ WorldOK /\ AdapterOK /\ HistoryOK
  BY DEF TypeOK, HoldOK, JournalOK, LedgerOK, WorldOK, AdapterOK, HistoryOK, Gens, Holdings, Deltas,
         Pops, Snaps, Records, Rounds, At, Calls, Proofs

\* The bounds are numbers, and the fleet fits among the devices.
LEMMA Numbers ==
    /\ MaxDevice \in Nat /\ FleetSize \in Nat /\ FleetSize >= 1 /\ FleetSize <= MaxDevice
    /\ MaxAdd \in Nat /\ MaxGen \in Nat /\ MaxHold \in Nat /\ MaxCrash \in Nat
  BY PopulationAssumption

\* The initial state is well typed.
LEMMA InitTypes == Init => TypeOK
<1> SUFFICES ASSUME Init PROVE HoldOK /\ JournalOK /\ LedgerOK /\ WorldOK /\ AdapterOK /\ HistoryOK
  BY TypeParts
<1>1. HoldOK BY Numbers DEF Init, HoldOK, Holdings
<1>2. JournalOK
  <2>1. NoDelta \in Deltas BY DEF NoDelta, Deltas, DeltaState
  <2>2. <<>> \in Seq(Slot) OBVIOUS
  <2>3. NoPop \in Pops BY <2>1, <2>2, Numbers DEF NoPop, Pops
  <2>4. QED BY <2>3, Numbers DEF Init, JournalOK, Gens
<1>3. LedgerOK BY Numbers DEF Init, LedgerOK, Snaps, NoRecord, Records, Rounds, Phase
<1>4. WorldOK BY DEF Init, WorldOK
<1>5. AdapterOK BY DEF Init, AdapterOK, Idle, Calls, At, NoProof, Proofs
<1>6. HistoryOK
  <2>1. sent \in [Write -> Nat] BY DEF Init
  <2>2. crashes \in 0..MaxCrash BY Numbers DEF Init
  <2>3. QED BY <2>1, <2>2 DEF Init, HistoryOK
<1>7. QED BY <1>1, <1>2, <1>3, <1>4, <1>5, <1>6

-----------------------------------------------------------------------------
\* Which actions write what

\* The steps that write each part.
HoldStep ==
    \/ \E o \in Owners : ReserveHold(o) \/ ReleaseHold(o) \/ ConsumeHold(o)
    \/ HoldExpires

GenStep ==
    \/ \E o \in Owners : ConsumeHold(o)
    \/ OrdinaryStart \/ OrdinaryStop \/ StopFleet

JournalStep ==
    \/ RuntimeReserve \/ Consume \/ Retire
    \/ DeltaExpires \/ ReconcileExpired \/ ReconcileAdded \/ ReconcileRetired
    \/ \E d \in Device : Create(d) \/ Deregister(d) \/ Delete(d)
    \/ FreezeChange \/ Quiesce \/ ConfirmStopped

LedgerStep ==
    \/ \E o \in Owners : ConsumeHold(o)
    \/ OrdinaryStart \/ OrdinaryStop \/ Establish
    \/ \E o \in Ops : Submit(o)
    \/ KeepReservation \/ StartPort \/ NotePort \/ StartConsume \/ NoteConsumed
    \/ Exclude \/ NoteRetired \/ Readback \/ Publish
    \/ Close \/ Quiesce \/ StopFleet \/ ConfirmStopped

WorldStep ==
    \/ Establish \/ CallPort \/ PortFails
    \/ \E d \in Device : Create(d) \/ Deregister(d) \/ Delete(d)
    \/ \E w \in Write : Deliver(w)
    \/ Release \/ RetirePods \/ ConfirmStopped \/ BeginWindow \/ EndWindow \/ Crash

AdapterStep == Change \/ Crash

HistoryStep ==
    \/ \E o \in Owners : ConsumeHold(o)
    \/ \E d \in Device : Create(d) \/ Deregister(d) \/ Delete(d)
    \/ Crash

\* Only the steps of a hold write the hold.
LEMMA HoldFrame == Next => HoldStep \/ UNCHANGED <<hold, handle>>
<1> SUFFICES ASSUME Next PROVE HoldStep \/ UNCHANGED <<hold, handle>>
  OBVIOUS
<1>1. CASE Holding
  BY <1>1
  DEF Holding, HoldStep, OrdinaryStart, OrdinaryStop, Establish, ReserveHold, ReleaseHold, ConsumeHold, HoldExpires, Launch,
     journal, ledger, world, ports, adapter, measuring, history
<1>2. CASE Change
  BY <1>2
  DEF Change, HoldStep, Submit, StartReservation, RuntimeReserve, KeepReservation, StartPort, CallPort,
     PortFails, Port, NotePort, StartConsume, Consume, NoteConsumed, Exclude, Retire, NoteRetired, Readback,
     Publish, AdapterFails, Checkpoint, Goto,
     journal, ledger, world, ports, adapter, measuring, history
<1>3. CASE Reconcile
  BY <1>3
  DEF Reconcile, HoldStep, DeltaExpires, ReconcileExpired, ReconcileAdded, ReconcileRetired, Create,
     Deregister, Delete, Dispatch, Deliver,
     journal, ledger, world, ports, adapter, measuring, history
<1>4. CASE Cleanup
  BY <1>4
  DEF Cleanup, HoldStep, Close, Quiesce, StopFleet, RetirePods, ConfirmStopped, Launch,
     journal, ledger, world, ports, adapter, measuring, history
<1>5. CASE BeginWindow \/ EndWindow \/ Crash
  BY <1>5 DEF HoldStep, BeginWindow, EndWindow, Crash,
     journal, ledger, world, ports, adapter, measuring, history
<1>6. CASE Release
  BY <1>6 DEF Release, HoldStep, FreezeChange, UndoChange, CloseFleet, RestorePolicies,
     journal, ledger, world, ports, adapter, measuring, history
<1>7. QED BY <1>1, <1>2, <1>3, <1>4, <1>5, <1>6 DEF Next

\* Only launches and the controller write the generation and its journal.
LEMMA JournalFrame == Next => GenStep \/ JournalStep \/ UNCHANGED <<gen, pop>>
<1> SUFFICES ASSUME Next PROVE GenStep \/ JournalStep \/ UNCHANGED <<gen, pop>>
  OBVIOUS
<1>1. CASE Holding
  BY <1>1
  DEF Holding, GenStep, JournalStep, OrdinaryStart, OrdinaryStop, Establish, ReserveHold, ReleaseHold, ConsumeHold, HoldExpires, Launch,
     journal, ledger, world, ports, adapter, measuring, history
<1>2. CASE Change
  BY <1>2
  DEF Change, GenStep, JournalStep, Submit, StartReservation, RuntimeReserve, KeepReservation, StartPort, CallPort,
     PortFails, Port, NotePort, StartConsume, Consume, NoteConsumed, Exclude, Retire, NoteRetired, Readback,
     Publish, AdapterFails, Checkpoint, Goto,
     journal, ledger, world, ports, adapter, measuring, history
<1>3. CASE Reconcile
  BY <1>3
  DEF Reconcile, GenStep, JournalStep, DeltaExpires, ReconcileExpired, ReconcileAdded, ReconcileRetired, Create,
     Deregister, Delete, Dispatch, Deliver,
     journal, ledger, world, ports, adapter, measuring, history
<1>4. CASE Cleanup
  BY <1>4
  DEF Cleanup, GenStep, JournalStep, Close, Quiesce, StopFleet, RetirePods, ConfirmStopped, Launch,
     journal, ledger, world, ports, adapter, measuring, history
<1>5. CASE BeginWindow \/ EndWindow \/ Crash
  BY <1>5 DEF GenStep, JournalStep, BeginWindow, EndWindow, Crash,
     journal, ledger, world, ports, adapter, measuring, history
<1>6. CASE Release
  BY <1>6 DEF Release, GenStep, JournalStep, FreezeChange, UndoChange, CloseFleet, RestorePolicies,
     journal, ledger, world, ports, adapter, measuring, history
<1>7. QED BY <1>1, <1>2, <1>3, <1>4, <1>5, <1>6 DEF Next

\* Only the round and the adapter write the ledger.
LEMMA LedgerFrame == Next => LedgerStep \/ UNCHANGED <<snap, rec, round, fleet>>
<1> SUFFICES ASSUME Next PROVE LedgerStep \/ UNCHANGED <<snap, rec, round, fleet>>
  OBVIOUS
<1>1. CASE Holding
  BY <1>1
  DEF Holding, LedgerStep, OrdinaryStart, OrdinaryStop, Establish, ReserveHold, ReleaseHold, ConsumeHold, HoldExpires, Launch,
     journal, ledger, world, ports, adapter, measuring, history
<1>2. CASE Change
  BY <1>2
  DEF Change, LedgerStep, Submit, StartReservation, RuntimeReserve, KeepReservation, StartPort, CallPort,
     PortFails, Port, NotePort, StartConsume, Consume, NoteConsumed, Exclude, Retire, NoteRetired, Readback,
     Publish, AdapterFails, Checkpoint, Goto,
     journal, ledger, world, ports, adapter, measuring, history
<1>3. CASE Reconcile
  BY <1>3
  DEF Reconcile, LedgerStep, DeltaExpires, ReconcileExpired, ReconcileAdded, ReconcileRetired, Create,
     Deregister, Delete, Dispatch, Deliver,
     journal, ledger, world, ports, adapter, measuring, history
<1>4. CASE Cleanup
  BY <1>4
  DEF Cleanup, LedgerStep, Close, Quiesce, StopFleet, RetirePods, ConfirmStopped, Launch,
     journal, ledger, world, ports, adapter, measuring, history
<1>5. CASE BeginWindow \/ EndWindow \/ Crash
  BY <1>5 DEF LedgerStep, BeginWindow, EndWindow, Crash,
     journal, ledger, world, ports, adapter, measuring, history
<1>6. CASE Release
  BY <1>6 DEF Release, LedgerStep, FreezeChange, UndoChange, CloseFleet, RestorePolicies,
     journal, ledger, world, ports, adapter, measuring, history
<1>7. QED BY <1>1, <1>2, <1>3, <1>4, <1>5, <1>6 DEF Next

\* Only these steps change pods, admissions, policies, windows and deliveries.
LEMMA WorldFrame == Next => WorldStep \/ UNCHANGED <<pods, native, flight, admitted, policy, release, window>>
<1> SUFFICES ASSUME Next PROVE WorldStep \/ UNCHANGED <<pods, native, flight, admitted, policy, release, window>>
  OBVIOUS
<1>1. CASE Holding
  BY <1>1
  DEF Holding, WorldStep, OrdinaryStart, OrdinaryStop, Establish, ReserveHold, ReleaseHold, ConsumeHold, HoldExpires, Launch,
     journal, ledger, world, ports, adapter, measuring, history
<1>2. CASE Change
  BY <1>2
  DEF Change, WorldStep, Submit, StartReservation, RuntimeReserve, KeepReservation, StartPort, CallPort,
     PortFails, Port, NotePort, StartConsume, Consume, NoteConsumed, Exclude, Retire, NoteRetired, Readback,
     Publish, AdapterFails, Checkpoint, Goto,
     journal, ledger, world, ports, adapter, measuring, history
<1>3. CASE Reconcile
  BY <1>3
  DEF Reconcile, WorldStep, DeltaExpires, ReconcileExpired, ReconcileAdded, ReconcileRetired, Create,
     Deregister, Delete, Dispatch, Deliver,
     journal, ledger, world, ports, adapter, measuring, history
<1>4. CASE Cleanup
  BY <1>4
  DEF Cleanup, WorldStep, Close, Quiesce, StopFleet, RetirePods, ConfirmStopped, Launch,
     journal, ledger, world, ports, adapter, measuring, history
<1>5. CASE BeginWindow \/ EndWindow \/ Crash
  BY <1>5 DEF WorldStep, BeginWindow, EndWindow, Crash,
     journal, ledger, world, ports, adapter, measuring, history
<1>6. CASE Release BY <1>6 DEF WorldStep
<1>7. QED BY <1>1, <1>2, <1>3, <1>4, <1>5, <1>6 DEF Next

\* Only a change or a restart moves the adapter.
LEMMA AdapterFrame == Next => AdapterStep \/ UNCHANGED <<pc, proof>>
<1> SUFFICES ASSUME Next PROVE AdapterStep \/ UNCHANGED <<pc, proof>>
  OBVIOUS
<1>1. CASE Holding
  BY <1>1
  DEF Holding, AdapterStep, OrdinaryStart, OrdinaryStop, Establish, ReserveHold, ReleaseHold, ConsumeHold, HoldExpires, Launch,
     journal, ledger, world, ports, adapter, measuring, history
<1>2. CASE Change
  BY <1>2
  DEF Change, AdapterStep, Submit, StartReservation, RuntimeReserve, KeepReservation, StartPort, CallPort,
     PortFails, Port, NotePort, StartConsume, Consume, NoteConsumed, Exclude, Retire, NoteRetired, Readback,
     Publish, AdapterFails, Checkpoint, Goto,
     journal, ledger, world, ports, adapter, measuring, history
<1>3. CASE Reconcile
  BY <1>3
  DEF Reconcile, AdapterStep, DeltaExpires, ReconcileExpired, ReconcileAdded, ReconcileRetired, Create,
     Deregister, Delete, Dispatch, Deliver,
     journal, ledger, world, ports, adapter, measuring, history
<1>4. CASE Cleanup
  BY <1>4
  DEF Cleanup, AdapterStep, Close, Quiesce, StopFleet, RetirePods, ConfirmStopped, Launch,
     journal, ledger, world, ports, adapter, measuring, history
<1>5. CASE BeginWindow \/ EndWindow \/ Crash
  BY <1>5 DEF AdapterStep, BeginWindow, EndWindow, Crash,
     journal, ledger, world, ports, adapter, measuring, history
<1>6. CASE Release
  BY <1>6 DEF Release, AdapterStep, FreezeChange, UndoChange, CloseFleet, RestorePolicies,
     journal, ledger, world, ports, adapter, measuring, history
<1>7. QED BY <1>1, <1>2, <1>3, <1>4, <1>5, <1>6 DEF Next

\* Only launches, dispatches and restarts enter the history.
LEMMA HistoryFrame == Next => HistoryStep \/ UNCHANGED <<dirty, sent, crashes>>
<1> SUFFICES ASSUME Next PROVE HistoryStep \/ UNCHANGED <<dirty, sent, crashes>>
  OBVIOUS
<1>1. CASE Holding
  BY <1>1
  DEF Holding, HistoryStep, OrdinaryStart, OrdinaryStop, Establish, ReserveHold, ReleaseHold, ConsumeHold, HoldExpires, Launch,
     journal, ledger, world, ports, adapter, measuring, history
<1>2. CASE Change
  BY <1>2
  DEF Change, HistoryStep, Submit, StartReservation, RuntimeReserve, KeepReservation, StartPort, CallPort,
     PortFails, Port, NotePort, StartConsume, Consume, NoteConsumed, Exclude, Retire, NoteRetired, Readback,
     Publish, AdapterFails, Checkpoint, Goto,
     journal, ledger, world, ports, adapter, measuring, history
<1>3. CASE Reconcile
  BY <1>3
  DEF Reconcile, HistoryStep, DeltaExpires, ReconcileExpired, ReconcileAdded, ReconcileRetired, Create,
     Deregister, Delete, Dispatch, Deliver,
     journal, ledger, world, ports, adapter, measuring, history
<1>4. CASE Cleanup
  BY <1>4
  DEF Cleanup, HistoryStep, Close, Quiesce, StopFleet, RetirePods, ConfirmStopped, Launch,
     journal, ledger, world, ports, adapter, measuring, history
<1>5. CASE BeginWindow \/ EndWindow \/ Crash
  BY <1>5 DEF HistoryStep, BeginWindow, EndWindow, Crash,
     journal, ledger, world, ports, adapter, measuring, history
<1>6. CASE Release
  BY <1>6 DEF Release, HistoryStep, FreezeChange, UndoChange, CloseFleet, RestorePolicies,
     journal, ledger, world, ports, adapter, measuring, history
<1>7. QED BY <1>1, <1>2, <1>3, <1>4, <1>5, <1>6 DEF Next

-----------------------------------------------------------------------------
\* Type correctness

\* Every step keeps the hold well typed.
LEMMA HoldTypes == TypeOK /\ [Next]_vars => HoldOK'
<1> SUFFICES ASSUME HoldOK, JournalOK, [Next]_vars PROVE HoldOK'
  BY TypeParts
<1> USE Numbers DEF HoldOK, Holdings
<1>1. ASSUME NEW o \in Owners, ReserveHold(o) PROVE HoldOK'
  BY <1>1 DEF ReserveHold, JournalOK, Gens
<1>2. ASSUME NEW o \in Owners, ReleaseHold(o) PROVE HoldOK'
  BY <1>2 DEF ReleaseHold
<1>3. ASSUME NEW o \in Owners, ConsumeHold(o) PROVE HoldOK'
  <2>1. gen.id \in 0..MaxGen BY DEF JournalOK, Gens
  <2>2. gen.id + 1 \in 0..MaxGen BY <1>3, <2>1 DEF ConsumeHold
  <2>3. hold' = [hold EXCEPT !.state = "consumed", !.gen = gen.id + 1] /\ handle' = handle
    BY <1>3 DEF ConsumeHold
  <2>4. QED BY <2>2, <2>3
<1>4. CASE HoldExpires BY <1>4 DEF HoldExpires
<1>5. CASE UNCHANGED <<hold, handle>> BY <1>5
<1>6. QED BY <1>1, <1>2, <1>3, <1>4, <1>5, HoldFrame DEF HoldStep, vars

-----------------------------------------------------------------------------
\* The journal

\* Every device of the journal has an index that was issued, an added one a new
\* one, and its slot is quarantined.
IndexedIn(p) ==
    /\ p.births \cup p.tomb \cup p.delta.add \cup p.delta.remove \subseteq 0..(Len(p.issued) - 1)
    /\ p.delta.add \cap p.delta.remove = {}
    /\ \A i \in 1..Len(p.issued) : p.issued[i] \in p.quarantine
    /\ \A i, j \in 1..Len(p.issued) : p.issued[i] = p.issued[j] => i = j

Indexed == IndexedIn(pop)

\* What _save adds to a journal: slots that were issued.
LEMMA SavedTyped ==
    ASSUME NEW p \in Pops, p.births \cup p.tomb \cup p.delta.add \subseteq 0..(Len(p.issued) - 1)
    PROVE  /\ Saved(p) \in Pops
           /\ Saved(p) = [p EXCEPT !.quarantine = Saved(p).quarantine]
           /\ p.quarantine \subseteq Saved(p).quarantine
           /\ SlotsOf(p, p.births \cup p.tomb \cup p.delta.add) \subseteq Saved(p).quarantine
<1> DEFINE D == p.births \cup p.tomb \cup p.delta.add
           q == p.quarantine \cup SlotsOf(p, D)
<1>1. p.issued \in Seq(Slot) /\ p.quarantine \subseteq Slot BY DEF Pops
<1>2. \A d \in D : p.issued[d + 1] \in Slot BY <1>1
<1>3. SlotsOf(p, D) \subseteq Slot BY <1>2 DEF SlotsOf
<1>4. Saved(p) = [p EXCEPT !.quarantine = q] BY DEF Saved
<1>5. Saved(p).quarantine = q BY <1>4 DEF Pops
<1>6. q \subseteq Slot BY <1>1, <1>3
<1> HIDE DEF q
<1>7. Saved(p) \in Pops BY <1>4, <1>6 DEF Pops
<1>8. QED BY <1>4, <1>5, <1>7 DEF q

\* The journal of a fleet that nobody changed.
LEMMA FreshTyped ==
    ASSUME JournalOK, gen.alloc = 0..FleetSize-1
    PROVE  /\ Fresh \in Pops /\ IndexedIn(Saved(Fresh))
           /\ Saved(Fresh) \in Pops
           /\ Saved(Fresh) = [Fresh EXCEPT !.quarantine = Saved(Fresh).quarantine]
<1> USE Numbers
<1>1. Cardinality(gen.alloc) = FleetSize
  BY FS_Interval
<1> DEFINE issued == [i \in 1..FleetSize |-> i - 1]
<1>2. issued \in Seq(Slot) /\ Len(issued) = FleetSize
  BY DEF Slot
<1>3. NoDelta \in Deltas BY DEF NoDelta, Deltas, DeltaState
<1>4. Fresh = [gen |-> gen.id, rev |-> 0, births |-> gen.alloc, issued |-> issued, quarantine |-> {},
               tomb |-> {}, delta |-> NoDelta, writes |-> {}]
  <2>1. [i \in 1..Cardinality(gen.alloc) |-> i - 1] = issued BY <1>1, Zenon
  <2>2. Fresh = [NoPop EXCEPT !.gen = gen.id, !.births = gen.alloc, !.issued = issued]
    BY <2>1, Zenon DEF Fresh
  <2> HIDE DEF issued
  <2>3. QED BY <2>2 DEF NoPop
<1> HIDE DEF issued
<1>5. Fresh \in Pops
  BY <1>2, <1>3, <1>4 DEF Pops, JournalOK, Gens
<1>6. Fresh.births \cup Fresh.tomb \cup Fresh.delta.add \subseteq 0..(Len(Fresh.issued) - 1)
  BY <1>2, <1>4 DEF NoDelta
<1>7. /\ Saved(Fresh) \in Pops
      /\ Saved(Fresh) = [Fresh EXCEPT !.quarantine = Saved(Fresh).quarantine]
      /\ SlotsOf(Fresh, Fresh.births \cup Fresh.tomb \cup Fresh.delta.add) \subseteq Saved(Fresh).quarantine
  BY <1>5, <1>6, SavedTyped
<1>8. \A i \in 1..Len(issued) : issued[i] \in SlotsOf(Fresh, Fresh.births \cup Fresh.tomb \cup Fresh.delta.add)
  <2>1. TAKE i \in 1..Len(issued)
  <2>2. i - 1 \in Fresh.births BY <1>2, <1>4
  <2>3. Fresh.issued[(i - 1) + 1] = issued[i] BY <1>2, <1>4
  <2>4. QED BY <2>2, <2>3 DEF SlotsOf
<1>9. /\ Saved(Fresh).births = gen.alloc /\ Saved(Fresh).tomb = {} /\ Saved(Fresh).delta = NoDelta
      /\ Saved(Fresh).issued = issued
  BY <1>4, <1>7
<1>10. \A i, j \in 1..Len(issued) : issued[i] = issued[j] => i = j
  BY <1>2 DEF issued
<1>11. IndexedIn(Saved(Fresh))
  <2>1. \A i \in 1..Len(issued) : issued[i] \in Saved(Fresh).quarantine BY <1>7, <1>8
  <2>2. gen.alloc \subseteq 0..(Len(issued) - 1) BY <1>2
  <2>3. NoDelta.add = {} /\ NoDelta.remove = {} BY DEF NoDelta
  <2>4. QED BY <1>9, <1>10, <2>1, <2>2, <2>3, Zenon DEF IndexedIn
<1>12. QED BY <1>5, <1>7, <1>11

Appendable(s, Q, n, t) ==
    /\ s \in Seq(Slot) /\ n \in Nat /\ t \in [1..n -> Slot \ Q]
    /\ \A i, j \in 1..n : i < j => t[i] < t[j]
    /\ \A i \in 1..Len(s) : s[i] \in Q
    /\ \A i, j \in 1..Len(s) : s[i] = s[j] => i = j

Extends(s, n, t, u) ==
    /\ u \in Seq(Slot) /\ Len(u) = Len(s) + n
    /\ \A i \in 1..Len(s) : u[i] = s[i]
    /\ \A i \in (Len(s) + 1)..(Len(s) + n) : u[i] = t[i - Len(s)]
    /\ \A i, j \in 1..(Len(s) + n) : u[i] = u[j] => i = j

\* Free slots behind issued ones.
LEMMA Appended ==
    ASSUME NEW s, NEW Q, NEW n, NEW t, Appendable(s, Q, n, t)
    PROVE  Extends(s, n, t, s \o t)
<1> DEFINE u == s \o t
           m == Len(s)
<1>0. /\ s \in Seq(Slot) /\ n \in Nat /\ t \in [1..n -> Slot \ Q]
      /\ \A i, j \in 1..n : i < j => t[i] < t[j]
      /\ \A i \in 1..Len(s) : s[i] \in Q
      /\ \A i, j \in 1..Len(s) : s[i] = s[j] => i = j
  BY DEF Appendable
<1>1. t \in Seq(Slot) /\ Len(t) = n BY <1>0
<1>2. u \in Seq(Slot) /\ Len(u) = m + n BY <1>0, <1>1
<1>3. \A i \in 1..m : u[i] = s[i] BY <1>0, <1>1
<1>4. \A i \in (m + 1)..(m + n) : u[i] = t[i - m] BY <1>0, <1>1
<1>5. m \in Nat BY <1>0
<1> HIDE DEF u, m
<1>6. ASSUME NEW i \in 1..(m + n), NEW j \in 1..(m + n), i < j, u[i] = u[j] PROVE FALSE
  <2>1. CASE j <= m
    <3>1. i \in 1..m /\ j \in 1..m BY <1>0, <1>5, <1>6, <2>1
    <3>2. s[i] = s[j] BY <1>3, <1>6, <3>1
    <3>3. i = j BY <1>0, <3>1, <3>2 DEF m
    <3>4. QED BY <1>0, <1>5, <1>6, <3>3
  <2>2. CASE i > m
    <3>1. i - m \in 1..n /\ j - m \in 1..n /\ i - m < j - m
      BY <1>0, <1>5, <1>6, <2>2
    <3>2. i \in (m + 1)..(m + n) /\ j \in (m + 1)..(m + n) BY <1>0, <1>5, <1>6, <2>2
    <3>3. t[i - m] = t[j - m] BY <1>4, <1>6, <3>2
    <3>4. t[i - m] < t[j - m] BY <1>0, <3>1
    <3>5. t[i - m] \in Int BY <1>0, <3>1 DEF Slot
    <3>6. QED BY <3>3, <3>4, <3>5
  <2>3. CASE i <= m /\ j > m
    <3>1. i \in 1..m /\ j \in (m + 1)..(m + n) /\ j - m \in 1..n BY <1>0, <1>5, <1>6, <2>3
    <3>2. u[i] \in Q BY <1>0, <1>3, <3>1 DEF m
    <3>3. u[j] \notin Q BY <1>0, <1>4, <3>1
    <3>4. QED BY <1>6, <3>2, <3>3
  <2>4. QED BY <2>1, <2>2, <2>3, <1>0, <1>5, <1>6
<1>7. \A i, j \in 1..(m + n) : u[i] = u[j] => i = j
  BY <1>0, <1>5, <1>6
<1>8. Extends(s, n, t, u) BY <1>2, <1>3, <1>4, <1>7 DEF Extends, m
<1>9. QED BY <1>8 DEF u

\* The new indices follow those in use.
LEMMA NewIndices ==
    ASSUME NEW m \in Nat, NEW n \in Nat, NEW used, used \subseteq 0..(m - 1)
    PROVE  /\ m..(m + n - 1) \subseteq 0..(m + n - 1) /\ used \subseteq 0..(m + n - 1)
           /\ m..(m + n - 1) \cap used = {}
           /\ m + n <= MaxDevice => m..(m + n - 1) \subseteq Device
  BY Numbers DEF Device

\* What a reservation finds.
Reservation(p, o, slots) ==
    /\ p \in Pops /\ o \in Ops /\ rec \in [Ops -> Records]
    /\ Saved(p) \in Pops /\ Saved(p) = [p EXCEPT !.quarantine = Saved(p).quarantine]
    /\ IndexedIn(Saved(p))
    /\ rec[o].remove \subseteq p.births /\ Len(p.issued) + rec[o].add <= MaxDevice
    /\ slots \in Lowest(rec[o].add, FreeSlots(Saved(p)))

NewChange(p, o) ==
    [op |-> o, base |-> rec[o].base, state |-> "reserved", live |-> TRUE,
     add |-> Len(p.issued)..(Len(p.issued) + rec[o].add - 1), remove |-> rec[o].remove]

ReservedFrom(p, o, r) ==
    /\ r \in Pops /\ IndexedIn(r)
    /\ r.gen = p.gen /\ r.rev = p.rev /\ r.births = p.births /\ r.tomb = p.tomb /\ r.writes = {}
    /\ Len(r.issued) = Len(p.issued) + rec[o].add
    /\ r.delta = NewChange(p, o)

\* What a reservation writes.
LEMMA ReservedTyped ==
    ASSUME NEW p, NEW o, NEW slots, Reservation(p, o, slots)
    PROVE  ReservedFrom(p, o, Reserved(p, o, slots))
<1> DEFINE n == rec[o].add
           m == Len(p.issued)
           q == Saved(p)
           issued == p.issued \o slots
           bare == [q EXCEPT !.issued = issued, !.writes = {}, !.delta = NewChange(p, o)]
           r == Reserved(p, o, slots)
           used == p.births \cup p.tomb
<1>1. /\ n \in Nat /\ m \in Nat /\ rec[o].base \in Nat /\ rec[o].remove \subseteq Device /\ o \in Ops
      /\ p.issued \in Seq(Slot) /\ p.births \subseteq Device /\ m + n <= MaxDevice
      /\ rec[o].remove \subseteq p.births
  BY Numbers, SMTT(60) DEF Reservation, Records, Pops
<1>2. q \in Pops /\ q.issued = p.issued /\ q.births = p.births /\ q.tomb = p.tomb /\ q.gen = p.gen /\ q.rev = p.rev
  BY DEF Reservation, Pops
<1>3. /\ used \subseteq 0..(m - 1)
      /\ \A i \in 1..m : p.issued[i] \in q.quarantine
      /\ \A i, j \in 1..m : p.issued[i] = p.issued[j] => i = j
  BY <1>2 DEF Reservation, IndexedIn
<1>4. slots \in [1..n -> Slot \ q.quarantine] /\ \A i, j \in 1..n : i < j => slots[i] < slots[j]
  BY DEF Reservation, Lowest, FreeSlots
<1>r. r = Saved(bare)
  <2>1. bare = [q EXCEPT !.issued = @ \o slots, !.writes = {}, !.delta = NewChange(p, o)]
    BY <1>2
  <2>2. QED BY <2>1, Zenon DEF Reserved, NewChange
<1> HIDE DEF n, m, issued, bare, q, r, used
<1>5. /\ issued \in Seq(Slot) /\ Len(issued) = m + n
      /\ \A i \in 1..m : issued[i] = p.issued[i]
      /\ \A i \in (m + 1)..(m + n) : issued[i] = slots[i - m]
      /\ \A i, j \in 1..(m + n) : issued[i] = issued[j] => i = j
  <2>1. Appendable(p.issued, q.quarantine, n, slots)
    BY <1>1, <1>3, <1>4 DEF m, Appendable
  <2>2. Extends(p.issued, n, slots, p.issued \o slots)
    BY <2>1, Appended, Zenon
  <2>3. Extends(p.issued, n, slots, issued) BY <2>2 DEF issued
  <2>4. QED BY <2>3 DEF m, Extends
<1>6. /\ m..(m + n - 1) \subseteq 0..(m + n - 1) /\ used \subseteq 0..(m + n - 1)
      /\ m..(m + n - 1) \cap used = {}
      /\ m..(m + n - 1) \subseteq Device
  BY <1>1, <1>3, NewIndices
<1>7. NewChange(p, o) \in Deltas
  BY <1>1, <1>6 DEF Deltas, DeltaState, NewChange, m, n
<1>8. bare \in Pops
  BY <1>2, <1>5, <1>7 DEF Pops, bare
<1>9. /\ bare.births = p.births /\ bare.tomb = p.tomb /\ bare.gen = p.gen /\ bare.rev = p.rev
      /\ bare.issued = issued /\ bare.writes = {} /\ bare.delta = NewChange(p, o)
      /\ bare.quarantine = q.quarantine
  BY <1>2 DEF Pops, bare
<1>10. NewChange(p, o).add = m..(m + n - 1) /\ NewChange(p, o).remove = rec[o].remove
  BY DEF NewChange, m, n
<1>11. bare.births \cup bare.tomb \cup bare.delta.add \subseteq 0..(m + n - 1)
  BY <1>6, <1>9, <1>10 DEF used
<1>12. /\ r \in Pops /\ r = [bare EXCEPT !.quarantine = r.quarantine]
       /\ bare.quarantine \subseteq r.quarantine
       /\ SlotsOf(bare, bare.births \cup bare.tomb \cup bare.delta.add) \subseteq r.quarantine
  <2>1. bare.births \cup bare.tomb \cup bare.delta.add \subseteq 0..(Len(bare.issued) - 1)
    <3>1. Len(bare.issued) = m + n BY <1>5, <1>9
    <3>2. 0..(Len(bare.issued) - 1) = 0..(m + n - 1) BY <1>1, <3>1
    <3>3. QED BY <3>2, <1>11, Zenon
  <2>2. QED BY <2>1, <1>8, <1>r, SavedTyped, Zenon
<1>13. /\ r.births = p.births /\ r.tomb = p.tomb /\ r.gen = p.gen /\ r.rev = p.rev
       /\ r.issued = issued /\ r.writes = {} /\ r.delta = NewChange(p, o)
  BY <1>8, <1>9, <1>12 DEF Pops
<1>14. \A i \in 1..(m + n) : issued[i] \in r.quarantine
  <2>1. TAKE i \in 1..(m + n)
  <2>2. CASE i \in 1..m
    BY <1>3, <1>5, <1>9, <1>12, <2>2
  <2>3. CASE i > m
    <3>1. i - 1 \in bare.delta.add BY <1>1, <1>9, <1>10, <2>3
    <3>2. bare.issued[(i - 1) + 1] = issued[i] BY <1>9
    <3>3. issued[i] \in SlotsOf(bare, bare.births \cup bare.tomb \cup bare.delta.add)
      BY <3>1, <3>2 DEF SlotsOf
    <3>4. QED BY <3>3, <1>12
  <2>4. QED BY <2>2, <2>3, <1>1
<1>15. r.births \cup r.tomb \cup r.delta.add \cup r.delta.remove \subseteq 0..(m + n - 1)
  BY <1>1, <1>6, <1>10, <1>13 DEF used
<1>16. r.delta.add \cap r.delta.remove = {}
  BY <1>1, <1>6, <1>10, <1>13 DEF used
<1>17. IndexedIn(r)
  <2>1. Len(r.issued) = m + n BY <1>5, <1>13
  <2>2. r.births \cup r.tomb \cup r.delta.add \cup r.delta.remove \subseteq 0..(Len(r.issued) - 1)
    <3>1. 0..(Len(r.issued) - 1) = 0..(m + n - 1) BY <1>1, <2>1
    <3>2. QED BY <3>1, <1>15, Zenon
  <2>3. \A i \in 1..Len(r.issued) : r.issued[i] \in r.quarantine BY <2>1, <1>13, <1>14
  <2>4. \A i, j \in 1..Len(r.issued) : r.issued[i] = r.issued[j] => i = j BY <2>1, <1>5, <1>13
  <2>5. QED BY <1>16, <2>2, <2>3, <2>4, Zenon DEF IndexedIn
<1>18. ReservedFrom(p, o, r)
  BY <1>5, <1>12, <1>13, <1>17 DEF ReservedFrom, m, n
<1>19. QED BY <1>18 DEF r

\* A change of the state of a journal moves no device.
SameDevices(p, r) ==
    /\ r.gen = p.gen /\ r.rev = p.rev /\ r.births = p.births /\ r.tomb = p.tomb
    /\ r.issued = p.issued /\ p.quarantine \subseteq r.quarantine
    /\ r.delta.op = p.delta.op /\ r.delta.base = p.delta.base
    /\ r.delta.add = p.delta.add /\ r.delta.remove = p.delta.remove

\* A change of state keeps the indices in order.
LEMMA SameIndexed ==
    ASSUME NEW p, NEW r, SameDevices(p, r), IndexedIn(p)
    PROVE  IndexedIn(r)
<1>1. \A i \in 1..Len(r.issued) : r.issued[i] \in r.quarantine
  BY DEF SameDevices, IndexedIn
<1>2. QED BY <1>1, Zenon DEF SameDevices, IndexedIn

\* A journal with the state of its change replaced.
LEMMA Restated ==
    ASSUME NEW p \in Pops, NEW s \in DeltaState, NEW r, r = [p EXCEPT !.delta.state = s]
    PROVE  r \in Pops /\ SameDevices(p, r) /\ r.writes = p.writes /\ r.delta.state = s
  BY DEF Pops, Deltas, SameDevices

\* A journal whose change ran out of its lease.
LEMMA Outlived ==
    ASSUME NEW p \in Pops, NEW r, r = [p EXCEPT !.delta.live = FALSE]
    PROVE  /\ r \in Pops /\ SameDevices(p, r) /\ r.writes = p.writes
           /\ r.delta.state = p.delta.state
  BY DEF Pops, Deltas, SameDevices

\* What a controller's commit writes.
LEMMA CommittedTyped ==
    ASSUME JournalOK, Indexed, Committed
    PROVE  /\ pop' \in Pops /\ Indexed'
           /\ pop'.gen = pop.gen /\ pop'.rev = Delta.base + 1 /\ pop'.issued = pop.issued
           /\ pop'.births = (pop.births \cup Delta.add) \ Delta.remove
           /\ pop'.writes = pop.writes /\ pop'.delta = [Delta EXCEPT !.state = "committed"]
           /\ gen' \in Gens /\ gen'.id = gen.id
<1> DEFINE births == (pop.births \cup Delta.add) \ Delta.remove
           tomb == IF Delta.remove = {} THEN pop.tomb ELSE Delta.remove
           bare == [pop EXCEPT !.births = births, !.rev = Delta.base + 1, !.tomb = tomb,
                      !.delta.state = "committed"]
<1>1. /\ pop \in Pops /\ Delta \in Deltas /\ gen \in Gens
      /\ births \subseteq Device /\ tomb \subseteq Device /\ Delta.base + 1 \in Nat
  BY DEF JournalOK, Pops, Deltas, Delta
<1>2. pop' = Saved(bare) /\ gen' = [gen EXCEPT !.alloc = births]
  BY Zenon DEF Committed
<1> HIDE DEF births, tomb
<1>3. /\ bare \in Pops
      /\ bare.births = births /\ bare.tomb = tomb /\ bare.gen = pop.gen /\ bare.rev = Delta.base + 1
      /\ bare.issued = pop.issued /\ bare.writes = pop.writes /\ bare.quarantine = pop.quarantine
      /\ bare.delta = [Delta EXCEPT !.state = "committed"]
  BY <1>1 DEF Pops, Deltas, DeltaState, Delta
<1> HIDE DEF bare
<1>4. bare.delta.add = Delta.add /\ bare.delta.remove = Delta.remove
  BY <1>1, <1>3 DEF Deltas
<1>5. births \cup tomb \cup Delta.add \cup Delta.remove \subseteq 0..(Len(pop.issued) - 1)
  BY DEF Indexed, IndexedIn, Delta, births, tomb
<1>6. bare.births \cup bare.tomb \cup bare.delta.add \subseteq 0..(Len(bare.issued) - 1)
  BY <1>3, <1>4, <1>5
<1>7. /\ pop' \in Pops /\ pop' = [bare EXCEPT !.quarantine = pop'.quarantine]
      /\ bare.quarantine \subseteq pop'.quarantine
  BY <1>2, <1>3, <1>6, SavedTyped
<1>8. /\ pop'.births = births /\ pop'.tomb = tomb /\ pop'.gen = pop.gen /\ pop'.rev = Delta.base + 1
      /\ pop'.issued = pop.issued /\ pop'.writes = pop.writes /\ pop'.delta = bare.delta
  BY <1>3, <1>7 DEF Pops
<1>9. IndexedIn(pop')
  <2>1. \A i \in 1..Len(pop'.issued) : pop'.issued[i] \in pop'.quarantine
    BY <1>3, <1>7, <1>8 DEF Indexed, IndexedIn
  <2>2. pop'.births \cup pop'.tomb \cup pop'.delta.add \cup pop'.delta.remove \subseteq 0..(Len(pop'.issued) - 1)
    BY <1>4, <1>5, <1>8
  <2>3. pop'.delta.add \cap pop'.delta.remove = {}
    BY <1>4, <1>8 DEF Indexed, IndexedIn, Delta
  <2>4. \A i, j \in 1..Len(pop'.issued) : pop'.issued[i] = pop'.issued[j] => i = j
    BY <1>8 DEF Indexed, IndexedIn
  <2>5. QED BY <2>1, <2>2, <2>3, <2>4, Zenon DEF IndexedIn
<1>10. gen' \in Gens /\ gen'.id = gen.id
  BY <1>1, <1>2 DEF Gens
<1>11. QED BY <1>3, <1>7, <1>8, <1>9, <1>10 DEF Indexed, births

\* What the reservation of a change reads.
LEMMA PresentTyped ==
    ASSUME JournalOK, Indexed, Launched, Held
    PROVE  /\ Present \in Pops /\ Present.gen = gen.id
           /\ Saved(Present) \in Pops /\ IndexedIn(Saved(Present))
           /\ Saved(Present) = [Present EXCEPT !.quarantine = Saved(Present).quarantine]
<1>1. CASE Ours
  <2>1. Present = pop /\ pop \in Pops /\ pop.gen = gen.id BY <1>1 DEF Present, Ours, JournalOK
  <2>2. pop.births \cup pop.tomb \cup pop.delta.add \subseteq 0..(Len(pop.issued) - 1)
    BY DEF Indexed, IndexedIn
  <2>3. /\ Saved(pop) \in Pops /\ Saved(pop) = [pop EXCEPT !.quarantine = Saved(pop).quarantine]
        /\ pop.quarantine \subseteq Saved(pop).quarantine
    BY <2>1, <2>2, SavedTyped
  <2>4. SameDevices(pop, Saved(pop)) BY <2>1, <2>3 DEF SameDevices, Pops
  <2>5. IndexedIn(Saved(pop)) BY <2>4, SameIndexed DEF Indexed
  <2>6. QED BY <2>1, <2>3, <2>5
<1>2. CASE ~Ours
  <2>1. Present = Fresh /\ gen.alloc = 0..FleetSize-1 BY <1>2 DEF Present, Ours, Launched
  <2>2. Fresh.gen = gen.id BY DEF Fresh, NoPop
  <2>3. QED BY <2>1, <2>2, FreshTyped
<1>3. QED BY <1>1, <1>2

\* A reservation of a new change.
Reserves ==
    /\ Held /\ pc.op \in Ops /\ rec[pc.op] \in Records /\ Reservable(Present, pc.op)
    /\ Present.delta.op # pc.op
    /\ Len(Present.issued) \in Nat /\ Present.births \subseteq 0..(Len(Present.issued) - 1)
    /\ pop' \in Pops /\ Indexed'
    /\ pop'.gen = gen.id /\ pop'.rev = Present.rev /\ pop'.births = Present.births /\ pop'.writes = {}
    /\ Len(pop'.issued) = Len(Present.issued) + rec[pc.op].add
    /\ pop'.delta = NewChange(Present, pc.op)
    /\ gen' \in Gens /\ gen'.id = gen.id

\* A reservation is a new change, or finds the one it made before.
LEMMA ReserveShape ==
    ASSUME JournalOK, LedgerOK, AdapterOK, Located, Indexed, Launched, RuntimeReserve
    PROVE  Reserves \/ (UNCHANGED <<pop, gen>> /\ Present.delta.op = pc.op)
<1>1. CASE UNCHANGED <<pop, gen>> /\ Present.delta.op = pc.op BY <1>1
<1>2. CASE /\ Present.delta.op # pc.op /\ Reservable(Present, pc.op)
           /\ \E slots \in Lowest(rec[pc.op].add, FreeSlots(Saved(Present))) :
                 pop' = Reserved(Present, pc.op, slots)
           /\ gen' = [gen EXCEPT !.alloc = Present.births]
  <2>1. Held /\ pc.op \in Ops /\ rec \in [Ops -> Records]
    BY DEF RuntimeReserve, Held, Located, LedgerOK
  <2>2. PICK slots \in Lowest(rec[pc.op].add, FreeSlots(Saved(Present))) :
                 pop' = Reserved(Present, pc.op, slots)
    BY <1>2
  <2>3. /\ Present \in Pops /\ Present.gen = gen.id
        /\ Saved(Present) \in Pops /\ IndexedIn(Saved(Present))
        /\ Saved(Present) = [Present EXCEPT !.quarantine = Saved(Present).quarantine]
    BY <2>1, PresentTyped
  <2>4. Reservation(Present, pc.op, slots)
    BY <1>2, <2>1, <2>2, <2>3 DEF Reservation, Reservable
  <2>5. ReservedFrom(Present, pc.op, pop') BY <2>2, <2>4, ReservedTyped
  <2>7. /\ pop' \in Pops /\ IndexedIn(pop')
        /\ pop'.gen = gen.id /\ pop'.rev = Present.rev /\ pop'.births = Present.births /\ pop'.writes = {}
        /\ Len(pop'.issued) = Len(Present.issued) + rec[pc.op].add
        /\ pop'.delta = NewChange(Present, pc.op)
    BY <2>3, <2>5, Zenon DEF ReservedFrom
  <2>8. gen' \in Gens /\ gen'.id = gen.id
    <3>1. gen \in Gens /\ Present.births \subseteq Device BY <2>3 DEF JournalOK, Pops
    <3>2. gen' = [gen EXCEPT !.alloc = Present.births] BY <1>2
    <3>3. QED BY <3>1, <3>2 DEF Gens
  <2>9. Indexed' BY <2>7 DEF Indexed
  <2>10. Len(Present.issued) \in Nat /\ Present.births \subseteq 0..(Len(Present.issued) - 1)
    <3>1. Saved(Present).issued = Present.issued /\ Saved(Present).births = Present.births
      BY <2>3 DEF Pops
    <3>2. Present.issued \in Seq(Slot) BY <2>3 DEF Pops
    <3>3. Len(Present.issued) \in Nat BY <3>2
    <3>4. Saved(Present).births \subseteq 0..(Len(Saved(Present).issued) - 1) BY <2>3 DEF IndexedIn
    <3>5. QED BY <3>1, <3>3, <3>4
  <2>11. QED BY <1>2, <2>1, <2>7, <2>8, <2>9, <2>10, Zenon DEF Reserves
<1>3. QED BY <1>1, <1>2 DEF RuntimeReserve

\* What an authorization writes.
LEMMA AuthorizedShape ==
    ASSUME JournalOK, Indexed, NEW o \in Ops, NEW phase \in {"adding", "retiring"}, Authorized(o, phase)
    PROVE  /\ Ours /\ Delta.op = o
           /\ \/ /\ UNCHANGED <<pop, gen>>
                 /\ phase = "retiring" => Delta.state \in {"retiring", "committed"}
              \/ /\ pop' = [pop EXCEPT !.delta.state = phase]
                 /\ Delta.state \in {"reserved", "added_ready"} /\ Delta.live
                 /\ phase = "adding" => Delta.state = "reserved"
                 /\ gen' \in Gens /\ gen'.id = gen.id
<1>1. Ours /\ Delta.op = o BY DEF Authorized, Owned, Ours
<1>2. gen \in Gens /\ pop.births \cup Delta.add \subseteq Device BY DEF JournalOK, Pops, Deltas, Delta
<1>3. CASE UNCHANGED <<pop, gen>> /\ phase = "adding" BY <1>1, <1>3
<1>4. CASE UNCHANGED <<pop, gen>> /\ phase = "retiring" /\ Delta.state \in {"retiring", "committed"}
  BY <1>1, <1>4
<1>5. CASE /\ Delta.live
           /\ \/ phase = "adding" /\ Delta.state = "reserved"
              \/ phase = "retiring" /\ Delta.state = "added_ready"
              \/ phase = "retiring" /\ Delta.state = "reserved" /\ Delta.add = {}
           /\ pop' = [pop EXCEPT !.delta.state = phase]
           /\ gen' = IF phase = "adding" THEN [gen EXCEPT !.alloc = pop.births \cup Delta.add] ELSE gen
  <2>1. gen' \in Gens /\ gen'.id = gen.id BY <1>2, <1>5 DEF Gens
  <2>2. QED BY <1>1, <1>5, <2>1
<1>6. QED BY <1>3, <1>4, <1>5, Zenon DEF Authorized

\* What a step of the journal leaves alone.
Rewritten ==
    /\ gen' \in Gens /\ gen'.id = gen.id /\ pop' \in Pops /\ SameDevices(pop, pop')

\* A step that only moves the change to another state.
Moved(s) == Rewritten /\ pop'.writes = pop.writes /\ pop'.delta.state = s

\* A move of the change's state keeps its devices.
LEMMA MovedShape ==
    ASSUME JournalOK, NEW s \in DeltaState, pop' = [pop EXCEPT !.delta.state = s],
           gen' \in Gens, gen'.id = gen.id
    PROVE  Moved(s)
<1>1. pop \in Pops BY DEF JournalOK
<1>2. pop' \in Pops /\ SameDevices(pop, pop') /\ pop'.writes = pop.writes /\ pop'.delta.state = s
  BY <1>1, Restated, ZenonT(60)
<1>3. QED BY <1>2 DEF Moved, Rewritten

\* The lease of a change runs out and nothing else happens.
LEMMA ExpiresShape == JournalOK /\ DeltaExpires => Moved(Delta.state) /\ gen' = gen
<1> SUFFICES ASSUME JournalOK, DeltaExpires PROVE Moved(Delta.state) /\ gen' = gen
  OBVIOUS
<1>1. pop \in Pops /\ gen \in Gens /\ pop' = [pop EXCEPT !.delta.live = FALSE] /\ gen' = gen
  BY DEF JournalOK, DeltaExpires
<1>2. pop' \in Pops /\ SameDevices(pop, pop') /\ pop'.writes = pop.writes /\ pop'.delta.state = Delta.state
  BY <1>1, Outlived DEF Delta
<1>3. QED BY <1>1, <1>2 DEF Moved, Rewritten

\* The controller expires a change without births, or asks for recovery.
LEMMA ReconcileExpiredShape == JournalOK /\ ReconcileExpired => Moved("recovery_required") /\ gen' = gen
<1> SUFFICES ASSUME JournalOK, ReconcileExpired PROVE Moved("recovery_required") /\ gen' = gen
  OBVIOUS
<1>1. gen \in Gens /\ pop' = [pop EXCEPT !.delta.state = "recovery_required"] /\ gen' = gen
  BY DEF JournalOK, ReconcileExpired
<1>2. QED BY <1>1, MovedShape DEF DeltaState

\* A release freezes an unresolved change, or one that was never reserved.
LEMMA FreezeShape == JournalOK /\ FreezeChange => gen' = gen /\ (pop' = pop \/ Moved("quiesced"))
<1> SUFFICES ASSUME JournalOK, FreezeChange PROVE gen' = gen /\ (pop' = pop \/ Moved("quiesced"))
  OBVIOUS
<1>1. gen \in Gens /\ gen' = gen /\ pop' \in {pop, [pop EXCEPT !.delta.state = "quiesced"]}
  BY DEF JournalOK, FreezeChange
<1>2. QED BY <1>1, MovedShape DEF DeltaState

\* The end of a round quiesces an unresolved change.
LEMMA QuiesceShape == JournalOK /\ Quiesce => gen' = gen /\ (pop' = pop \/ Moved("quiesced"))
<1> SUFFICES ASSUME JournalOK, Quiesce PROVE gen' = gen /\ (pop' = pop \/ Moved("quiesced"))
  OBVIOUS
<1>1. gen \in Gens /\ gen' = gen
      /\ pop' = IF Unresolved THEN [pop EXCEPT !.delta.state = "quiesced"] ELSE pop
  BY DEF JournalOK, Quiesce
<1>2. QED BY <1>1, MovedShape DEF DeltaState

\* The confirmed stop leaves no journal, or an expired change.
LEMMA ConfirmShape ==
    JournalOK /\ Indexed /\ ConfirmStopped =>
        /\ gen' = gen
        /\ \/ pop' = pop
           \/ /\ Moved("expired") /\ Delta.state \in {"quiesced", "expired", "committed"}
              /\ Ours => pop.births = {}
<1> SUFFICES ASSUME JournalOK, Indexed, ConfirmStopped
             PROVE  /\ gen' = gen
                    /\ \/ pop' = pop
                       \/ /\ Moved("expired") /\ Delta.state \in {"quiesced", "expired", "committed"}
                          /\ Ours => pop.births = {}
  OBVIOUS
<1>1. gen \in Gens /\ gen' = gen /\ pop \in Pops BY DEF JournalOK, ConfirmStopped
<1>2. CASE Delta = NoDelta
  <2>1. pop' = pop BY <1>2, Zenon DEF ConfirmStopped
  <2>2. gen' = gen BY <1>1
  <2>3. QED BY <2>1, <2>2, Zenon
<1>3. CASE Delta # NoDelta
  <2> DEFINE bare == [pop EXCEPT !.delta.state = "expired"]
  <2>1. pop' = Saved(bare) BY <1>3 DEF ConfirmStopped
  <2>2. bare \in Pops /\ SameDevices(pop, bare) /\ bare.writes = pop.writes /\ bare.delta.state = "expired"
    BY <1>1, Restated DEF DeltaState
  <2> HIDE DEF bare
  <2>3. IndexedIn(bare) BY <2>2, SameIndexed DEF Indexed
  <2>4. bare.births \cup bare.tomb \cup bare.delta.add \subseteq 0..(Len(bare.issued) - 1)
    BY <2>3 DEF IndexedIn
  <2>5. /\ pop' \in Pops /\ pop' = [bare EXCEPT !.quarantine = pop'.quarantine]
        /\ bare.quarantine \subseteq pop'.quarantine
    BY <2>1, <2>2, <2>4, SavedTyped
  <2>6. /\ pop'.gen = bare.gen /\ pop'.rev = bare.rev /\ pop'.births = bare.births /\ pop'.tomb = bare.tomb
        /\ pop'.issued = bare.issued /\ pop'.delta = bare.delta /\ pop'.writes = bare.writes
    BY <2>2, <2>5 DEF Pops
  <2>7. SameDevices(pop, pop') BY <2>2, <2>5, <2>6 DEF SameDevices
  <2>8. Moved("expired") BY <1>1, <2>2, <2>5, <2>6, <2>7 DEF Moved, Rewritten
  <2>9. Delta.state \in {"quiesced", "expired", "committed"} /\ (gen.id > pop.gen \/ pop.births = {})
    BY <1>3 DEF ConfirmStopped
  <2>10. Ours => pop.births = {}
    <3>1. gen.id \in Nat BY <1>1, Numbers DEF Gens
    <3>2. QED BY <2>9, <3>1 DEF Ours
  <2>11. QED BY <1>1, <2>8, <2>9, <2>10
<1>4. QED BY <1>2, <1>3

\* A dispatch marks its write in the journal and moves the change on.
LEMMA DispatchShape ==
    ASSUME JournalOK, HistoryOK, NEW w \in Write, Dispatch(w)
    PROVE  /\ Rewritten /\ gen' = gen /\ w \notin pop.writes /\ pop'.writes = pop.writes \cup {w}
           /\ pop'.delta = Delta
           /\ sent' = [sent EXCEPT ![w] = sent[w] + 1]
<1>1. /\ pop \in Pops /\ gen \in Gens /\ gen' = gen /\ w \notin pop.writes
      /\ pop' = [pop EXCEPT !.writes = @ \cup {w}]
      /\ sent' = [sent EXCEPT ![w] = sent[w] + 1]
  BY DEF Dispatch, Unmarked, JournalOK
<1>2. pop' \in Pops /\ SameDevices(pop, pop') /\ pop'.writes = pop.writes \cup {w} /\ pop'.delta = Delta
  BY <1>1 DEF Pops, SameDevices, Delta
<1>3. QED BY <1>1, <1>2 DEF Rewritten

\* The three shapes of a step of the journal.
LEMMA JournalShape ==
    ASSUME JournalOK, LedgerOK, AdapterOK, HistoryOK, Located, Indexed, Launched, JournalStep
    PROVE  Reserves \/ Committed \/ Rewritten \/ UNCHANGED <<gen, pop>>
<1>1. CASE RuntimeReserve BY <1>1, ReserveShape
<1>2. CASE Consume \/ Retire
  <2>1. CASE UNCHANGED <<gen, pop>> BY <2>1
  <2>2. CASE Me \in Ops /\ Authorized(Me, "adding")
    BY <2>2, AuthorizedShape, MovedShape DEF DeltaState, Moved
  <2>3. CASE Me \in Ops /\ Authorized(Me, "retiring")
    BY <2>3, AuthorizedShape, MovedShape DEF DeltaState, Moved
  <2>4. QED BY <1>2, <2>1, <2>2, <2>3 DEF Consume, Retire, Authority
<1>3. CASE DeltaExpires BY <1>3, ExpiresShape DEF Moved
<1>4. CASE ReconcileExpired BY <1>4, ReconcileExpiredShape DEF Moved
<1>5. CASE ReconcileAdded \/ ReconcileRetired
  <2>1. CASE Committed BY <2>1
  <2>2. CASE pop' = [pop EXCEPT !.delta.state = "added_ready"] /\ UNCHANGED gen
    BY <2>2, MovedShape DEF DeltaState, Moved, JournalOK
  <2>3. QED BY <1>5, <2>1, <2>2 DEF ReconcileAdded, ReconcileRetired
<1>6. ASSUME NEW d \in Device, Create(d) \/ Deregister(d) \/ Delete(d) PROVE Rewritten
  <2>1. <<d, "create">> \in Write /\ <<d, "deregister">> \in Write /\ <<d, "delete">> \in Write
    BY DEF Write
  <2>2. QED BY <1>6, <2>1, DispatchShape DEF Create, Deregister, Delete
<1>7. CASE Quiesce BY <1>7, QuiesceShape DEF Moved
<1>8. CASE ConfirmStopped BY <1>8, ConfirmShape DEF Moved
<1>9. CASE FreezeChange BY <1>9, FreezeShape DEF Moved
<1>10. QED BY <1>9, <1>1, <1>2, <1>3, <1>4, <1>5, <1>6, <1>7, <1>8 DEF JournalStep

\* Every step keeps generation and journal well typed and indexed.
LEMMA JournalTypes ==
    ASSUME JournalOK, LedgerOK, AdapterOK, HistoryOK, Located, Indexed, Launched, JournalStep
    PROVE  JournalOK' /\ Indexed' /\ gen'.id = gen.id
<1>1. CASE Reserves BY <1>1 DEF Reserves, JournalOK
<1>2. CASE Committed BY <1>2, CommittedTyped DEF JournalOK
<1>3. CASE Rewritten BY <1>3, SameIndexed DEF Rewritten, JournalOK, Indexed
<1>4. CASE UNCHANGED <<gen, pop>> BY <1>4 DEF JournalOK, Indexed
<1>5. QED BY <1>1, <1>2, <1>3, <1>4, JournalShape

\* What a launch leaves.
LEMMA GenTypes ==
    ASSUME JournalOK, HoldOK, GenStep
    PROVE  JournalOK' /\ pop' = pop /\ (gen' = gen \/ gen'.id = gen.id + 1)
<1> USE Numbers
<1>1. gen \in Gens /\ gen.id \in 0..MaxGen /\ 0..FleetSize-1 \subseteq Device
  BY DEF JournalOK, Gens, Device
<1>2. pop' = pop BY DEF GenStep, ConsumeHold, OrdinaryStart, OrdinaryStop, StopFleet
<1>3. CASE gen' = gen BY <1>2, <1>3 DEF JournalOK
<1>4. CASE gen.id < MaxGen /\ \E D \in SUBSET Device : Launch(D)
  <2>1. PICK D \in SUBSET Device : gen' = [id |-> gen.id + 1, alloc |-> D] BY <1>4 DEF Launch
  <2>2. gen.id + 1 \in 0..MaxGen BY <1>1, <1>4
  <2>3. QED BY <1>2, <2>1, <2>2 DEF JournalOK, Gens
<1>5. QED BY <1>1, <1>3, <1>4 DEF GenStep, ConsumeHold, OrdinaryStart, OrdinaryStop, StopFleet

-----------------------------------------------------------------------------
\* The adapter and the ledger

\* Which phases a port's intention and receipt lead to.
LEMMA Intentions ==
    /\ DOMAIN Receipt = {"capacity_pending", "admissions_pending", "inherited_pending", "withdrawn_pending"}
    /\ \A x \in DOMAIN Receipt : Receipt[x] \in {"capacity", "admissions", "inherited", "withdrawn"}
    /\ Receipt["withdrawn_pending"] = "withdrawn"
    /\ \A x \in DOMAIN Receipt : x # "withdrawn_pending" => Receipt[x] # "withdrawn"
    /\ Receipt["admissions_pending"] = "admissions"
    /\ \A x \in DOMAIN Receipt : x # "admissions_pending" => Receipt[x] # "admissions"
    /\ \A x \in DOMAIN Intention : Intention[x] \in DOMAIN Receipt
    /\ \A x \in DOMAIN Intention :
          Intention[x] = "withdrawn_pending" => x \in {"inherited", "withdrawn_pending"}
  BY DEF Receipt, Intention

\* A checkpoint moves one operation of the fleet in place.
CheckpointAt(phase) ==
    /\ Me \in Ops /\ round = "active" /\ rec[Me].fleet = fleet /\ snap.pending = Me
    /\ rec' \in [Ops -> Records]
    /\ \A o \in Ops : rec'[o] = IF o = Me THEN [rec[o] EXCEPT !.phase = phase] ELSE rec[o]

\* A checkpoint moves the operation of the round that is pending.
LEMMA CheckpointShape ==
    ASSUME LedgerOK, NEW phase \in Phase, Checkpoint(phase)
    PROVE  CheckpointAt(phase)
  BY DEF LedgerOK, Checkpoint, CheckpointAt, Authority, Records

\* How the adapter's steps move its operation.
Moves(to, at) == CheckpointAt(to) /\ pc' = [pc EXCEPT !.at = at]

\* A receipt moves the operation to its phase, and a withdrawal to the exclusion.
LEMMA NoteShape ==
    ASSUME LedgerOK, Located, NotePort
    PROVE  /\ Now \in DOMAIN Receipt
           /\ CheckpointAt(Receipt[Now])
           /\ pc' = [pc EXCEPT !.at = IF Now = "withdrawn_pending" THEN "exclude" ELSE "resume"]
<1>1. Now \in DOMAIN Receipt BY DEF Located, NotePort
<1>2. Receipt[Now] \in Phase BY <1>1, Intentions DEF Phase
<1>3. QED BY <1>1, <1>2, CheckpointShape DEF NotePort, Goto

\* A port is called after its intention was recorded.
LEMMA StartShape ==
    ASSUME LedgerOK, AdapterOK, Located, StartPort
    PROVE  /\ Now \in DOMAIN Intention /\ Me \in Ops /\ round = "active" /\ rec[Me].fleet = fleet
           /\ \/ rec' = rec /\ Intention[Now] = Now
              \/ CheckpointAt(Intention[Now])
           /\ pc' = [pc EXCEPT !.at = "port"]
<1>1. Now \in DOMAIN Intention BY DEF StartPort
<1>2. Intention[Now] \in Phase BY <1>1, Intentions DEF Phase
<1>3. CASE Intention[Now] = Now
  BY <1>1, <1>3 DEF StartPort, Goto, Authority
<1>4. CASE Intention[Now] # Now
  <2>1. CheckpointAt(Intention[Now]) BY <1>2, <1>4, CheckpointShape DEF StartPort
  <2>2. QED BY <1>1, <2>1 DEF CheckpointAt, StartPort, Goto
<1>5. QED BY <1>3, <1>4

\* Every step keeps the ledger well typed.
LEMMA LedgerTypes ==
    ASSUME HoldOK, JournalOK, LedgerOK, AdapterOK, Located, [Next]_vars
    PROVE  LedgerOK'
<1> USE Numbers
<1>0. /\ snap \in Snaps /\ rec \in [Ops -> Records] /\ round \in Rounds /\ fleet \in 0..MaxGen
      /\ gen.id \in 0..MaxGen /\ gen.alloc \subseteq Device
  BY DEF LedgerOK, JournalOK, Gens
<1>1. ASSUME NEW o \in Owners, ConsumeHold(o) PROVE LedgerOK'
  <2>1. snap' \in Snaps BY <1>1 DEF ConsumeHold, Snaps
  <2>2. fleet' \in 0..MaxGen BY <1>0, <1>1 DEF ConsumeHold
  <2>3. QED BY <1>0, <1>1, <2>1, <2>2 DEF ConsumeHold, LedgerOK, Rounds
<1>2. CASE OrdinaryStart \/ OrdinaryStop \/ Close \/ Quiesce \/ StopFleet \/ ConfirmStopped
  BY <1>0, <1>2
  DEF OrdinaryStart, OrdinaryStop, Close, Quiesce, StopFleet, ConfirmStopped, LedgerOK, Rounds
<1>3. CASE Establish BY <1>0, <1>3 DEF Establish, LedgerOK, Rounds, Snaps
<1>4. ASSUME NEW o \in Ops, Submit(o) PROVE LedgerOK'
  <2>1. CASE UNCHANGED <<rec, snap>> BY <1>0, <1>4, <2>1 DEF Submit, LedgerOK
  <2>2. CASE /\ \E add \in 0..MaxAdd, remove \in SUBSET snap.members :
                rec' = [rec EXCEPT ![o] = [phase |-> "reserved", fleet |-> fleet,
                                           base |-> snap.rev, add |-> add, remove |-> remove]]
             /\ snap' = [snap EXCEPT !.pending = o]
    <3>1. snap' \in Snaps BY <1>0, <2>2 DEF Snaps
    <3>2. PICK add \in 0..MaxAdd, remove \in SUBSET snap.members :
                rec' = [rec EXCEPT ![o] = [phase |-> "reserved", fleet |-> fleet,
                                           base |-> snap.rev, add |-> add, remove |-> remove]]
      BY <2>2
    <3>3. [phase |-> "reserved", fleet |-> fleet, base |-> snap.rev, add |-> add, remove |-> remove] \in Records
      BY <1>0, <3>2 DEF Records, Snaps, Phase
    <3>4. rec' \in [Ops -> Records] BY <1>0, <3>2, <3>3
    <3>5. QED BY <1>0, <1>4, <3>1, <3>4 DEF Submit, LedgerOK
  <2>3. QED BY <1>4, <2>1, <2>2 DEF Submit
<1>5. CASE KeepReservation \/ StartConsume \/ NoteConsumed \/ NoteRetired
  <2>1. /\ Checkpoint("held") \/ Checkpoint("consume_pending") \/ Checkpoint("adding") \/ Checkpoint("retiring")
        /\ UNCHANGED <<snap, round, fleet>>
    BY <1>5 DEF KeepReservation, StartConsume, NoteConsumed, NoteRetired
  <2>2. QED BY <2>1, CheckpointShape DEF CheckpointAt, LedgerOK, Phase
<1>6. CASE StartPort
  BY <1>0, <1>6, StartShape DEF StartPort, CheckpointAt, LedgerOK
<1>7. CASE NotePort
  BY <1>0, <1>7, NoteShape DEF NotePort, CheckpointAt, LedgerOK
<1>8. CASE Exclude
  <2>1. CheckpointAt("retire_pending") BY <1>8, CheckpointShape DEF Exclude, Phase
  <2>2. snap' = [snap EXCEPT !.excluded = rec[Me].remove] BY <1>8 DEF Exclude
  <2>3. snap' \in Snaps BY <1>0, <2>1, <2>2 DEF CheckpointAt, Records, Snaps
  <2>4. QED BY <1>0, <1>8, <2>1, <2>3 DEF Exclude, CheckpointAt, LedgerOK
<1>9. CASE Readback
  <2>1. rec' = rec \/ Checkpoint("native_ready") BY <1>9 DEF Readback
  <2>2. QED BY <1>0, <1>9, <2>1, CheckpointShape DEF Readback, CheckpointAt, LedgerOK, Phase
<1>10. CASE Publish
  <2>1. CheckpointAt("completed") BY <1>10, CheckpointShape DEF Publish, Phase
  <2>2. snap' = [rev |-> rec[Me].base + 1, members |-> proof.members, pending |-> NoOne, excluded |-> {}]
    BY <1>10 DEF Publish
  <2>3. rec[Me].base \in Nat BY <1>0, <2>1 DEF CheckpointAt, Records
  <2>4. snap' \in Snaps BY <2>2, <2>3 DEF Snaps, AdapterOK, Proofs
  <2>5. QED BY <1>0, <1>10, <2>1, <2>4 DEF Publish, CheckpointAt, LedgerOK
<1>11. CASE UNCHANGED <<snap, rec, round, fleet>> BY <1>11 DEF LedgerOK
<1>12. QED
  BY <1>1, <1>2, <1>3, <1>4, <1>5, <1>6, <1>7, <1>8, <1>9, <1>10, <1>11, LedgerFrame DEF LedgerStep, vars

\* What a port serves.
LEMMA PortShape ==
    ASSUME JournalOK, WorldOK, Now \in DOMAIN Receipt, NEW served, Port(served)
    PROVE  /\ admitted' \subseteq Device /\ policy' \subseteq Device
           /\ Now = "admissions_pending" =>
                 admitted' = admitted \cup (served \cap Delta.add) /\ policy' = policy
           /\ Now # "admissions_pending" => admitted' \subseteq admitted
           /\ Now # "inherited_pending" => policy' \subseteq policy
           /\ Now = "inherited_pending" => admitted' = admitted /\ policy' = policy \cup (served \cap Delta.add)
           /\ Now = "withdrawn_pending" => /\ policy' = policy \ (served \cap Delta.remove)
                                           /\ admitted' = admitted \ (served \cap Delta.remove)
           /\ Now = "capacity_pending" => admitted' = admitted /\ policy' = policy
<1>1. Now \in {"capacity_pending", "admissions_pending", "inherited_pending", "withdrawn_pending"}
  BY Intentions
<1>2. Delta.add \subseteq Device BY DEF JournalOK, Pops, Deltas, Delta
<1>3. CASE Now = "capacity_pending" BY <1>3 DEF Port, ports, WorldOK
<1>4. CASE Now = "admissions_pending" BY <1>2, <1>4 DEF Port, WorldOK
<1>5. CASE Now = "inherited_pending" BY <1>2, <1>5 DEF Port, WorldOK
<1>6. CASE Now = "withdrawn_pending" BY <1>6 DEF Port, WorldOK
<1>7. QED BY <1>1, <1>3, <1>4, <1>5, <1>6

\* Every step keeps devices, admissions and deliveries well typed.
LEMMA WorldTypes ==
    ASSUME JournalOK, LedgerOK, WorldOK, Located, [Next]_vars
    PROVE  WorldOK'
<1>1. CASE Establish BY <1>1 DEF Establish, WorldOK, JournalOK, Gens, measuring
<1>2. CASE CallPort
  <2>1. Now \in DOMAIN Receipt BY <1>2 DEF CallPort, Located
  <2>2. Port(Device) BY <1>2 DEF CallPort
  <2>3. admitted' \subseteq Device /\ policy' \subseteq Device BY <2>1, <2>2, PortShape
  <2>4. QED BY <1>2, <2>3 DEF CallPort, WorldOK, world, measuring
<1>3. CASE PortFails
  <2>1. Now \in DOMAIN Receipt BY <1>3 DEF PortFails, Located
  <2>2. PICK served \in SUBSET (Delta.add \cup Delta.remove) : Port(served) BY <1>3 DEF PortFails
  <2>3. admitted' \subseteq Device /\ policy' \subseteq Device BY <2>1, <2>2, PortShape
  <2>4. QED BY <1>3, <2>3 DEF PortFails, WorldOK, world, measuring
<1>4. ASSUME NEW d \in Device, Create(d) \/ Deregister(d) \/ Delete(d) PROVE WorldOK'
  <2>1. \E w \in Write : Dispatch(w) BY <1>4 DEF Create, Deregister, Delete, Write
  <2>2. QED BY <2>1 DEF Dispatch, WorldOK, ports, measuring
<1>5. ASSUME NEW w \in Write, Deliver(w) PROVE WorldOK'
  <2>1. w[1] \in Device BY DEF Write
  <2>2. w[2] \in {"create", "deregister", "delete"} BY DEF Write
  <2>3. pods' \subseteq Device /\ native' \subseteq Device
    BY <1>5, <2>1, <2>2 DEF Deliver, WorldOK
  <2>4. QED BY <1>5, <2>3 DEF Deliver, WorldOK, ports, measuring
<1>6. CASE Release \/ RetirePods \/ ConfirmStopped \/ EndWindow \/ Crash
  BY <1>6 DEF Release, FreezeChange, UndoChange, CloseFleet, RestorePolicies, RetirePods, ConfirmStopped,
     EndWindow, Crash, WorldOK, world, ports, measuring
<1>7. CASE BeginWindow BY <1>7 DEF BeginWindow, WorldOK, world, ports, LedgerOK, Snaps
<1>8. CASE UNCHANGED <<pods, native, flight, admitted, policy, release, window>> BY <1>8 DEF WorldOK
<1>9. QED BY <1>1, <1>2, <1>3, <1>4, <1>5, <1>6, <1>7, <1>8, WorldFrame
          DEF WorldStep, vars

\* Every step keeps the adapter well typed.
LEMMA AdapterTypes ==
    ASSUME JournalOK, AdapterOK, [Next]_vars
    PROVE  AdapterOK'
<1> USE DEF AdapterOK, Calls, At, Proofs, Goto
<1>1. ASSUME NEW o \in Ops, Submit(o) PROVE AdapterOK' BY <1>1 DEF Submit
<1>2. CASE StartReservation \/ RuntimeReserve \/ KeepReservation \/ StartPort \/ CallPort \/ NotePort
  BY <1>2 DEF StartReservation, RuntimeReserve, KeepReservation, StartPort, CallPort, NotePort
<1>3. CASE StartConsume \/ Consume \/ NoteConsumed \/ Exclude \/ Retire \/ NoteRetired
  BY <1>3 DEF StartConsume, Consume, NoteConsumed, Exclude, Retire, NoteRetired
<1>4. CASE PortFails \/ Publish \/ AdapterFails \/ Crash
  BY <1>4 DEF PortFails, Publish, AdapterFails, Crash, Idle, NoProof
<1>5. CASE Readback
  <2>1. pop.rev \in Nat /\ Cohort \subseteq Device BY DEF JournalOK, Pops, Deltas, Delta, Cohort
  <2>2. QED BY <1>5, <2>1 DEF Readback
<1>6. CASE UNCHANGED <<pc, proof>> BY <1>6
<1>7. QED BY <1>1, <1>2, <1>3, <1>4, <1>5, <1>6, AdapterFrame DEF AdapterStep, Change, vars

\* Every step keeps the history well typed.
LEMMA HistoryTypes ==
    ASSUME JournalOK, HistoryOK, WorldOK, [Next]_vars
    PROVE  HistoryOK'
<1> USE Numbers
<1>1. ASSUME NEW o \in Owners, ConsumeHold(o) PROVE HistoryOK'
  <2>1. sent' \in [Write -> Nat] BY <1>1 DEF ConsumeHold
  <2>2. QED BY <1>1, <2>1 DEF ConsumeHold, HistoryOK
<1>2. ASSUME NEW d \in Device, Create(d) \/ Deregister(d) \/ Delete(d) PROVE HistoryOK'
  <2>1. PICK w \in Write : Dispatch(w) BY <1>2 DEF Create, Deregister, Delete, Write
  <2>2. sent' \in [Write -> Nat] BY <2>1, DispatchShape DEF HistoryOK
  <2>3. QED BY <2>1, <2>2 DEF Dispatch, HistoryOK, measuring
<1>3. CASE Crash BY <1>3 DEF Crash, HistoryOK
<1>4. CASE UNCHANGED <<dirty, sent, crashes>> BY <1>4 DEF HistoryOK
<1>5. QED BY <1>1, <1>2, <1>3, <1>4, HistoryFrame DEF HistoryStep, vars

\* What a step of the adapter makes of its operation.
LEMMA MovesShape ==
    ASSUME LedgerOK, AdapterOK, NEW to, NEW at, CheckpointAt(to), pc' = [pc EXCEPT !.at = at]
    PROVE  Me \in Ops /\ pc'.op = Me /\ pc'.at = at /\ Now' = to
<1>1. Me \in Ops /\ rec'[Me].phase = to BY DEF CheckpointAt, LedgerOK, Records
<1>2. pc'.op = Me /\ pc'.at = at BY DEF AdapterOK, Calls, Me
<1>3. QED BY <1>1, <1>2 DEF Now, Me

\* Where the adapter is follows from where it was.
LEMMA LocatedPreserved ==
    ASSUME LedgerOK, AdapterOK, Located, [Next]_vars
    PROVE  Located'
<1>1. ASSUME NEW o \in Ops, Submit(o) PROVE Located'
  <2>1. pc' = [op |-> o, at |-> "resume"] BY <1>1 DEF Submit
  <2>2. rec'[o].phase # "none" BY <1>1 DEF Submit, LedgerOK, Records
  <2>3. QED BY <2>1, <2>2 DEF Located
<1>2. CASE StartReservation \/ RuntimeReserve \/ CallPort \/ Consume \/ Retire
  BY <1>2
  DEF StartReservation, RuntimeReserve, CallPort, Consume, Retire, Goto, Located, Now, Me, ledger,
     Authority, AdapterOK, Calls
<1>3. CASE KeepReservation \/ StartConsume \/ NoteConsumed \/ NoteRetired
  <2>1. CheckpointAt("held") \/ CheckpointAt("consume_pending") \/ CheckpointAt("adding") \/ CheckpointAt("retiring")
    BY <1>3, CheckpointShape DEF KeepReservation, StartConsume, NoteConsumed, NoteRetired, Phase
  <2>2. pc' = [pc EXCEPT !.at = "resume"] \/ (pc' = [pc EXCEPT !.at = "consume"] /\ CheckpointAt("consume_pending"))
    BY <1>3, CheckpointShape DEF KeepReservation, StartConsume, NoteConsumed, NoteRetired, Phase, Goto
  <2>3. CASE pc' = [pc EXCEPT !.at = "resume"]
    <3>1. pc'.at = "resume" /\ Now' \in {"held", "consume_pending", "adding", "retiring"}
      BY <2>1, <2>3, MovesShape
    <3>2. QED BY <3>1 DEF Located, Now, Me
  <2>4. CASE pc' = [pc EXCEPT !.at = "consume"] /\ CheckpointAt("consume_pending")
    <3>1. pc'.at = "consume" /\ Now' = "consume_pending" BY <2>4, MovesShape
    <3>2. QED BY <3>1 DEF Located, Now, Me
  <2>5. QED BY <2>2, <2>3, <2>4
<1>4. CASE StartPort
  <2>1. /\ Now \in DOMAIN Intention /\ Intention[Now] \in DOMAIN Receipt /\ Me \in Ops
        /\ pc' = [pc EXCEPT !.at = "port"]
        /\ rec'[Me].phase = Intention[Now]
    <3>1. Now \in DOMAIN Intention /\ Me \in Ops /\ pc' = [pc EXCEPT !.at = "port"]
      BY <1>4, StartShape
    <3>2. Intention[Now] \in DOMAIN Receipt BY <3>1, Intentions
    <3>3. CASE rec' = rec /\ Intention[Now] = Now BY <3>1, <3>2, <3>3 DEF Now
    <3>4. CASE CheckpointAt(Intention[Now])
      <4>1. Now' = Intention[Now] /\ pc'.op = Me BY <3>1, <3>4, MovesShape
      <4>2. rec'[Me].phase = Intention[Now] BY <3>1, <4>1 DEF Now, Me
      <4>3. QED BY <3>1, <3>2, <4>2
    <3>5. QED BY <1>4, <3>3, <3>4, StartShape
  <2>2. pc'.op = Me /\ pc'.at = "port" BY <2>1 DEF AdapterOK, Calls, Me
  <2>3. Now' = Intention[Now] BY <2>1, <2>2 DEF Now, Me
  <2>4. DOMAIN Receipt' = DOMAIN Receipt BY DEF Receipt
  <2>5. Now' # "none" BY <2>1, <2>3, Intentions
  <2>6. QED BY <2>1, <2>2, <2>3, <2>4, <2>5 DEF Located, Now, Me
<1>5. CASE NotePort
  <2>1. /\ Now \in DOMAIN Receipt /\ CheckpointAt(Receipt[Now]) /\ Receipt[Now] # "none"
        /\ Now = "withdrawn_pending" => Receipt[Now] = "withdrawn"
        /\ pc' = [pc EXCEPT !.at = IF Now = "withdrawn_pending" THEN "exclude" ELSE "resume"]
    BY <1>5, NoteShape, Intentions
  <2>2. /\ pc'.op = Me /\ pc'.at = IF Now = "withdrawn_pending" THEN "exclude" ELSE "resume"
        /\ Me \in Ops /\ rec'[Me].phase = Receipt[Now]
    BY <2>1 DEF AdapterOK, Calls, Me, CheckpointAt, LedgerOK, Records
  <2>3. Now' = Receipt[Now] BY <2>2 DEF Now, Me
  <2>4. QED BY <2>1, <2>2, <2>3 DEF Located, Now, Me
<1>6. CASE Exclude
  <2>1. CheckpointAt("retire_pending") /\ pc' = [pc EXCEPT !.at = "retire"]
    BY <1>6, CheckpointShape DEF Exclude, Phase, Goto
  <2>2. QED BY <2>1 DEF CheckpointAt, Located, Now, Me, AdapterOK, Calls, LedgerOK, Records
<1>7. CASE Readback
  <2>1. pc' = [pc EXCEPT !.at = "publish"] /\ Now \in {"retire_pending", "retiring", "native_ready"}
    BY <1>7 DEF Readback, Goto
  <2>2. (rec' = rec /\ Now = "native_ready") \/ CheckpointAt("native_ready")
    BY <1>7, CheckpointShape DEF Readback, Phase
  <2>3. Me \in Ops /\ pc'.op = Me /\ pc'.at = "publish" /\ Me' = Me
    BY <1>7, <2>1 DEF Readback, Located, Me, AdapterOK, Calls
  <2>4. rec'[Me].phase = "native_ready"
    BY <2>2, <2>3 DEF CheckpointAt, LedgerOK, Records, Now
  <2>5. Now' = "native_ready" BY <2>3, <2>4 DEF Now
  <2>6. QED BY <2>3, <2>4, <2>5 DEF Located, Me
<1>8. CASE PortFails \/ Publish \/ AdapterFails \/ Crash
  <2>1. pc' = Idle BY <1>8 DEF PortFails, Publish, AdapterFails, Crash
  <2>2. pc'.op \notin Ops /\ pc'.at = "idle" BY <2>1, PopulationAssumption DEF Idle
  <2>3. QED BY <2>2 DEF Located, Now, Me
<1>9. CASE UNCHANGED <<pc, rec>> BY <1>9 DEF Located, Now, Me, Receipt
<1>10. CASE Holding \/ Reconcile \/ Release \/ Cleanup \/ BeginWindow \/ EndWindow \/ UNCHANGED vars
  <2>1. UNCHANGED <<pc, rec>>
    BY <1>10
    DEF Holding, Reconcile, Release, Cleanup, BeginWindow, EndWindow, ReserveHold, ReleaseHold, ConsumeHold,
       HoldExpires, OrdinaryStart, OrdinaryStop, Establish, DeltaExpires, ReconcileExpired, ReconcileAdded,
       ReconcileRetired, Create, Deregister, Delete, Dispatch, Deliver, FreezeChange, UndoChange, CloseFleet,
       RestorePolicies, Close, Quiesce, StopFleet, RetirePods, ConfirmStopped, adapter, ledger, vars
  <2>2. QED BY <1>9, <2>1
<1>11. QED
  BY <1>1, <1>2, <1>3, <1>4, <1>5, <1>6, <1>7, <1>8, <1>10 DEF Next, Change

-----------------------------------------------------------------------------
\* The writes of a change

\* The journal of the present change has every write that matters to it.
Journalled ==
    Ours =>
    /\ Delta.state \in {"none", "reserved"} => pop.writes = {}
    /\ Delta.state \in {"committed", "expired"} => pop.births \cap Delta.remove = {}
    /\ \A d \in Device : sent[<<d, "create">>] > 0 =>
          d \in Indices /\ (d \in Delta.add => <<d, "create">> \in pop.writes)
    /\ \A d \in Device, k \in {"deregister", "delete"} : sent[<<d, k>>] > 0 =>
          /\ d \in Indices
          /\ d \in Delta.remove => <<d, k>> \in pop.writes
          /\ d \in pop.births \cup Delta.add => d \in Delta.remove

Journal ==
    /\ HoldOK /\ JournalOK /\ LedgerOK /\ WorldOK /\ AdapterOK /\ HistoryOK
    /\ Located /\ Launched /\ Indexed /\ Journalled /\ DispatchedOnce

\* The three writes of a device.
LEMMA Writes ==
    \A d \in Device : <<d, "create">> \in Write /\ <<d, "deregister">> \in Write /\ <<d, "delete">> \in Write
  BY DEF Write

\* Nothing was sent for the generation yet.
LEMMA UnsentJournalled ==
    ASSUME \A w \in Write : sent'[w] = 0, Delta'.state = "reserved", pop'.writes = {}
    PROVE  Journalled'
<1>1. \A d \in Device : sent'[<<d, "create">>] = 0
  BY Writes
<1>2. \A d \in Device, k \in {"deregister", "delete"} : sent'[<<d, k>>] = 0
  BY Writes
<1>3. QED BY <1>1, <1>2 DEF Journalled

\* A new change reuses no index and removes nothing that was removed.
LEMMA ReservesJournalled ==
    ASSUME Journal, Reserves, sent' = sent
    PROVE  Journalled'
<1> DEFINE m == Len(Present.issued)
           n == rec[pc.op].add
<1>1. /\ pop'.writes = {} /\ Delta'.state = "reserved" /\ pop'.births = Present.births
      /\ Delta'.add = m..(m + n - 1) /\ Delta'.remove = rec[pc.op].remove
      /\ Delta'.remove \subseteq Present.births
      /\ Len(pop'.issued) = m + n
  BY DEF Reserves, NewChange, Reservable, Delta
<1>2. CASE ~Ours
  <2>1. \A w \in Write : sent[w] = 0 BY <1>2 DEF Reserves, Journal, Launched
  <2>2. \A w \in Write : sent'[w] = 0 BY <2>1
  <2>3. QED BY <1>1, <2>2, UnsentJournalled
<1>3. CASE Ours
  <2>1. Present = pop BY <1>3 DEF Present, Ours
  <2>2. m \in Nat /\ n \in Nat /\ Indices = 0..(m - 1)
    BY <2>1 DEF Reserves, Records, Journal, JournalOK, Pops, Indices
  <2>3. Delta.state \in {"none", "committed", "expired", "reserved"}
    <3>1. Unresolved => Delta.state = "reserved" BY <2>1 DEF Reserves, Reservable, Delta
    <3>2. QED BY <3>1 DEF Unresolved, Delta
  <2> HIDE DEF m, n
  <2>4. Indices' = 0..(m + n - 1) BY <1>1, <2>2 DEF Indices
  <2>5. \A d \in Indices : d \in Indices' /\ d \notin Delta'.add
    BY <1>1, <2>2, <2>4
  <2>6. /\ \A d \in Device : sent[<<d, "create">>] > 0 => d \in Indices
        /\ \A d \in Device, k \in {"deregister", "delete"} : sent[<<d, k>>] > 0 =>
              d \in Indices /\ d \notin pop.births
    <3>1. CASE Delta.state \in {"committed", "expired"}
      BY <1>3, <3>1 DEF Journal, Journalled
    <3>2. CASE Delta.state \in {"none", "reserved"}
      BY <1>3, <3>2 DEF Journal, Journalled
    <3>3. QED BY <2>3, <3>1, <3>2
  <2>7. \A d \in Device : sent'[<<d, "create">>] > 0 => d \in Indices' /\ d \notin Delta'.add
    BY <2>5, <2>6
  <2>8. \A d \in Device, k \in {"deregister", "delete"} : sent'[<<d, k>>] > 0 =>
           d \in Indices' /\ d \notin Delta'.remove /\ d \notin pop'.births \cup Delta'.add
    BY <1>1, <2>1, <2>5, <2>6
  <2>9. QED BY <1>1, <2>7, <2>8 DEF Journalled
<1>4. QED BY <1>2, <1>3

\* A change of state keeps what was written.
LEMMA MovedJournalled ==
    ASSUME Journal, NEW s \in DeltaState, Moved(s), sent' = sent,
           s = Delta.state \/ s \in {"adding", "retiring", "added_ready", "recovery_required", "quiesced"}
             \/ (s = "expired" /\ (Ours => pop.births = {}))
    PROVE  Journalled'
<1>1. /\ Ours' <=> Ours
      /\ pop'.writes = pop.writes /\ Delta'.state = s /\ pop'.births = pop.births
      /\ Delta'.add = Delta.add /\ Delta'.remove = Delta.remove /\ Indices' = Indices
  BY DEF Moved, Rewritten, SameDevices, Ours, Delta, Indices
<1>2. CASE ~Ours BY <1>1, <1>2 DEF Journalled
<1>3. CASE Ours
  BY <1>1, <1>3 DEF Journal, Journalled
<1>4. QED BY <1>2, <1>3

\* A dispatch is marked, and its write was never sent before.
LEMMA DispatchJournalled ==
    ASSUME Journal, NEW d \in Device, Create(d) \/ Deregister(d) \/ Delete(d)
    PROVE  Journalled' /\ DispatchedOnce'
<1>0. Ours BY DEF Create, Deregister, Delete, Departing, Reconciles, Ours
<1>1. PICK w \in Write : /\ Dispatch(w) /\ w[1] = d
                         /\ \/ w = <<d, "create">> /\ d \in Delta.add /\ Delta.state = "adding"
                            \/ /\ w \in {<<d, "deregister">>, <<d, "delete">>}
                               /\ d \in Delta.remove /\ Delta.state = "retiring"
  BY Writes DEF Create, Deregister, Delete, Departing, Reconciles
<1>2. /\ Rewritten /\ w \notin pop.writes /\ pop'.writes = pop.writes \cup {w}
      /\ Delta' = Delta /\ sent' = [sent EXCEPT ![w] = sent[w] + 1] /\ sent \in [Write -> Nat]
  BY <1>1, DispatchShape DEF Journal, HistoryOK, Delta
<1>3. /\ Ours' /\ pop'.births = pop.births /\ Indices' = Indices
  BY <1>0, <1>2 DEF Rewritten, SameDevices, Ours, Indices
<1>4. d \in Indices /\ Delta.add \cap Delta.remove = {}
  BY <1>1 DEF Journal, Indexed, IndexedIn, Delta, Indices
<1>5. sent[w] = 0
  <2>1. sent[w] \in Nat BY <1>2
  <2>2. ~(sent[w] > 0)
    <3>1. CASE w = <<d, "create">> /\ d \in Delta.add
      BY <1>0, <1>2, <3>1 DEF Journal, Journalled
    <3>2. ASSUME NEW k \in {"deregister", "delete"}, w = <<d, k>>, d \in Delta.remove PROVE ~(sent[w] > 0)
      BY <1>0, <1>2, <3>2 DEF Journal, Journalled
    <3>3. QED BY <1>1, <3>1, <3>2
  <2>3. QED BY <2>1, <2>2
<1>6. \A x \in Write : sent'[x] > 0 => sent[x] > 0 \/ x = w
  BY <1>2
<1>7. DispatchedOnce' BY <1>2, <1>5 DEF DispatchedOnce, Journal
<1>8. ASSUME NEW e \in Device, sent'[<<e, "create">>] > 0
      PROVE  e \in Indices' /\ (e \in Delta'.add => <<e, "create">> \in pop'.writes)
  <2>1. CASE sent[<<e, "create">>] > 0
    BY <1>0, <1>2, <1>3, <2>1 DEF Journal, Journalled
  <2>2. CASE <<e, "create">> = w
    BY <1>1, <1>2, <1>3, <1>4, <2>2
  <2>3. QED BY <1>6, <1>8, <2>1, <2>2, Writes
<1>9. ASSUME NEW e \in Device, NEW k \in {"deregister", "delete"}, sent'[<<e, k>>] > 0
      PROVE  /\ e \in Indices'
             /\ e \in Delta'.remove => <<e, k>> \in pop'.writes
             /\ e \in pop'.births \cup Delta'.add => e \in Delta'.remove
  <2>1. CASE sent[<<e, k>>] > 0
    BY <1>0, <1>2, <1>3, <2>1 DEF Journal, Journalled
  <2>2. CASE <<e, k>> = w
    <3>1. e = d /\ d \in Delta.remove BY <1>1, <2>2
    <3>2. QED BY <1>2, <1>3, <1>4, <2>2, <3>1
  <2>3. QED BY <1>6, <1>9, <2>1, <2>2, Writes
<1>10. QED BY <1>1, <1>2, <1>7, <1>8, <1>9 DEF Journalled

\* A commit leaves nothing that was removed among the births.
LEMMA CommittedJournalled ==
    ASSUME Journal, Committed, sent' = sent
    PROVE  Journalled'
<1>1. /\ pop'.gen = pop.gen /\ pop'.issued = pop.issued
      /\ pop'.births = (pop.births \cup Delta.add) \ Delta.remove
      /\ pop'.writes = pop.writes /\ pop'.delta = [Delta EXCEPT !.state = "committed"]
      /\ gen'.id = gen.id
  BY CommittedTyped DEF Journal
<1>2. Delta \in Deltas BY DEF Journal, JournalOK, Pops, Delta
<1>3. /\ Delta'.add = Delta.add /\ Delta'.remove = Delta.remove /\ Delta'.state = "committed"
      /\ Indices' = Indices /\ (Ours' <=> Ours)
  BY <1>1, <1>2 DEF Deltas, Delta, Indices, Ours
<1>4. CASE ~Ours BY <1>3, <1>4 DEF Journalled
<1>5. CASE Ours BY <1>1, <1>3, <1>5 DEF Journal, Journalled
<1>6. QED BY <1>4, <1>5

\* What a step that leaves journal, generation and writes alone keeps.
LEMMA QuietJournalled ==
    ASSUME Journal, UNCHANGED <<gen, pop, sent>>
    PROVE  Journalled' /\ DispatchedOnce'
<1>1. UNCHANGED <<Ours, Delta, Indices>> BY DEF Ours, Delta, Indices
<1>2. QED BY <1>1, Zenon DEF Journal, Journalled, DispatchedOnce

\* Every step keeps the journal of the writes, and sends none twice.
LEMMA WritesPreserved ==
    ASSUME Journal, [Next]_vars
    PROVE  Journalled' /\ DispatchedOnce'
<1>0. /\ HoldOK /\ JournalOK /\ LedgerOK /\ AdapterOK /\ HistoryOK /\ Located /\ Indexed /\ Launched
      /\ DispatchedOnce /\ gen.id \in Nat /\ pop.gen <= gen.id /\ pop.gen \in Nat
  BY Numbers DEF Journal, JournalOK, Gens, Pops, Launched
<1>1. ASSUME NEW o \in Owners, ConsumeHold(o) PROVE Journalled' /\ DispatchedOnce'
  <2>1. \A w \in Write : sent'[w] = 0 BY <1>1 DEF ConsumeHold
  <2>2. ~Ours' BY <1>0, <1>1 DEF ConsumeHold, Launch, Ours
  <2>3. QED BY <2>1, <2>2 DEF Journalled, DispatchedOnce
<1>2. CASE OrdinaryStart \/ OrdinaryStop \/ StopFleet
  <2>1. pop' = pop /\ sent' = sent BY <1>2 DEF OrdinaryStart, OrdinaryStop, StopFleet, history
  <2>2. CASE gen' = gen BY <2>1, <2>2, QuietJournalled
  <2>3. CASE gen'.id = gen.id + 1
    <3>1. ~Ours' BY <1>0, <2>1, <2>3 DEF Ours
    <3>2. QED BY <1>0, <2>1, <3>1 DEF Journalled, DispatchedOnce
  <2>4. QED BY <1>0, <1>2, <2>2, <2>3, GenTypes DEF GenStep
<1>3. ASSUME NEW d \in Device, Create(d) \/ Deregister(d) \/ Delete(d) PROVE Journalled' /\ DispatchedOnce'
  BY <1>3, DispatchJournalled
<1>4. CASE RuntimeReserve
  <2>1. sent' = sent BY <1>4 DEF RuntimeReserve, history
  <2>2. CASE Reserves BY <1>0, <2>1, <2>2, ReservesJournalled DEF DispatchedOnce
  <2>3. CASE UNCHANGED <<pop, gen>> BY <2>1, <2>3, QuietJournalled
  <2>4. QED BY <1>0, <1>4, <2>2, <2>3, ReserveShape
<1>5. CASE Consume \/ Retire
  <2>1. sent' = sent BY <1>5 DEF Consume, Retire, history
  <2>2. CASE UNCHANGED <<gen, pop>> BY <2>1, <2>2, QuietJournalled
  <2>3. ASSUME NEW phase \in {"adding", "retiring"}, Me \in Ops, Authorized(Me, phase)
        PROVE  Journalled' /\ DispatchedOnce'
    <3>1. UNCHANGED <<pop, gen>> \/ Moved(phase)
      BY <1>0, <2>3, AuthorizedShape, MovedShape DEF DeltaState
    <3>2. QED BY <1>0, <2>1, <2>2, <3>1, MovedJournalled DEF DispatchedOnce, DeltaState
  <2>4. QED BY <1>5, <2>2, <2>3 DEF Consume, Retire, Authority
<1>6. CASE DeltaExpires
  <2>1. Delta.state \in DeltaState BY <1>0 DEF JournalOK, Pops, Deltas, Delta
  <2>2. Moved(Delta.state) /\ sent' = sent BY <1>0, <1>6, ExpiresShape DEF DeltaExpires, history
  <2>3. QED BY <1>0, <2>1, <2>2, MovedJournalled DEF DispatchedOnce
<1>7. CASE ReconcileExpired
  <2>1. Moved("recovery_required") /\ sent' = sent
    BY <1>0, <1>7, ReconcileExpiredShape DEF ReconcileExpired, history
  <2>2. QED BY <1>0, <2>1, MovedJournalled DEF DispatchedOnce, DeltaState
<1>8. CASE ReconcileAdded \/ ReconcileRetired
  <2>1. sent' = sent BY <1>8 DEF ReconcileAdded, ReconcileRetired, history
  <2>2. CASE Committed BY <1>0, <2>1, <2>2, CommittedJournalled DEF DispatchedOnce
  <2>3. CASE pop' = [pop EXCEPT !.delta.state = "added_ready"] /\ UNCHANGED gen
    <3>1. Moved("added_ready") BY <1>0, <2>3, MovedShape DEF DeltaState, JournalOK
    <3>2. QED BY <1>0, <2>1, <3>1, MovedJournalled DEF DispatchedOnce, DeltaState
  <2>4. QED BY <1>8, <2>2, <2>3 DEF ReconcileAdded, ReconcileRetired
<1>9. CASE FreezeChange \/ Quiesce
  <2>1. gen' = gen /\ (pop' = pop \/ Moved("quiesced")) /\ sent' = sent
    BY <1>0, <1>9, FreezeShape, QuiesceShape DEF FreezeChange, Quiesce, history
  <2>2. QED BY <1>0, <2>1, QuietJournalled, MovedJournalled DEF DispatchedOnce, DeltaState
<1>10. CASE ConfirmStopped
  <2>1. sent' = sent BY <1>10 DEF ConfirmStopped, history
  <2>2. CASE Moved("expired") /\ (Ours => pop.births = {})
    BY <1>0, <2>1, <2>2, MovedJournalled DEF DispatchedOnce, DeltaState
  <2>3. CASE gen' = gen /\ pop' = pop BY <2>1, <2>3, QuietJournalled
  <2>4. QED BY <1>0, <1>10, <2>2, <2>3, ConfirmShape
<1>11. CASE UNCHANGED <<gen, pop>> /\ UNCHANGED sent BY <1>11, QuietJournalled
<1>12. CASE UNCHANGED <<gen, pop>> /\ ~UNCHANGED sent
  <2>1. ~UNCHANGED vars BY <1>12 DEF vars
  <2>2. HistoryStep /\ ~Crash BY <1>12, <2>1, HistoryFrame DEF Crash
  <2>3. QED BY <1>1, <1>3, <2>2 DEF HistoryStep
<1>13. QED
  BY <1>1, <1>2, <1>3, <1>4, <1>5, <1>6, <1>7, <1>8, <1>9, <1>10, <1>11, <1>12, JournalFrame
  DEF JournalStep, GenStep, vars

\* What was launched and not changed, nothing was written for.
LEMMA LaunchedPreserved ==
    ASSUME Journal, [Next]_vars
    PROVE  Launched'
<1>0. /\ HoldOK /\ JournalOK /\ LedgerOK /\ AdapterOK /\ HistoryOK /\ Located /\ Indexed /\ Launched
      /\ gen.id \in Nat /\ pop.gen <= gen.id /\ pop.gen \in Nat /\ hold.gen \in Nat /\ hold.gen <= gen.id
  BY Numbers DEF Journal, JournalOK, Gens, Pops, Launched, HoldOK, Holdings
<1>1. ASSUME NEW o \in Owners, ConsumeHold(o) PROVE Launched'
  <2>1. /\ gen' = [id |-> gen.id + 1, alloc |-> 0..FleetSize-1] /\ pop' = pop
        /\ hold' = [hold EXCEPT !.state = "consumed", !.gen = gen.id + 1]
        /\ \A w \in Write : sent'[w] = 0
    BY <1>1 DEF ConsumeHold, Launch
  <2>2. hold'.gen = gen.id + 1 BY <1>0, <2>1 DEF HoldOK, Holdings
  <2>3. QED BY <1>0, <2>1, <2>2 DEF Launched
<1>2. CASE OrdinaryStart \/ OrdinaryStop \/ StopFleet
  <2>1. pop' = pop /\ sent' = sent /\ hold' = hold
    BY <1>2 DEF OrdinaryStart, OrdinaryStop, StopFleet, history
  <2>2. CASE gen' = gen BY <1>0, <2>1, <2>2 DEF Launched, Held, Ours
  <2>3. CASE gen'.id = gen.id + 1 BY <1>0, <2>1, <2>3 DEF Launched, Held
  <2>4. QED BY <1>0, <1>2, <2>2, <2>3, GenTypes DEF GenStep
<1>3. ASSUME NEW o \in Owners, ReserveHold(o) \/ ReleaseHold(o) PROVE Launched'
  <2>1. /\ UNCHANGED <<gen, pop, sent>> /\ ~Held'
        /\ hold'.gen = 0 \/ hold'.gen = hold.gen
    BY <1>0, <1>3 DEF ReserveHold, ReleaseHold, HoldOK, Holdings, Held, history
  <2>2. QED BY <1>0, <2>1 DEF Launched
<1>4. CASE HoldExpires
  <2>1. UNCHANGED <<gen, pop, sent>> /\ hold'.gen = hold.gen /\ hold'.state = hold.state
    BY <1>0, <1>4 DEF HoldExpires, HoldOK, Holdings, history
  <2>2. QED BY <1>0, <2>1 DEF Launched, Held, Ours
<1>5. CASE JournalStep
  <2>1. hold' = hold
    BY <1>5
    DEF JournalStep, RuntimeReserve, Consume, Retire, DeltaExpires, ReconcileExpired, ReconcileAdded,
       ReconcileRetired, Create, Deregister, Delete, Dispatch, FreezeChange, Quiesce, ConfirmStopped
  <2>2. gen'.id = gen.id BY <1>0, <1>5, JournalTypes
  <2>3. CASE Ours'
    BY <1>0, <2>1, <2>2, <2>3 DEF Launched, Ours, Held
  <2>4. CASE ~Ours'
    <3>1. ~Ours
      <4>1. SUFFICES ASSUME Ours PROVE Ours' BY <2>4
      <4>2. Reserves \/ pop'.gen = pop.gen
        BY <1>0, <1>5, JournalShape, CommittedTyped DEF Rewritten, SameDevices
      <4>3. QED BY <2>2, <4>1, <4>2 DEF Reserves, Ours
    <3>2. ~Reserves /\ \A o \in Ops, phase \in {"adding", "retiring"} : ~Authorized(o, phase)
      BY <2>2, <2>4, <3>1 DEF Reserves, Ours, Authorized, Owned
    <3>3. gen' = gen /\ sent' = sent /\ pop'.gen = pop.gen
      <4>1. CASE RuntimeReserve
        BY <1>0, <3>2, <4>1, ReserveShape DEF RuntimeReserve, history
      <4>2. CASE Consume \/ Retire
        BY <3>2, <4>2 DEF Consume, Retire, Authority, history
      <4>3. CASE DeltaExpires \/ ReconcileExpired
        BY <1>0, <4>3, ExpiresShape, ReconcileExpiredShape
        DEF DeltaExpires, ReconcileExpired, history, Moved, Rewritten, SameDevices
      <4>4. CASE FreezeChange \/ Quiesce \/ ConfirmStopped
        BY <1>0, <4>4, FreezeShape, QuiesceShape, ConfirmShape
        DEF FreezeChange, Quiesce, ConfirmStopped, history, Moved, Rewritten, SameDevices
      <4>5. QED
        BY <1>5, <3>1, <4>1, <4>2, <4>3, <4>4
        DEF JournalStep, ReconcileAdded, ReconcileRetired, Create, Deregister, Delete, Departing, Reconciles, Ours
    <3>4. QED BY <1>0, <2>1, <2>4, <3>1, <3>3 DEF Launched, Held, Ours
  <2>5. QED BY <2>3, <2>4
<1>6. CASE UNCHANGED <<gen, pop, hold>>
  <2>1. CASE UNCHANGED sent BY <1>0, <1>6, <2>1 DEF Launched, Held, Ours
  <2>2. CASE ~UNCHANGED sent
    <3>1. HistoryStep /\ ~Crash BY <2>2, HistoryFrame DEF Crash, vars
    <3>2. JournalStep \/ \E o \in Owners : ConsumeHold(o) BY <3>1 DEF HistoryStep, JournalStep
    <3>3. QED BY <1>1, <1>5, <3>2
  <2>3. QED BY <2>1, <2>2
<1>7. QED
  BY <1>1, <1>2, <1>3, <1>4, <1>5, <1>6, JournalFrame, HoldFrame DEF GenStep, HoldStep, vars

\* The initial state has an empty journal.
LEMMA InitJournal == Init => Journal
<1> SUFFICES ASSUME Init PROVE Journal
  OBVIOUS
<1>1. TypeOK BY InitTypes
<1>2. Located BY PopulationAssumption DEF Init, Idle, Located, Now, Me
<1>3. pop = NoPop /\ gen.id = 0 /\ hold.gen = 0 /\ hold.state = "none" /\ sent = [w \in Write |-> 0]
  BY DEF Init
<1>4. Launched BY <1>3 DEF Launched, Held, NoPop
<1>5. Indexed BY <1>3 DEF Indexed, IndexedIn, NoPop, NoDelta
<1>6. Journalled
  <2>1. \A d \in Device : sent[<<d, "create">>] = 0
    BY <1>3, Writes
  <2>2. \A d \in Device, k \in {"deregister", "delete"} : sent[<<d, k>>] = 0
    BY <1>3, Writes
  <2>3. pop.writes = {} /\ pop.births = {}
    BY <1>3 DEF NoPop
  <2>4. QED BY <2>1, <2>2, <2>3 DEF Journalled
<1>7. DispatchedOnce BY <1>3 DEF DispatchedOnce
<1>8. QED BY <1>1, <1>2, <1>4, <1>5, <1>6, <1>7, TypeParts DEF Journal

\* Every step keeps the journal.
LEMMA NextJournal == Journal /\ [Next]_vars => Journal'
<1> SUFFICES ASSUME Journal, [Next]_vars PROVE Journal'
  OBVIOUS
<1>1. HoldOK /\ JournalOK /\ LedgerOK /\ WorldOK /\ AdapterOK /\ HistoryOK /\ Located /\ Indexed /\ Launched
  BY DEF Journal
<1>2. HoldOK' BY <1>1, HoldTypes, TypeParts
<1>3. JournalOK' /\ Indexed'
  <2>1. CASE GenStep BY <1>1, <2>1, GenTypes DEF Indexed
  <2>2. CASE JournalStep BY <1>1, <2>2, JournalTypes
  <2>3. CASE UNCHANGED <<gen, pop>> BY <1>1, <2>3 DEF JournalOK, Indexed
  <2>4. QED BY <2>1, <2>2, <2>3, JournalFrame DEF vars
<1>4. LedgerOK' BY <1>1, LedgerTypes
<1>5. WorldOK' BY <1>1, WorldTypes
<1>6. AdapterOK' BY <1>1, AdapterTypes
<1>7. HistoryOK' BY <1>1, HistoryTypes
<1>8. Located' BY <1>1, LocatedPreserved
<1>9. Launched' BY LaunchedPreserved
<1>10. Journalled' /\ DispatchedOnce' BY WritesPreserved
<1>11. QED BY <1>2, <1>3, <1>4, <1>5, <1>6, <1>7, <1>8, <1>9, <1>10 DEF Journal

\* The journal of a generation has every write sent for its change.
THEOREM JournalAlways == Spec => []Journal
  BY InitJournal, NextJournal, PTL DEF Spec

\* Holds, journal, ledger, ports, adapter and history are well typed.
THEOREM TypeCorrect == Spec => []TypeOK
<1>1. Journal => TypeOK BY TypeParts DEF Journal
<1>2. QED BY <1>1, JournalAlways, PTL

\* The controller sends a create, a deregistration or a deletion of a device at
\* most once in a generation, whatever restarts, retries and lost answers occur.
THEOREM Once == Spec => []DispatchedOnce
<1>1. Journal => DispatchedOnce BY DEF Journal
<1>2. QED BY <1>1, JournalAlways, PTL

\* Every slot issued in a generation is another one and stays quarantined.
THEOREM SlotsApart == Spec => []Quarantined
<1>1. Journal => Quarantined BY DEF Journal, Indexed, IndexedIn, Quarantined
<1>2. QED BY <1>1, JournalAlways, PTL

\* While a hold is active only its own launch changes the generation, and that
\* launch follows the generation it was held on.
THEOREM Exclusive == Spec => HoldExclusive
<1>1. ASSUME Journal, [Next]_vars, gen'.id # gen.id, hold.state = "held"
      PROVE  IF hold'.state = "consumed" THEN HoldActive /\ gen'.id = hold.base + 1 ELSE ~HoldActive
  <2>1. GenStep
    BY <1>1, JournalFrame, JournalTypes DEF Journal, vars
  <2>2. ASSUME NEW o \in Owners, ConsumeHold(o) PROVE HoldActive /\ gen'.id = hold.base + 1
    BY <2>2 DEF ConsumeHold, Launch
  <2>3. CASE OrdinaryStart \/ OrdinaryStop \/ StopFleet
    BY <1>1, <2>3 DEF OrdinaryStart, OrdinaryStop, StopFleet, RequestAllowed
  <2>4. ASSUME NEW o \in Owners, ConsumeHold(o) PROVE hold'.state = "consumed"
    BY <2>4 DEF ConsumeHold, Journal, HoldOK, Holdings
  <2>5. QED BY <2>1, <2>2, <2>3, <2>4 DEF GenStep
<1>2. QED BY <1>1, JournalAlways, PTL DEF Spec, HoldExclusive

-----------------------------------------------------------------------------
\* Devices, policies and measurements

\* An operation belongs to the fleet of its round or to an earlier one.
Dated == fleet <= gen.id /\ \A o \in Ops : rec[o].fleet <= fleet

\* A change is of the operation that reserved it; outside a round it has no
\* authority to write.
Reserving ==
    /\ Delta.op \in Ops => /\ Delta.remove = rec[Delta.op].remove /\ Delta.base = rec[Delta.op].base
                           /\ rec[Delta.op].phase # "none"
    /\ Delta.op = NoOne <=> Delta.state = "none"
    /\ round = "starting" => \A o \in Ops : rec[o].fleet # fleet
    /\ round \notin {"active", "ended"} =>
          Delta.state \notin {"adding", "added_ready", "retiring", "recovery_required"}

InRound(o) == round \in {"active", "ended"} /\ rec[o].fleet = fleet
Changes(o) == InRound(o) /\ Delta.op = o /\ Ours

\* The ledger awaits the one operation of the round that is neither new nor done.
Awaited ==
    /\ round = "starting" => snap.pending = NoOne
    /\ round \in {"active", "ended"} => \A o \in Ops :
          snap.pending = o <=> rec[o].fleet = fleet /\ rec[o].phase \notin {"none", "completed"}

\* The devices of a change are admitted before it is consumed, unless a release
\* takes them back.
AdmittedFirst ==
    release = "none" =>
    /\ \A o \in Ops : Changes(o) /\ rec[o].phase \in {"admissions", "consume_pending"} => Delta.add \subseteq admitted
    /\ Me \in Ops /\ InRound(Me) /\ pc.at = "note" /\ Now = "admissions_pending" => Delta.add \subseteq admitted

Withdrawn == {"withdrawn", "retire_pending", "retiring", "native_ready"}
Retirement == {"retire_pending", "retiring", "native_ready"}

\* Departing devices lose policy and admission before they are excluded.
WithdrawnFirst ==
    /\ \A o \in Ops : Changes(o) /\ rec[o].phase \in Withdrawn => Delta.remove \cap (policy \cup admitted) = {}
    /\ Me \in Ops /\ InRound(Me) /\ pc.at = "note" /\ Now = "withdrawn_pending" =>
          Delta.remove \cap (policy \cup admitted) = {}

\* They are excluded before they are retired.
ExcludedFirst ==
    \A o \in Ops : InRound(o) /\ rec[o].phase \in Retirement => snap.pending = o /\ snap.excluded = rec[o].remove

\* No window runs while the adapter holds the lock, nor for an excluded device.
Windowed == (Locked => window = {}) /\ window \cap snap.excluded = {}

\* What each state of the change says of its devices.
Dispatching ==
    Ours =>
    /\ Delta.state = "adding" => /\ Delta.op \in Ops /\ InRound(Delta.op) /\ rec[Delta.op].phase # "completed"
                                 /\ Delta.add \subseteq admitted
    /\ Delta.state = "retiring" => /\ Delta.op \in Ops /\ InRound(Delta.op) /\ rec[Delta.op].phase \in Retirement
                                   /\ Delta.remove \cap (policy \cup admitted \cup window) = {}

Pending == {"reserved", "adding", "added_ready", "retiring"}

\* A readback of the next revision saw the commit.
Proved ==
    /\ Ours /\ Delta.state \in Pending => pop.rev = Delta.base
    /\ Me \in Ops /\ pc.at = "publish" /\ InRound(Me) /\ proof.rev = rec[Me].base + 1 =>
          Delta.op = Me /\ (Ours /\ round = "active" => Delta.state = "committed")

Cover ==
    Dated /\ Reserving /\ Awaited /\ AdmittedFirst /\ WithdrawnFirst /\ ExcludedFirst /\ Windowed
    /\ Dispatching /\ Proved

\* A release that has marked the change leaves no call of the adapter, and no
\* device that may still be created.
Calm == release # "none" => pc.at = "idle" /\ ~(Ours /\ Delta.state = "adding")

\* What the ports and the ledger are told apart by, in one place.
Same == UNCHANGED <<gen, pop, round, fleet, admitted, policy, release, window>>

\* What is unchanged when neither journal, round nor ports move.
LEMMA SameShape ==
    Same => /\ Delta' = Delta /\ (Ours' <=> Ours)
            /\ gen' = gen /\ pop' = pop /\ round' = round /\ fleet' = fleet
            /\ admitted' = admitted /\ policy' = policy /\ release' = release /\ window' = window
  BY DEF Same, Delta, Ours

\* The adapter moves, and nothing else does.
LEMMA PlacedCover ==
    ASSUME Cover, Same, rec' = rec, snap' = snap,
           pc'.at = "note" => FALSE, Locked' => window = {},
           pc'.at = "publish" => Proved'
    PROVE  Cover'
<1>1. /\ Delta' = Delta /\ (Ours' <=> Ours) /\ gen' = gen /\ pop' = pop /\ round' = round /\ fleet' = fleet
      /\ admitted' = admitted /\ policy' = policy /\ release' = release /\ window' = window
  BY SameShape
<1>2. Dated' BY <1>1 DEF Cover, Dated
<1>3. Reserving' BY <1>1 DEF Cover, Reserving
<1>4. AdmittedFirst' BY <1>1 DEF Cover, AdmittedFirst, Changes, InRound
<1>5. WithdrawnFirst' BY <1>1 DEF Cover, WithdrawnFirst, Changes, InRound
<1>6. ExcludedFirst' BY <1>1 DEF Cover, ExcludedFirst, InRound
<1>7. Windowed' BY <1>1 DEF Cover, Windowed
<1>8. Dispatching' BY <1>1 DEF Cover, Dispatching, InRound
<1>9. Proved' BY <1>1 DEF Cover, Proved
<1>11. Awaited' BY <1>1 DEF Cover, Awaited
<1>12. QED BY <1>11, <1>2, <1>3, <1>4, <1>5, <1>6, <1>7, <1>8, <1>9 DEF Cover

\* A checkpoint that follows what the ports have done.
Follows(to) ==
    /\ to \in {"admissions", "consume_pending"} =>
          Now = "admissions" \/ (pc.at = "note" /\ Now = "admissions_pending")
    /\ to \in Withdrawn => Now \in Withdrawn \/ (pc.at = "note" /\ Now = "withdrawn_pending")
    /\ to \in Retirement => snap'.excluded = rec[Me].remove
    /\ snap'.pending = IF to = "completed" THEN NoOne ELSE Me
    /\ to = "completed" => ~(Ours /\ Delta.state = "adding")
    /\ Now \in Retirement /\ Delta.op = Me /\ Ours /\ Delta.state = "retiring" => to \in Retirement

\* A checkpoint that follows the ports keeps the cover.
LEMMA CheckpointCover ==
    ASSUME Journal, Cover, Same, NEW to \in Phase \ {"none"}, CheckpointAt(to), Follows(to),
           pc'.at = "note" => FALSE, Locked' => window = {}, window \cap snap'.excluded = {},
           pc'.at = "publish" => Proved'
    PROVE  Cover'
<1>1. /\ Delta' = Delta /\ (Ours' <=> Ours) /\ gen' = gen /\ pop' = pop /\ round' = round /\ fleet' = fleet
      /\ admitted' = admitted /\ policy' = policy /\ release' = release /\ window' = window
  BY SameShape
<1>2. /\ Me \in Ops /\ round = "active" /\ rec[Me].fleet = fleet /\ snap.pending = Me /\ Now = rec[Me].phase
      /\ \A o \in Ops : /\ rec'[o].fleet = rec[o].fleet /\ rec'[o].base = rec[o].base
                        /\ rec'[o].remove = rec[o].remove
                        /\ rec'[o].phase = IF o = Me THEN to ELSE rec[o].phase
  BY DEF CheckpointAt, Journal, LedgerOK, Records, Now
<1>3. Dated' BY <1>1, <1>2 DEF Cover, Dated
<1>4. Reserving' BY <1>1, <1>2 DEF Cover, Reserving
<1>5. AdmittedFirst'
  <2>1. ASSUME release = "none", NEW o \in Ops, Changes(o)', rec'[o].phase \in {"admissions", "consume_pending"}
        PROVE  Delta.add \subseteq admitted
    <3>1. Changes(o) BY <1>1, <1>2, <2>1 DEF Changes, InRound
    <3>2. CASE o = Me BY <1>2, <2>1, <3>1, <3>2 DEF Cover, AdmittedFirst, Follows, Changes
    <3>3. CASE o # Me BY <1>2, <2>1, <3>1, <3>3 DEF Cover, AdmittedFirst
    <3>4. QED BY <3>2, <3>3
  <2>2. QED BY <1>1, <2>1 DEF AdmittedFirst
<1>6. WithdrawnFirst'
  <2>1. ASSUME NEW o \in Ops, Changes(o)', rec'[o].phase \in Withdrawn
        PROVE  Delta.remove \cap (policy \cup admitted) = {}
    <3>1. Changes(o) BY <1>1, <1>2, <2>1 DEF Changes, InRound
    <3>2. CASE o = Me BY <1>2, <2>1, <3>1, <3>2 DEF Cover, WithdrawnFirst, Follows, Changes
    <3>3. CASE o # Me BY <1>2, <2>1, <3>1, <3>3 DEF Cover, WithdrawnFirst
    <3>4. QED BY <3>2, <3>3
  <2>2. QED BY <1>1, <2>1 DEF WithdrawnFirst
<1>7. ExcludedFirst'
  <2>1. ASSUME NEW o \in Ops, InRound(o)', rec'[o].phase \in Retirement
        PROVE  snap'.pending = o /\ snap'.excluded = rec'[o].remove
    <3>1. InRound(o) BY <1>1, <1>2, <2>1 DEF InRound
    <3>2. o = Me BY <1>2, <2>1, <3>1 DEF Cover, ExcludedFirst
    <3>3. QED BY <1>2, <2>1, <3>2 DEF Follows, Retirement
  <2>2. QED BY <2>1 DEF ExcludedFirst
<1>8. Windowed' BY <1>1 DEF Windowed
<1>9. Dispatching'
  <2>1. ASSUME Ours, Delta.state = "retiring"
        PROVE  Delta.op \in Ops /\ InRound(Delta.op)' /\ rec'[Delta.op].phase \in Retirement
    <3>1. Delta.op \in Ops /\ InRound(Delta.op) /\ rec[Delta.op].phase \in Retirement
      BY <2>1 DEF Cover, Dispatching
    <3>2. InRound(Delta.op)' BY <1>1, <1>2, <3>1 DEF InRound
    <3>3. rec'[Delta.op].phase \in Retirement BY <1>2, <2>1, <3>1 DEF Follows
    <3>4. QED BY <3>1, <3>2, <3>3
  <2>2. ASSUME Ours, Delta.state = "adding"
        PROVE  Delta.op \in Ops /\ InRound(Delta.op)' /\ rec'[Delta.op].phase # "completed"
    <3>1. Delta.op \in Ops /\ InRound(Delta.op) /\ rec[Delta.op].phase # "completed"
      BY <2>2 DEF Cover, Dispatching
    <3>2. InRound(Delta.op)' BY <1>1, <1>2, <3>1 DEF InRound
    <3>3. rec'[Delta.op].phase # "completed" BY <1>2, <2>2, <3>1 DEF Follows
    <3>4. QED BY <3>1, <3>2, <3>3
  <2>3. QED BY <1>1, <2>1, <2>2 DEF Cover, Dispatching
<1>10. Proved' BY <1>1 DEF Cover, Proved
<1>12. Awaited'
  <2>1. \A o \in Ops : o # Me => ~(rec[o].fleet = fleet /\ rec[o].phase \notin {"none", "completed"})
    BY <1>2 DEF Cover, Awaited
  <2>2. NoOne \notin Ops BY PopulationAssumption
  <2>3. ASSUME NEW o \in Ops
        PROVE  snap'.pending = o <=> rec'[o].fleet = fleet /\ rec'[o].phase \notin {"none", "completed"}
    BY <1>2, <2>1, <2>2 DEF Follows
  <2>4. QED BY <1>1, <1>2, <2>3 DEF Awaited
<1>13. QED BY <1>12, <1>3, <1>4, <1>5, <1>6, <1>7, <1>8, <1>9, <1>10 DEF Cover

\* So do the adapter's checkpoints outside the ports.
LEMMA CheckpointsCover ==
    ASSUME Journal, Cover,
           KeepReservation \/ StartConsume \/ NoteConsumed \/ NoteRetired
    PROVE  Cover'
<1>0. LedgerOK /\ AdapterOK /\ Located BY DEF Journal
<1>1. Same /\ snap' = snap
  BY DEF KeepReservation, StartConsume, NoteConsumed, NoteRetired, Same, journal, ports, measuring
<1>2. PICK to \in {"held", "consume_pending", "adding", "retiring"} :
         /\ CheckpointAt(to)
         /\ pc' = [pc EXCEPT !.at = "resume"] \/ pc' = [pc EXCEPT !.at = "consume"]
         /\ to = "consume_pending" => Now = "admissions"
         /\ to = "held" => Now = "reserved"
         /\ to = "adding" => Now = "consume_pending"
         /\ to = "retiring" => Now = "retire_pending"
  <2>1. CASE KeepReservation
    BY <1>0, <2>1, CheckpointShape DEF KeepReservation, Located, Phase, Goto
  <2>2. CASE StartConsume
    BY <1>0, <2>2, CheckpointShape DEF StartConsume, Phase, Goto
  <2>3. CASE NoteConsumed
    BY <1>0, <2>3, CheckpointShape DEF NoteConsumed, Located, Phase, Goto
  <2>4. CASE NoteRetired
    BY <1>0, <2>4, CheckpointShape DEF NoteRetired, Located, Phase, Goto
  <2>5. QED BY <2>1, <2>2, <2>3, <2>4
<1>3. Me \in Ops /\ pc'.op = Me /\ Now' = to /\ pc'.at \in {"resume", "consume"}
  BY <1>0, <1>2, MovesShape
<1>4. Follows(to)
  <2>1. to = "retiring" => InRound(Me) BY <1>2 DEF CheckpointAt, InRound
  <2>2. to = "retiring" => Me \in Ops /\ rec[Me].phase = "retire_pending" BY <1>2, <1>3 DEF Now
  <2>3. to = "retiring" => snap.pending = Me /\ snap.excluded = rec[Me].remove
    BY <2>1, <2>2 DEF Cover, ExcludedFirst, Retirement
  <2>4. snap.pending = Me BY <1>2 DEF CheckpointAt
  <2>5. QED BY <1>1, <1>2, <2>3, <2>4 DEF Follows, Withdrawn, Retirement
<1>5. ~Locked' BY <1>3 DEF Locked
<1>6. window \cap snap'.excluded = {} BY <1>1 DEF Cover, Windowed
<1>7. to \in Phase \ {"none"} BY DEF Phase
<1>8. QED BY <1>1, <1>2, <1>3, <1>4, <1>5, <1>6, <1>7, CheckpointCover

\* The intention of a port claims nothing yet.
LEMMA StartPortCover ==
    ASSUME Journal, Cover, StartPort
    PROVE  Cover'
<1>0. LedgerOK /\ AdapterOK /\ Located /\ Located' BY LocatedPreserved DEF Journal, Next, Change
<1>1. Same /\ snap' = snap
  BY DEF StartPort, Same, journal, ports, measuring
<1>2. /\ Now \in DOMAIN Intention /\ Me \in Ops
      /\ (rec' = rec /\ Intention[Now] = Now) \/ CheckpointAt(Intention[Now])
      /\ pc' = [pc EXCEPT !.at = "port"]
  BY <1>0, StartShape
<1>3. /\ Intention[Now] \in DOMAIN Receipt /\ Intention[Now] # "none"
      /\ Now \notin Retirement
      /\ Intention[Now] \notin {"admissions", "consume_pending", "completed"} \cup Withdrawn
  BY <1>2, Intentions DEF Intention, Retirement, Withdrawn
<1>4. pc'.at = "port" /\ pc'.op = Me BY <1>0, <1>2 DEF AdapterOK, Calls, Me
<1>5. Now' = Intention[Now]
  <2>1. CASE rec' = rec /\ Intention[Now] = Now BY <1>4, <2>1 DEF Now, Me
  <2>2. CASE CheckpointAt(Intention[Now]) BY <1>0, <1>2, <2>2, MovesShape
  <2>3. QED BY <1>2, <2>1, <2>2
<1>6. Locked' => window = {}
  BY <1>4, <1>5 DEF Locked, StartPort, PortAllowed
<1>7. CASE rec' = rec BY <1>1, <1>4, <1>6, <1>7, PlacedCover
<1>8. CASE CheckpointAt(Intention[Now])
  <2>1. Follows(Intention[Now]) BY <1>1, <1>3, <1>8 DEF Follows, Withdrawn, Retirement, CheckpointAt
  <2>2. window \cap snap'.excluded = {} BY <1>1 DEF Cover, Windowed
  <2>3. Intention[Now] \in Phase \ {"none"} BY <1>3, Intentions DEF Phase
  <2>4. QED BY <1>1, <1>4, <1>6, <1>8, <2>1, <2>2, <2>3, CheckpointCover
<1>9. QED BY <1>2, <1>7, <1>8

\* A receipt is recorded for devices the port has served.
LEMMA NotePortCover ==
    ASSUME Journal, Cover, NotePort
    PROVE  Cover'
<1>0. LedgerOK /\ AdapterOK /\ Located BY DEF Journal
<1>1. Same /\ snap' = snap
  BY DEF NotePort, Same, journal, ports, measuring
<1>2. /\ Now \in DOMAIN Receipt /\ CheckpointAt(Receipt[Now])
      /\ pc' = [pc EXCEPT !.at = IF Now = "withdrawn_pending" THEN "exclude" ELSE "resume"]
  BY <1>0, NoteShape
<1>3. /\ Receipt[Now] \in {"capacity", "admissions", "inherited", "withdrawn"}
      /\ Receipt[Now] = "admissions" => Now = "admissions_pending"
      /\ Receipt[Now] = "withdrawn" => Now = "withdrawn_pending"
  BY <1>2, Intentions
<1>4. pc'.at = IF Now = "withdrawn_pending" THEN "exclude" ELSE "resume"
  BY <1>0, <1>2, MovesShape
<1>5. pc.at = "note" BY DEF NotePort
<1>6. Locked' => window = {}
  BY <1>4, <1>5 DEF Locked, Cover, Windowed
<1>7. Follows(Receipt[Now])
  BY <1>1, <1>2, <1>3, <1>5, Intentions DEF Follows, Withdrawn, Retirement, CheckpointAt
<1>8. window \cap snap'.excluded = {} BY <1>1 DEF Cover, Windowed
<1>9. Receipt[Now] \in Phase \ {"none"} BY <1>3 DEF Phase
<1>10. QED BY <1>1, <1>2, <1>4, <1>6, <1>7, <1>8, <1>9, CheckpointCover

\* Devices are excluded when policy and admission are gone.
LEMMA ExcludeCover ==
    ASSUME Journal, Cover, Exclude
    PROVE  Cover'
<1>0. LedgerOK /\ AdapterOK /\ Located BY DEF Journal
<1>1. Same /\ snap' = [snap EXCEPT !.excluded = rec[Me].remove] /\ Now = "withdrawn" /\ pc.at = "exclude"
  BY <1>0 DEF Exclude, Same, journal, ports, measuring, Located
<1>2. CheckpointAt("retire_pending") /\ pc' = [pc EXCEPT !.at = "retire"]
  BY <1>0, CheckpointShape DEF Exclude, Goto, Phase
<1>3. snap'.pending = snap.pending /\ snap'.excluded = rec[Me].remove
  BY <1>0, <1>1 DEF LedgerOK, Snaps
<1>4. pc'.at = "retire" BY <1>0, <1>2, MovesShape
<1>5. window = {} BY <1>1 DEF Cover, Windowed, Locked
<1>6. Follows("retire_pending")
  BY <1>1, <1>2, <1>3 DEF Follows, Withdrawn, Retirement, CheckpointAt
<1>7. QED BY <1>1, <1>2, <1>4, <1>5, <1>6, CheckpointCover DEF Phase

\* A readback of the next revision saw the commit.
LEMMA ReadbackCover ==
    ASSUME Journal, Cover, Readback
    PROVE  Cover'
<1>0. LedgerOK /\ AdapterOK /\ Located /\ JournalOK BY DEF Journal
<1>1. /\ Same /\ snap' = snap /\ window = {} /\ Now \in Retirement
      /\ Ours /\ Delta.op = Me /\ Ready /\ Me \in Ops
      /\ proof' = [rev |-> pop.rev, members |-> Cohort] /\ pc' = [pc EXCEPT !.at = "publish"]
  <2>1. Same /\ snap' = snap BY DEF Readback, Same, journal, ports, measuring
  <2>2. window = {} /\ Now \in Retirement /\ Ready BY DEF Readback, Retirement
  <2>3. Ours /\ Delta.op = Me BY DEF Readback, Owned, Ours
  <2>4. Me \in Ops BY <2>2 DEF Now, Retirement
  <2>5. proof' = [rev |-> pop.rev, members |-> Cohort] /\ pc' = [pc EXCEPT !.at = "publish"]
    BY DEF Readback, Goto
  <2>6. QED BY <2>1, <2>2, <2>3, <2>4, <2>5
<1>2. (rec' = rec /\ Now = "native_ready") \/ CheckpointAt("native_ready")
  BY <1>0, CheckpointShape DEF Readback, Phase
<1>3. /\ Delta' = Delta /\ Ours' /\ pop' = pop /\ round' = round /\ fleet' = fleet
  BY <1>1, SameShape
<1>4. pc'.at = "publish" /\ pc'.op = Me /\ proof'.rev = pop.rev
  BY <1>0, <1>1 DEF AdapterOK, Calls, Me
<1>5. rec'[Me].base = rec[Me].base
  BY <1>1, <1>2 DEF CheckpointAt, LedgerOK, Records
<1>6. Proved'
  <2>1. Delta.state \in {"adding", "added_ready", "retiring", "committed"}
    BY <1>1 DEF Ready, Seen
  <2>2. Delta.state # "committed" => pop.rev = Delta.base
    BY <1>1, <2>1 DEF Cover, Proved, Pending
  <2>3. Delta.base = rec[Me].base /\ rec[Me].base \in Nat
    BY <1>0, <1>1 DEF Cover, Reserving, LedgerOK, Records
  <2>4. pop.rev = rec[Me].base + 1 => Delta.state = "committed" BY <2>2, <2>3
  <2>5. Ours /\ Delta.state \in Pending => pop.rev = Delta.base BY DEF Cover, Proved
  <2>6. QED BY <1>1, <1>3, <1>4, <1>5, <2>4, <2>5 DEF Proved, Me
<1>7. CASE rec' = rec BY <1>1, <1>4, <1>6, <1>7, PlacedCover
<1>8. CASE CheckpointAt("native_ready")
  <2>1. InRound(Me) /\ rec[Me].phase \in Retirement BY <1>1, <1>8 DEF CheckpointAt, InRound, Now
  <2>2. snap.pending = Me /\ snap.excluded = rec[Me].remove
    BY <1>1, <2>1 DEF Cover, ExcludedFirst
  <2>3. Follows("native_ready")
    BY <1>1, <2>2 DEF Follows, Withdrawn, Retirement
  <2>4. QED BY <1>1, <1>4, <1>6, <1>8, <2>3, CheckpointCover DEF Phase
<1>9. QED BY <1>2, <1>7, <1>8

\* A publication ends the operation and leaves ports and journal alone.
LEMMA PublishCover ==
    ASSUME Journal, Cover, Publish
    PROVE  Cover'
<1>0. LedgerOK /\ AdapterOK /\ Located BY DEF Journal
<1>1. /\ Same /\ pc' = Idle /\ Now = "native_ready" /\ pc.at = "publish" /\ Me \in Ops
      /\ proof.rev = rec[Me].base + 1 /\ snap'.excluded = {} /\ snap'.pending = NoOne
  <2>1. Same BY DEF Publish, Same, journal, ports, measuring
  <2>2. Now = "native_ready" /\ pc.at = "publish" /\ Me \in Ops BY <1>0 DEF Publish, Located, Me
  <2>3. pc' = Idle /\ proof.rev = rec[Me].base + 1 /\ snap'.excluded = {} /\ snap'.pending = NoOne
    BY DEF Publish, Publishable
  <2>4. QED BY <2>1, <2>2, <2>3
<1>2. CheckpointAt("completed")
  BY <1>0, CheckpointShape DEF Publish, Phase
<1>3. pc'.at = "idle" /\ ~Locked' BY <1>1 DEF Idle, Locked
<1>4. Ours => Delta.state = "committed"
  BY <1>1, <1>2 DEF Cover, Proved, CheckpointAt, InRound
<1>5. Follows("completed")
  BY <1>1, <1>4 DEF Follows, Withdrawn, Retirement
<1>6. QED BY <1>1, <1>2, <1>3, <1>5, CheckpointCover DEF Phase

\* A new operation is of no change.
LEMMA SubmitCover ==
    ASSUME Journal, Cover, NEW o \in Ops, Submit(o)
    PROVE  Cover'
<1>0. LedgerOK /\ AdapterOK /\ Located BY DEF Journal
<1>1. Same /\ pc'.at = "resume" /\ pc'.op = o /\ ~Locked'
  BY DEF Submit, Same, journal, ports, measuring, Locked
<1>2. CASE UNCHANGED <<rec, snap>> BY <1>1, <1>2, PlacedCover
<1>3. CASE /\ rec[o].phase = "none" /\ snap.pending = NoOne
           /\ \E add \in 0..MaxAdd, remove \in SUBSET snap.members :
                rec' = [rec EXCEPT ![o] = [phase |-> "reserved", fleet |-> fleet,
                                           base |-> snap.rev, add |-> add, remove |-> remove]]
           /\ snap' = [snap EXCEPT !.pending = o]
  <2>1. /\ rec'[o].phase = "reserved" /\ rec'[o].fleet = fleet
        /\ \A x \in Ops : x # o => rec'[x] = rec[x]
        /\ snap'.excluded = snap.excluded /\ snap'.pending = o
    BY <1>0, <1>3 DEF LedgerOK, Snaps
  <2>2. /\ Delta' = Delta /\ (Ours' <=> Ours) /\ gen' = gen /\ pop' = pop /\ round' = round /\ fleet' = fleet
        /\ admitted' = admitted /\ policy' = policy /\ release' = release /\ window' = window
    BY <1>1, SameShape
  <2>3. Delta.op # o BY <1>3 DEF Cover, Reserving
  <2>4. \A x \in Ops : ~(InRound(x) /\ rec[x].phase \in Retirement)
    BY <1>3, PopulationAssumption DEF Cover, ExcludedFirst
  <2>5. Dated'
    <3>1. fleet \in Nat BY <1>0, Numbers DEF LedgerOK
    <3>2. \A x \in Ops : rec'[x].fleet <= fleet BY <2>1, <3>1 DEF Cover, Dated
    <3>3. QED BY <2>2, <3>2 DEF Cover, Dated
  <2>6. Reserving'
    <3>1. round = "active" BY DEF Submit
    <3>2. QED BY <2>1, <2>2, <2>3, <3>1 DEF Cover, Reserving
  <2>7. AdmittedFirst' BY <1>1, <2>1, <2>2, <2>3 DEF Cover, AdmittedFirst, Changes, InRound
  <2>8. WithdrawnFirst' BY <1>1, <2>1, <2>2, <2>3 DEF Cover, WithdrawnFirst, Changes, InRound
  <2>9. ExcludedFirst' BY <2>1, <2>2, <2>4 DEF ExcludedFirst, InRound, Retirement
  <2>10. Windowed' BY <1>1, <2>1, <2>2 DEF Cover, Windowed
  <2>11. Dispatching' BY <2>1, <2>2, <2>3 DEF Cover, Dispatching, InRound
  <2>12. Proved' BY <1>1, <2>2 DEF Cover, Proved
  <2>13. Awaited'
    <3>1. round = "active" BY DEF Submit
    <3>2. \A x \in Ops : ~(rec[x].fleet = fleet /\ rec[x].phase \notin {"none", "completed"})
      BY <1>3, <3>1, PopulationAssumption DEF Cover, Awaited
    <3>3. QED BY <2>1, <2>2, <3>1, <3>2 DEF Awaited
  <2>14. QED BY <2>13, <2>5, <2>6, <2>7, <2>8, <2>9, <2>10, <2>11, <2>12 DEF Cover
<1>4. QED BY <1>2, <1>3 DEF Submit

\* The adapter's reservation call and its failures change nothing else.
LEMMA StillCover ==
    ASSUME Journal, Cover, StartReservation \/ AdapterFails
    PROVE  Cover'
<1>0. AdapterOK BY DEF Journal
<1>1. Same /\ rec' = rec /\ snap' = snap
  BY DEF StartReservation, AdapterFails, Same, journal, ledger, ports, measuring
<1>2. pc'.at \in {"reserve", "idle"}
  BY <1>0 DEF StartReservation, AdapterFails, Goto, Idle, AdapterOK, Calls
<1>3. ~Locked' BY <1>2 DEF Locked
<1>4. QED BY <1>1, <1>2, <1>3, PlacedCover

\* A change in another state.
InState(s) ==
    /\ gen'.id = gen.id /\ (Ours' <=> Ours)
    /\ Delta'.op = Delta.op /\ Delta'.base = Delta.base /\ Delta'.add = Delta.add
    /\ Delta'.remove = Delta.remove /\ Delta'.state = s
    /\ s = "none" <=> Delta.state = "none"

\* What the new state needs.
Allowed(s) ==
    /\ round \notin {"active", "ended"} => s \notin {"adding", "added_ready", "retiring", "recovery_required"}
    /\ Ours /\ s = "adding" => /\ Delta.op \in Ops /\ InRound(Delta.op) /\ rec[Delta.op].phase # "completed"
                               /\ Delta.add \subseteq admitted
    /\ Ours /\ s = "retiring" => /\ Delta.op \in Ops /\ InRound(Delta.op) /\ rec[Delta.op].phase \in Retirement
                                 /\ Delta.remove \cap (policy \cup admitted \cup window) = {}
    /\ Ours /\ s \in Pending => pop'.rev = Delta.base
    /\ Ours /\ Delta.state = "committed" => s = "committed"

\* A change whose new state is allowed keeps the cover.
LEMMA StateCover ==
    ASSUME Journal, Cover, NEW s, InState(s), Allowed(s),
           UNCHANGED <<rec, snap, round, fleet, admitted, policy, window, proof>>,
           release' = "none" => release = "none",
           pc' = pc \/ pc'.at \notin {"note", "publish"}, Locked' => window = {}
    PROVE  Cover'
<1>1. Dated' BY DEF InState, Cover, Dated
<1>2. Reserving'
  BY DEF InState, Allowed, Cover, Reserving
<1>3. AdmittedFirst'
  <2>1. \A o \in Ops : Changes(o)' => Changes(o) BY DEF Changes, InRound, InState
  <2>2. pc' = pc => Now' = Now BY DEF Now, Me
  <2>3. QED BY <2>1, <2>2 DEF InState, Cover, AdmittedFirst, InRound, Me
<1>4. WithdrawnFirst'
  <2>1. \A o \in Ops : Changes(o)' => Changes(o) BY DEF Changes, InRound, InState
  <2>2. pc' = pc => Now' = Now BY DEF Now, Me
  <2>3. QED BY <2>1, <2>2 DEF InState, Cover, WithdrawnFirst, InRound, Me
<1>5. ExcludedFirst' BY DEF Cover, ExcludedFirst, InRound
<1>6. Windowed' BY DEF Cover, Windowed
<1>7. Dispatching'
  <2>1. \A o \in Ops : InRound(o) => InRound(o)' BY DEF InRound
  <2>2. QED BY <2>1 DEF InState, Allowed, Dispatching
<1>8. Proved'
  <2>1. Ours' /\ Delta'.state \in Pending => pop'.rev = Delta'.base BY DEF InState, Allowed
  <2>2. pc' = pc => Me' = Me BY DEF Me
  <2>3. \A o \in Ops : InRound(o)' => InRound(o) BY DEF InRound
  <2>4. QED BY <2>1, <2>2, <2>3 DEF InState, Allowed, Cover, Proved
<1>9. Awaited' BY DEF Cover, Awaited
<1>10. QED BY <1>9, <1>1, <1>2, <1>3, <1>4, <1>5, <1>6, <1>7, <1>8 DEF Cover

\* What moves a journal's state, in those terms.
LEMMA MovedInState ==
    ASSUME NEW s, Moved(s), s = "none" <=> Delta.state = "none"
    PROVE  InState(s) /\ pop'.rev = pop.rev
  BY DEF Moved, Rewritten, SameDevices, InState, Ours, Delta

\* The controller's own steps keep the cover.
LEMMA ControllerCover ==
    ASSUME Journal, Cover,
           \/ DeltaExpires \/ ReconcileExpired \/ ReconcileAdded \/ ReconcileRetired
           \/ \E d \in Device : Create(d) \/ Deregister(d) \/ Delete(d)
    PROVE  Cover'
<1>0. JournalOK /\ HistoryOK /\ Indexed BY DEF Journal
<1>1. UNCHANGED <<rec, snap, round, fleet, admitted, policy, release, window, proof, pc>>
  BY
  DEF DeltaExpires, ReconcileExpired, ReconcileAdded, ReconcileRetired, Create, Deregister, Delete, Dispatch,
     ledger, ports, adapter, measuring
<1>2. Locked' => window = {} BY <1>1 DEF Locked, Now, Me, Cover, Windowed
<1>3. Delta \in Deltas BY <1>0 DEF JournalOK, Pops, Delta
<1>4. CASE InState(Delta.state) /\ pop'.rev = pop.rev
  <2>1. Allowed(Delta.state) BY <1>4 DEF Allowed, Cover, Reserving, Dispatching, Proved
  <2>2. QED BY <1>1, <1>2, <1>4, <2>1, StateCover
<1>5. ASSUME NEW s \in {"recovery_required", "added_ready", "committed"}, InState(s),
             Delta.state \in {"adding", "retiring"},
             s = "added_ready" => pop'.rev = pop.rev
      PROVE  Cover'
  <2>1. Allowed(s) BY <1>5 DEF Allowed, Cover, Reserving, Proved, Pending
  <2>2. QED BY <1>1, <1>2, <1>5, <2>1, StateCover
<1>6. CASE DeltaExpires
  <2>1. Moved(Delta.state) BY <1>0, <1>6, ExpiresShape
  <2>2. QED BY <1>4, <2>1, MovedInState
<1>7. CASE ReconcileExpired
  <2>1. Moved("recovery_required") /\ Delta.state \in {"adding", "retiring"}
    BY <1>0, <1>7, ReconcileExpiredShape DEF ReconcileExpired, Reconciles
  <2>2. InState("recovery_required") BY <2>1, MovedInState
  <2>3. QED BY <1>5, <2>1, <2>2
<1>8. ASSUME NEW d \in Device, Create(d) \/ Deregister(d) \/ Delete(d) PROVE Cover'
  <2>1. PICK w \in Write : Dispatch(w) BY <1>8, Writes DEF Create, Deregister, Delete
  <2>2. Rewritten /\ pop'.delta = Delta BY <1>0, <2>1, DispatchShape
  <2>3. InState(Delta.state) /\ pop'.rev = pop.rev
    BY <2>2 DEF Rewritten, SameDevices, InState, Ours, Delta
  <2>4. QED BY <1>4, <2>3
<1>9. CASE ReconcileAdded \/ ReconcileRetired
  <2>0. Delta.state \in {"adding", "retiring"} BY <1>9 DEF ReconcileAdded, ReconcileRetired, Reconciles
  <2>1. CASE Committed
    <3>1. /\ pop'.gen = pop.gen /\ pop'.delta = [Delta EXCEPT !.state = "committed"] /\ gen'.id = gen.id
      BY <1>0, <2>1, CommittedTyped
    <3>2. InState("committed") BY <1>3, <2>0, <3>1 DEF InState, Ours, Delta, Deltas
    <3>3. QED BY <1>5, <2>0, <3>2
  <2>2. CASE pop' = [pop EXCEPT !.delta.state = "added_ready"] /\ UNCHANGED gen
    <3>1. Moved("added_ready") BY <1>0, <2>2, MovedShape DEF DeltaState, JournalOK
    <3>2. InState("added_ready") /\ pop'.rev = pop.rev BY <2>0, <3>1, MovedInState
    <3>3. QED BY <1>5, <2>0, <3>2
  <2>3. QED BY <1>9, <2>1, <2>2 DEF ReconcileAdded, ReconcileRetired
<1>10. QED BY <1>6, <1>7, <1>8, <1>9

\* The adapter's two commands give the controller authority.
LEMMA AuthorizesCover ==
    ASSUME Journal, Cover, Calm, Consume \/ Retire
    PROVE  Cover'
<1>0. JournalOK /\ AdapterOK /\ Indexed /\ Located /\ LedgerOK BY DEF Journal
<1>1. UNCHANGED <<rec, snap, round, fleet, admitted, policy, release, window, proof>> /\ Me \in Ops /\ InRound(Me)
      /\ round = "active" /\ release = "none"
  BY DEF Consume, Retire, ledger, ports, measuring, Authority, InRound, Calm
<1>2. pc' = pc \/ pc' = [pc EXCEPT !.at = "consumed"] \/ (pc' = [pc EXCEPT !.at = "retired"] /\ pc.at = "retire")
  BY DEF Consume, Retire, Goto
<1>3. pc' = pc \/ pc'.at \notin {"note", "publish"} BY <1>0, <1>2 DEF AdapterOK, Calls
<1>4. Locked' => window = {}
  <2>1. CASE pc' = pc BY <1>1, <2>1 DEF Locked, Now, Me, Cover, Windowed
  <2>2. CASE pc' = [pc EXCEPT !.at = "consumed"]
    <3>1. pc'.at = "consumed" BY <1>0, <2>2 DEF AdapterOK, Calls
    <3>2. QED BY <3>1 DEF Locked
  <2>3. CASE pc.at = "retire" BY <2>3 DEF Locked, Cover, Windowed
  <2>4. QED BY <1>2, <2>1, <2>2, <2>3
<1>5. CASE UNCHANGED <<gen, pop>>
  <2>1. InState(Delta.state) /\ pop'.rev = pop.rev BY <1>5 DEF InState, Ours, Delta
  <2>2. Allowed(Delta.state) BY <2>1 DEF Allowed, Cover, Reserving, Dispatching, Proved
  <2>3. QED BY <1>1, <1>3, <1>4, <2>1, <2>2, StateCover
<1>6. CASE Authorized(Me, "adding") /\ Now = "consume_pending" /\ ~UNCHANGED <<gen, pop>>
  <2>1. /\ Ours /\ Delta.op = Me /\ pop' = [pop EXCEPT !.delta.state = "adding"]
        /\ Delta.state = "reserved" /\ gen' \in Gens /\ gen'.id = gen.id
    BY <1>0, <1>1, <1>6, AuthorizedShape
  <2>2. Moved("adding") BY <1>0, <2>1, MovedShape DEF DeltaState
  <2>3. InState("adding") /\ pop'.rev = pop.rev BY <2>1, <2>2, MovedInState
  <2>4. Delta.add \subseteq admitted
    BY <1>1, <1>6, <2>1 DEF Cover, AdmittedFirst, Changes, Now
  <2>5. Allowed("adding") BY <1>1, <1>6, <2>1, <2>3, <2>4 DEF Now, Allowed, Cover, Proved, Pending
  <2>6. QED BY <1>1, <1>3, <1>4, <2>3, <2>5, StateCover
<1>7. CASE Authorized(Me, "retiring") /\ Now = "retire_pending" /\ ~UNCHANGED <<gen, pop>>
  <2>1. /\ Ours /\ Delta.op = Me /\ pop' = [pop EXCEPT !.delta.state = "retiring"]
        /\ Delta.state \in {"reserved", "added_ready"} /\ gen' \in Gens /\ gen'.id = gen.id
    BY <1>0, <1>1, <1>7, AuthorizedShape
  <2>2. Moved("retiring") BY <1>0, <2>1, MovedShape DEF DeltaState
  <2>3. InState("retiring") /\ pop'.rev = pop.rev BY <2>1, <2>2, MovedInState
  <2>4. rec[Me].phase \in Retirement /\ rec[Me].phase \in Withdrawn
    BY <1>1, <1>7 DEF Now, Retirement, Withdrawn
  <2>5. Delta.remove \cap (policy \cup admitted) = {}
    BY <1>1, <2>1, <2>4 DEF Cover, WithdrawnFirst, Changes
  <2>6. Delta.remove = snap.excluded BY <1>1, <2>1, <2>4 DEF Cover, ExcludedFirst, Reserving
  <2>7. Delta.remove \cap window = {} BY <2>6 DEF Cover, Windowed
  <2>8. Allowed("retiring")
    BY <1>1, <2>1, <2>3, <2>4, <2>5, <2>7 DEF Allowed, Cover, Proved, Pending
  <2>9. QED BY <1>1, <1>3, <1>4, <2>3, <2>8, StateCover
<1>8. QED
  BY <1>0, <1>5, <1>6, <1>7 DEF Consume, Retire, Unconsumed, Unretired, Located

\* A reservation is of the operation that asks for it.
LEMMA ReserveCover ==
    ASSUME Journal, Cover, RuntimeReserve
    PROVE  Cover'
<1>0. JournalOK /\ AdapterOK /\ Indexed /\ Located /\ LedgerOK /\ Launched BY DEF Journal
<1>1. /\ UNCHANGED <<rec, snap, round, fleet, admitted, policy, release, window, proof>>
      /\ pc' = [pc EXCEPT !.at = "keep"] /\ Now = "reserved"
  BY <1>0 DEF RuntimeReserve, ledger, ports, measuring, Located
<1>2. pc'.at = "keep" /\ ~Locked' BY <1>0, <1>1 DEF AdapterOK, Calls, Locked
<1>3. CASE UNCHANGED <<gen, pop>>
  <2>1. Same BY <1>1, <1>3 DEF Same
  <2>2. QED BY <1>1, <1>2, <2>1, PlacedCover
<1>4. CASE Reserves
  <2>1. Me \in Ops /\ rec[Me].phase = "reserved" /\ rec[Me].base \in Nat
    BY <1>0, <1>1, <1>4 DEF Reserves, Now, Me, LedgerOK, Records
  <2>2. /\ gen'.id = gen.id /\ Ours' /\ pop'.rev = Delta'.base
        /\ Delta'.op = Me /\ Delta'.state = "reserved"
        /\ Delta'.base = rec[Me].base /\ Delta'.remove = rec[Me].remove
    BY <1>4 DEF Reserves, Ours, Delta, Me, NewChange, Reservable
  <2>3. Dated' BY <1>1, <2>2 DEF Cover, Dated
  <2>4. Reserving'
    BY <1>1, <2>1, <2>2, PopulationAssumption DEF Cover, Reserving
  <2>5. AdmittedFirst' BY <1>1, <1>2, <2>1, <2>2 DEF AdmittedFirst, Changes
  <2>6. WithdrawnFirst' BY <1>1, <1>2, <2>1, <2>2 DEF WithdrawnFirst, Changes, Withdrawn
  <2>7. ExcludedFirst' BY <1>1 DEF Cover, ExcludedFirst, InRound
  <2>8. Windowed' BY <1>1, <1>2 DEF Cover, Windowed
  <2>9. Dispatching' BY <2>2 DEF Dispatching
  <2>10. Proved' BY <1>2, <2>2 DEF Proved
  <2>11. Awaited' BY <1>1 DEF Cover, Awaited
  <2>12. QED BY <2>11, <2>3, <2>4, <2>5, <2>6, <2>7, <2>8, <2>9, <2>10 DEF Cover
<1>5. QED BY <1>0, <1>3, <1>4, ReserveShape

\* What a port did for the devices of the change is not undone by another port.
Serves ==
    /\ Delta.add \subseteq admitted => Delta.add \subseteq admitted'
    /\ Delta.remove \cap (policy \cup admitted) = {} => Delta.remove \cap (policy' \cup admitted') = {}

\* A port that undoes nothing keeps the cover.
LEMMA ServedCover ==
    ASSUME Cover, UNCHANGED <<gen, pop, rec, snap, round, fleet, release, window, proof>>, Serves,
           pc'.at = "note" => /\ Now' = "admissions_pending" => Delta.add \subseteq admitted'
                              /\ Now' = "withdrawn_pending" => Delta.remove \cap (policy' \cup admitted') = {},
           pc'.at # "publish", Locked' => window = {}
    PROVE  Cover'
<1>1. Delta' = Delta /\ (Ours' <=> Ours) BY DEF Delta, Ours
<1>2. \A o \in Ops : (InRound(o)' <=> InRound(o)) /\ (Changes(o)' <=> Changes(o))
  BY <1>1 DEF InRound, Changes
<1>3. Dated' BY DEF Cover, Dated
<1>4. Reserving' BY <1>1 DEF Cover, Reserving
<1>5. AdmittedFirst'
  <2>1. release = "none" => \A o \in Ops :
           Changes(o)' /\ rec'[o].phase \in {"admissions", "consume_pending"} => Delta.add \subseteq admitted'
    BY <1>2 DEF Cover, AdmittedFirst, Serves
  <2>2. QED BY <1>1, <2>1 DEF AdmittedFirst
<1>6. WithdrawnFirst'
  <2>1. \A o \in Ops : Changes(o)' /\ rec'[o].phase \in Withdrawn => Delta.remove \cap (policy' \cup admitted') = {}
    BY <1>2 DEF Cover, WithdrawnFirst, Serves
  <2>2. QED BY <1>1, <2>1 DEF WithdrawnFirst
<1>7. ExcludedFirst' BY <1>2 DEF Cover, ExcludedFirst
<1>8. Windowed' BY DEF Cover, Windowed
<1>9. Dispatching'
  <2>1. Ours /\ Delta.state = "adding" =>
           /\ Delta.op \in Ops /\ InRound(Delta.op)' /\ rec[Delta.op].phase # "completed"
           /\ Delta.add \subseteq admitted'
    <3>1. Ours /\ Delta.state = "adding" =>
             /\ Delta.op \in Ops /\ InRound(Delta.op) /\ rec[Delta.op].phase # "completed"
             /\ Delta.add \subseteq admitted
      BY DEF Cover, Dispatching
    <3>2. Delta.add \subseteq admitted => Delta.add \subseteq admitted' BY DEF Serves
    <3>3. Delta.op \in Ops /\ InRound(Delta.op) => InRound(Delta.op)' BY <1>1 DEF InRound
    <3>4. QED BY <3>1, <3>2, <3>3
  <2>2. Ours /\ Delta.state = "retiring" =>
           /\ Delta.op \in Ops /\ InRound(Delta.op) /\ rec[Delta.op].phase \in Retirement
           /\ Delta.remove \cap (policy \cup admitted) = {} /\ Delta.remove \cap window = {}
    BY DEF Cover, Dispatching
  <2>3. Ours /\ Delta.state = "retiring" =>
           /\ Delta.op \in Ops /\ InRound(Delta.op)'
           /\ Delta.remove \cap (policy' \cup admitted') = {} /\ Delta.remove \cap window' = {}
    BY <1>1, <1>2, <2>2 DEF Serves
  <2>4. QED BY <1>1, <2>1, <2>2, <2>3 DEF Dispatching
<1>10. Proved' BY <1>1 DEF Cover, Proved
<1>11. Awaited' BY DEF Cover, Awaited
<1>12. QED BY <1>11, <1>3, <1>4, <1>5, <1>6, <1>7, <1>8, <1>9, <1>10 DEF Cover

\* A port undoes nothing another one did for the change, and serves all or some.
LEMMA PortServes ==
    ASSUME JournalOK, WorldOK, Indexed, Now \in DOMAIN Receipt, NEW served, Port(served)
    PROVE  /\ Serves
           /\ served = Device /\ Now = "admissions_pending" => Delta.add \subseteq admitted'
           /\ served = Device /\ Now = "withdrawn_pending" => Delta.remove \cap (policy' \cup admitted') = {}
<1>1. /\ Delta.add \subseteq Device /\ Delta.remove \subseteq Device /\ Delta.add \cap Delta.remove = {}
  BY DEF JournalOK, Pops, Deltas, Delta, Indexed, IndexedIn
<1>2. CASE Now = "admissions_pending"
  <2>1. admitted' = admitted \cup (served \cap Delta.add) /\ policy' = policy BY <1>2, PortShape
  <2>2. QED BY <1>1, <1>2, <2>1 DEF Serves
<1>3. CASE Now = "inherited_pending"
  <2>1. admitted' = admitted /\ policy' = policy \cup (served \cap Delta.add) BY <1>3, PortShape
  <2>2. QED BY <1>1, <1>3, <2>1 DEF Serves
<1>4. CASE Now = "withdrawn_pending"
  <2>1. policy' = policy \ (served \cap Delta.remove) /\ admitted' = admitted \ (served \cap Delta.remove)
    BY <1>4, PortShape
  <2>2. QED BY <1>1, <1>4, <2>1 DEF Serves
<1>5. CASE Now = "capacity_pending"
  <2>1. admitted' = admitted /\ policy' = policy BY <1>5, PortShape
  <2>2. QED BY <1>5, <2>1 DEF Serves
<1>6. QED BY <1>2, <1>3, <1>4, <1>5, Intentions

\* The ports keep the cover, whether they answer or fail.
LEMMA PortCover ==
    ASSUME Journal, Cover, CallPort \/ PortFails
    PROVE  Cover'
<1>0. JournalOK /\ WorldOK /\ AdapterOK /\ Indexed /\ Located BY DEF Journal
<1>1. UNCHANGED <<gen, pop, rec, snap, round, fleet, release, window, proof>> /\ pc.at = "port" /\ Now \in DOMAIN Receipt
  BY <1>0 DEF CallPort, PortFails, journal, ledger, measuring, Located
<1>2. CASE CallPort
  <2>1. Port(Device) /\ pc' = [pc EXCEPT !.at = "note"] BY <1>2 DEF CallPort, Goto
  <2>2. pc'.at = "note" /\ Now' = Now BY <1>0, <1>1, <2>1 DEF AdapterOK, Calls, Now, Me
  <2>3. Locked' => window = {} BY <1>1, <2>2 DEF Locked, Cover, Windowed
  <2>4. /\ Serves
        /\ Now = "admissions_pending" => Delta.add \subseteq admitted'
        /\ Now = "withdrawn_pending" => Delta.remove \cap (policy' \cup admitted') = {}
    BY <1>0, <1>1, <2>1, PortServes
  <2>5. QED BY <1>1, <2>2, <2>3, <2>4, ServedCover
<1>3. CASE PortFails
  <2>1. PICK served \in SUBSET (Delta.add \cup Delta.remove) : Port(served) BY <1>3 DEF PortFails
  <2>2. Serves BY <1>0, <1>1, <2>1, PortServes
  <2>3. pc'.at = "idle" BY <1>3 DEF PortFails, Idle
  <2>4. ~Locked' BY <2>3 DEF Locked
  <2>5. QED BY <1>1, <2>2, <2>3, <2>4, ServedCover
<1>4. QED BY <1>2, <1>3

\* Outside a round no change may write.
LEMMA RoundCover ==
    ASSUME Cover, round' \notin {"active", "ended"}, Dated', Reserving', Windowed',
           round' = "starting" => snap'.pending = NoOne,
           (Ours /\ Delta.state \in Pending => pop.rev = Delta.base)'
    PROVE  Cover'
<1>1. \A o \in Ops : ~InRound(o)' /\ ~Changes(o)' BY DEF InRound, Changes
<1>2. AdmittedFirst' BY <1>1 DEF AdmittedFirst
<1>3. WithdrawnFirst' BY <1>1 DEF WithdrawnFirst
<1>4. ExcludedFirst' BY <1>1 DEF ExcludedFirst
<1>5. Dispatching' BY DEF Reserving, Dispatching
<1>6. Proved' BY <1>1 DEF Proved
<1>7. Awaited' BY DEF Awaited
<1>8. QED BY <1>7, <1>2, <1>3, <1>4, <1>5, <1>6 DEF Cover

\* A launch begins a generation that no change is of.
LEMMA LaunchCover ==
    ASSUME Journal, Cover, GenStep
    PROVE  Cover'
<1>0. HoldOK /\ JournalOK /\ LedgerOK /\ Launched /\ gen.id \in Nat /\ fleet \in Nat /\ pop.gen \in Nat
      /\ pop.gen <= gen.id
  BY Numbers DEF Journal, JournalOK, Gens, Pops, LedgerOK, Launched
<1>1. JournalOK' /\ pop' = pop /\ (gen' = gen \/ gen'.id = gen.id + 1) BY <1>0, GenTypes
<1>2. UNCHANGED <<rec, window, pc>> /\ round' \notin {"active", "ended"}
  BY DEF GenStep, ConsumeHold, OrdinaryStart, OrdinaryStop, StopFleet, ledger, ports, adapter, measuring
<1>3. Delta' = Delta BY <1>1 DEF Delta
<1>4. Locked' <=> Locked BY <1>2 DEF Locked, Now, Me
<1>5. (Ours /\ Delta.state \in Pending => pop.rev = Delta.base)'
  <2>1. gen'.id = gen.id + 1 => ~Ours' BY <1>0, <1>1 DEF Ours
  <2>2. gen' = gen => (Ours' <=> Ours) BY <1>1 DEF Ours
  <2>3. QED BY <1>1, <1>3, <2>1, <2>2 DEF Cover, Proved
<1>6. ASSUME NEW o \in Owners, ConsumeHold(o) PROVE Cover'
  <2>1. /\ gen'.id = gen.id + 1 /\ fleet' = gen.id + 1 /\ round' = "starting" /\ round = "none"
        /\ snap'.excluded = {} /\ snap'.pending = NoOne
    BY <1>6 DEF ConsumeHold, Launch
  <2>2. \A x \in Ops : rec[x].fleet \in Nat /\ rec[x].fleet < fleet'
    BY <1>0, <2>1, Numbers DEF Cover, Dated, LedgerOK, Records
  <2>3. Dated' BY <1>0, <1>2, <2>1, <2>2 DEF Dated
  <2>4. Reserving' BY <1>2, <1>3, <2>1, <2>2 DEF Cover, Reserving
  <2>5. Windowed' BY <1>2, <1>4, <2>1 DEF Cover, Windowed
  <2>6. QED BY <2>1, <1>2, <1>5, <2>3, <2>4, <2>5, RoundCover
<1>7. CASE OrdinaryStart \/ OrdinaryStop \/ StopFleet
  <2>1. fleet' = fleet /\ snap' = snap /\ round \notin {"active", "ended"} /\ round' # "starting"
    BY <1>7 DEF OrdinaryStart, OrdinaryStop, StopFleet
  <2>2. Dated' BY <1>0, <1>1, <1>2, <2>1 DEF Cover, Dated
  <2>3. Reserving' BY <1>2, <1>3, <2>1 DEF Cover, Reserving
  <2>4. Windowed' BY <1>2, <1>4, <2>1 DEF Cover, Windowed
  <2>5. QED BY <2>1, <1>2, <1>5, <2>2, <2>3, <2>4, RoundCover
<1>8. QED BY <1>6, <1>7 DEF GenStep

\* Neither the end of a round nor its cleanup gives a change authority.
LEMMA CleanupCover ==
    ASSUME Journal, Cover, Quiesce \/ ConfirmStopped
    PROVE  Cover'
<1>0. JournalOK /\ Indexed BY DEF Journal
<1>1. /\ UNCHANGED <<rec, snap, fleet, window, pc>>
      /\ round' \notin {"active", "ended", "starting"}
  BY DEF Quiesce, ConfirmStopped, ledger, ports, adapter, measuring
<1>2. Locked' <=> Locked BY <1>1 DEF Locked, Now, Me
<1>3. Windowed' BY <1>1, <1>2 DEF Cover, Windowed
<1>4. PICK s : InState(s) /\ s \notin {"adding", "added_ready", "retiring", "recovery_required"}
               /\ ((s = Delta.state /\ pop' = pop) \/ s \notin Pending)
  <2>1. CASE Quiesce
    <3>1. gen' = gen /\ (pop' = pop \/ Moved("quiesced")) BY <1>0, <2>1, QuiesceShape
    <3>2. CASE Unresolved
      <4>1. pop' = [pop EXCEPT !.delta.state = "quiesced"] BY <2>1, <3>2 DEF Quiesce
      <4>2. Moved("quiesced") BY <1>0, <3>1, <4>1, MovedShape DEF DeltaState, JournalOK
      <4>3. Delta.state # "none" BY <3>2 DEF Unresolved, Delta
      <4>4. QED BY <4>2, <4>3, MovedInState DEF Pending
    <3>3. CASE ~Unresolved
      <4>1. pop' = pop BY <2>1, <3>3 DEF Quiesce
      <4>2. InState(Delta.state) BY <3>1, <4>1 DEF InState, Ours, Delta
      <4>3. QED BY <3>3, <4>1, <4>2 DEF Unresolved, Delta
    <3>4. QED BY <3>2, <3>3
  <2>2. CASE ConfirmStopped
    <3>1. CASE pop' = pop /\ gen' = gen
      <4>1. InState(Delta.state) BY <3>1 DEF InState, Ours, Delta
      <4>2. QED BY <2>2, <3>1, <4>1 DEF ConfirmStopped, Cover, Reserving
    <3>2. CASE Moved("expired") /\ Delta.state \in {"quiesced", "expired", "committed"}
      BY <3>2, MovedInState DEF Pending
    <3>3. QED BY <1>0, <2>2, <3>1, <3>2, ConfirmShape
  <2>3. QED BY <2>1, <2>2
<1>5. Dated' BY <1>1, <1>4 DEF InState, Cover, Dated
<1>6. Reserving' BY <1>1, <1>4 DEF InState, Cover, Reserving
<1>7. (Ours /\ Delta.state \in Pending => pop.rev = Delta.base)'
  BY <1>4 DEF InState, Cover, Proved
<1>8. round' # "starting" BY <1>1
<1>9. QED BY <1>8, <1>1, <1>3, <1>5, <1>6, <1>7, RoundCover

\* A round begins without a change, and its end leaves the change as it is.
LEMMA EstablishCover ==
    ASSUME Journal, Cover, Establish
    PROVE  Cover'
<1>1. UNCHANGED <<gen, pop, rec, fleet, window, pc, proof>> /\ round = "starting" /\ round' = "active"
      /\ snap' = [snap EXCEPT !.members = gen.alloc]
  BY DEF Establish, journal, adapter, measuring
<1>2. Delta' = Delta /\ (Ours' <=> Ours) BY <1>1 DEF Delta, Ours
<1>3. snap'.excluded = snap.excluded /\ snap'.pending = snap.pending BY <1>1 DEF Journal, LedgerOK, Snaps
<1>4. \A o \in Ops : ~InRound(o)' /\ ~Changes(o)' BY <1>1 DEF Cover, Reserving, InRound, Changes
<1>5. Dated' BY <1>1 DEF Cover, Dated
<1>6. Reserving' BY <1>1, <1>2 DEF Cover, Reserving
<1>7. AdmittedFirst' BY <1>4 DEF AdmittedFirst
<1>8. WithdrawnFirst' BY <1>4 DEF WithdrawnFirst
<1>9. ExcludedFirst' BY <1>4 DEF ExcludedFirst
<1>10. Windowed'
  <2>1. Locked' <=> Locked BY <1>1 DEF Locked, Now, Me
  <2>2. QED BY <1>1, <1>3, <2>1 DEF Cover, Windowed
<1>11. Dispatching' BY <1>1, <1>2 DEF Cover, Reserving, Dispatching
<1>12. Proved' BY <1>1, <1>2, <1>4 DEF Cover, Proved
<1>13. Awaited' BY <1>1, <1>3, PopulationAssumption DEF Cover, Awaited, Reserving
<1>14. QED BY <1>13, <1>5, <1>6, <1>7, <1>8, <1>9, <1>10, <1>11, <1>12 DEF Cover

\* A closed round keeps the authority of its change until it is quiesced.
LEMMA CloseCover ==
    ASSUME Journal, Cover, Close
    PROVE  Cover'
<1>1. UNCHANGED <<gen, pop, rec, snap, fleet, admitted, policy, release, window, pc, proof>>
      /\ round \in {"starting", "active"} /\ round' = "ended"
  BY DEF Close, journal, ports, adapter, measuring
<1>2. Delta' = Delta /\ (Ours' <=> Ours) /\ Me' = Me /\ Now' = Now BY <1>1 DEF Delta, Ours, Me, Now
<1>3. \A o \in Ops : (InRound(o)' => InRound(o)) /\ (Changes(o)' => Changes(o))
  BY <1>1, <1>2 DEF Cover, Reserving, InRound, Changes
<1>4. Dated' BY <1>1 DEF Cover, Dated
<1>5. Reserving' BY <1>1, <1>2 DEF Cover, Reserving
<1>6. AdmittedFirst' BY <1>1, <1>2, <1>3 DEF Cover, AdmittedFirst
<1>7. WithdrawnFirst' BY <1>1, <1>2, <1>3 DEF Cover, WithdrawnFirst
<1>8. ExcludedFirst' BY <1>1, <1>3 DEF Cover, ExcludedFirst
<1>9. Windowed'
  <2>1. Locked' <=> Locked BY <1>1 DEF Locked, Now, Me
  <2>2. QED BY <1>1, <2>1 DEF Cover, Windowed
<1>10. Dispatching'
  <2>1. \A o \in Ops : InRound(o) => InRound(o)' BY <1>1 DEF InRound
  <2>2. QED BY <1>1, <1>2, <2>1 DEF Cover, Dispatching
<1>11. Proved' BY <1>1, <1>2, <1>3 DEF Cover, Proved
<1>12. Awaited' BY <1>1, PopulationAssumption DEF Cover, Awaited, Reserving
<1>13. QED BY <1>12, <1>4, <1>5, <1>6, <1>7, <1>8, <1>9, <1>10, <1>11 DEF Cover

\* A window, or a step that is none of this.
LEMMA WindowCover ==
    ASSUME Cover, UNCHANGED <<gen, pop, rec, snap, round, fleet, admitted, policy, release, pc, proof>>,
           Locked => window' = {}, window' \cap snap.excluded = {}
    PROVE  Cover'
<1>1. Delta' = Delta /\ (Ours' <=> Ours) /\ Me' = Me /\ Now' = Now /\ (Locked' <=> Locked)
  BY DEF Delta, Ours, Me, Now, Locked
<1>2. \A o \in Ops : (InRound(o)' <=> InRound(o)) /\ (Changes(o)' <=> Changes(o))
  BY <1>1 DEF InRound, Changes
<1>3. Dated' BY DEF Cover, Dated
<1>4. Reserving' BY <1>1 DEF Cover, Reserving
<1>5. AdmittedFirst' BY <1>1, <1>2 DEF Cover, AdmittedFirst
<1>6. WithdrawnFirst' BY <1>1, <1>2 DEF Cover, WithdrawnFirst
<1>7. ExcludedFirst' BY <1>2 DEF Cover, ExcludedFirst
<1>8. Windowed' BY <1>1 DEF Windowed
<1>9. Dispatching'
  <2>1. ASSUME Ours, Delta.state = "retiring"
        PROVE  /\ Delta.op \in Ops /\ InRound(Delta.op) /\ rec[Delta.op].phase \in Retirement
               /\ Delta.remove \cap (policy \cup admitted) = {} /\ Delta.remove \cap window' = {}
    <3>1. /\ Delta.op \in Ops /\ InRound(Delta.op) /\ rec[Delta.op].phase \in Retirement
          /\ Delta.remove \cap (policy \cup admitted) = {}
      BY <2>1 DEF Cover, Dispatching
    <3>2. snap.excluded = Delta.remove BY <3>1 DEF Cover, ExcludedFirst, Reserving
    <3>3. QED BY <3>1, <3>2
  <2>2. QED BY <1>1, <1>2, <2>1 DEF Cover, Dispatching
<1>10. Proved' BY <1>1, <1>2 DEF Cover, Proved
<1>11. Awaited' BY DEF Cover, Awaited
<1>12. QED BY <1>11, <1>3, <1>4, <1>5, <1>6, <1>7, <1>8, <1>9, <1>10 DEF Cover

\* A restart ends the window and the call of the adapter.
LEMMA CrashCover ==
    ASSUME Cover, UNCHANGED <<gen, pop, rec, snap, round, fleet, admitted, policy, release>>, pc' = Idle, window' = {}
    PROVE  Cover'
<1>1. Delta' = Delta /\ (Ours' <=> Ours) /\ pc'.at = "idle" /\ ~Locked'
  BY DEF Delta, Ours, Idle, Locked
<1>2. \A o \in Ops : (InRound(o)' <=> InRound(o)) /\ (Changes(o)' <=> Changes(o))
  BY <1>1 DEF InRound, Changes
<1>3. Dated' BY DEF Cover, Dated
<1>4. Reserving' BY <1>1 DEF Cover, Reserving
<1>5. AdmittedFirst' BY <1>1, <1>2 DEF Cover, AdmittedFirst
<1>6. WithdrawnFirst' BY <1>1, <1>2 DEF Cover, WithdrawnFirst
<1>7. ExcludedFirst' BY <1>2 DEF Cover, ExcludedFirst
<1>8. Windowed' BY <1>1 DEF Windowed
<1>9. Dispatching' BY <1>1, <1>2 DEF Cover, Dispatching
<1>10. Proved' BY <1>1 DEF Cover, Proved
<1>11. Awaited' BY DEF Cover, Awaited
<1>12. QED BY <1>11, <1>3, <1>4, <1>5, <1>6, <1>7, <1>8, <1>9, <1>10 DEF Cover

\* Holds, windows, deliveries and retired pods give nothing authority.
LEMMA OtherCover ==
    ASSUME Journal, Cover,
           \/ \E o \in Owners : ReserveHold(o) \/ ReleaseHold(o)
           \/ HoldExpires \/ BeginWindow \/ EndWindow \/ RetirePods
           \/ \E w \in Write : Deliver(w)
    PROVE  Cover'
<1>1. UNCHANGED <<gen, pop, rec, snap, round, fleet, admitted, policy, release, pc, proof>>
  BY DEF ReserveHold, ReleaseHold, HoldExpires, BeginWindow, EndWindow, RetirePods, Deliver,
     journal, ledger, ports, adapter
<1>2. (Locked => window' = {}) /\ window' \cap snap.excluded = {}
  <2>1. CASE window' \in {window, {}} BY <2>1 DEF Cover, Windowed
  <2>2. CASE BeginWindow BY <2>2 DEF BeginWindow
  <2>3. window' \in {window, {}} \/ BeginWindow
    BY DEF ReserveHold, ReleaseHold, HoldExpires, EndWindow, RetirePods, Deliver, measuring
  <2>4. QED BY <2>1, <2>2, <2>3
<1>3. QED BY <1>1, <1>2, WindowCover

\* Nothing is under way at the start.
LEMMA InitCover == Init => Cover
<1> SUFFICES ASSUME Init PROVE Cover
  OBVIOUS
<1>1. /\ Delta = NoDelta /\ Delta.op = NoOne /\ Delta.state = "none" /\ round = "none" /\ fleet = 0 /\ gen.id = 0
      /\ \A o \in Ops : rec[o].fleet = 0
      /\ window = {} /\ NoOne \notin Ops
  BY PopulationAssumption DEF Init, NoPop, NoDelta, Delta, NoRecord
<1>2. \A o \in Ops : ~InRound(o) /\ ~Changes(o) BY <1>1 DEF InRound, Changes
<1>3. Dated BY <1>1 DEF Dated
<1>4. Reserving BY <1>1 DEF Reserving
<1>5. AdmittedFirst BY <1>2 DEF AdmittedFirst
<1>6. WithdrawnFirst BY <1>2 DEF WithdrawnFirst
<1>7. ExcludedFirst BY <1>2 DEF ExcludedFirst
<1>8. Windowed BY <1>1 DEF Windowed
<1>9. Dispatching BY <1>1 DEF Dispatching
<1>10. Proved BY <1>1, <1>2 DEF Proved, Pending
<1>11. Awaited BY <1>1 DEF Awaited
<1>12. QED BY <1>11, <1>3, <1>4, <1>5, <1>6, <1>7, <1>8, <1>9, <1>10 DEF Cover

\* What a release takes away, no device that may be created needs.
LEMMA TakenCover ==
    ASSUME Cover, UNCHANGED <<gen, pop, rec, snap, round, fleet, window, pc, proof>>,
           admitted' \subseteq admitted, policy' \subseteq policy, release' # "none",
           admitted' = admitted \/ ~(Ours /\ Delta.state = "adding")
    PROVE  Cover'
<1>1. Delta' = Delta /\ (Ours' <=> Ours) /\ Me' = Me /\ Now' = Now /\ (Locked' <=> Locked)
  BY DEF Delta, Ours, Me, Now, Locked
<1>2. \A o \in Ops : (InRound(o)' <=> InRound(o)) /\ (Changes(o)' <=> Changes(o))
  BY <1>1 DEF InRound, Changes
<1>3. Dated' BY DEF Cover, Dated
<1>4. Reserving' BY <1>1 DEF Cover, Reserving
<1>5. Awaited' BY DEF Cover, Awaited
<1>6. AdmittedFirst' BY DEF AdmittedFirst
<1>7. policy' \cup admitted' \subseteq policy \cup admitted OBVIOUS
<1>8. WithdrawnFirst' BY <1>1, <1>2, <1>7 DEF Cover, WithdrawnFirst
<1>9. ExcludedFirst' BY <1>2 DEF Cover, ExcludedFirst
<1>10. Windowed' BY <1>1 DEF Cover, Windowed
<1>11. Dispatching' BY <1>1, <1>2, <1>7 DEF Cover, Dispatching
<1>12. Proved' BY <1>1, <1>2 DEF Cover, Proved
<1>13. QED BY <1>3, <1>4, <1>5, <1>6, <1>8, <1>9, <1>10, <1>11, <1>12 DEF Cover

\* A device that may be created is of the operation the ledger awaits.
LEMMA AddingAwaited ==
    ASSUME Cover, Ours, Delta.state = "adding"
    PROVE  Delta.op \in Ops /\ snap.pending = Delta.op
<1>1. Delta.op \in Ops /\ InRound(Delta.op) /\ rec[Delta.op].phase \notin {"none", "completed"}
  BY DEF Cover, Dispatching, Reserving
<1>2. QED BY <1>1 DEF InRound, Cover, Awaited

\* A release freezes the change, and takes only from a change that is frozen.
LEMMA ReleaseCover ==
    ASSUME Journal, Cover, Calm, Release
    PROVE  Cover'
<1>0. JournalOK BY DEF Journal
<1>1. CASE FreezeChange
  <2>1. /\ UNCHANGED <<rec, snap, round, fleet, admitted, policy, window, pc, proof>>
        /\ release = "none" /\ gen' = gen
        /\ pop' = pop \/ (Unresolved /\ pop' = [pop EXCEPT !.delta.state = "quiesced"])
    BY <1>1 DEF FreezeChange, ledger, adapter, measuring
  <2>2. Locked' => window = {} BY <2>1 DEF Locked, Now, Me, Cover, Windowed
  <2>3. CASE pop' = pop
    <3>1. InState(Delta.state) /\ pop'.rev = pop.rev BY <2>1, <2>3 DEF InState, Ours, Delta
    <3>2. Allowed(Delta.state) BY <3>1 DEF Allowed, Cover, Reserving, Dispatching, Proved
    <3>3. QED BY <2>1, <2>2, <3>1, <3>2, StateCover
  <2>4. CASE Unresolved /\ pop' = [pop EXCEPT !.delta.state = "quiesced"]
    <3>1. Moved("quiesced") BY <1>0, <2>1, <2>4, MovedShape DEF DeltaState, JournalOK
    <3>2. Delta.state \notin {"none", "committed"} BY <2>4 DEF Unresolved, Delta
    <3>3. InState("quiesced") BY <3>1, <3>2, MovedInState
    <3>4. Allowed("quiesced") BY <3>2 DEF Allowed, Pending
    <3>5. QED BY <2>1, <2>2, <3>3, <3>4, StateCover
  <2>5. QED BY <2>1, <2>3, <2>4
<1>2. CASE UndoChange \/ CloseFleet \/ RestorePolicies
  <2>1. UNCHANGED <<gen, pop, rec, snap, round, fleet, window, pc, proof>> /\ release' # "none"
    BY <1>2 DEF UndoChange, CloseFleet, RestorePolicies, journal, ledger, adapter, measuring
  <2>2. admitted' \subseteq admitted /\ policy' \subseteq policy
    BY <1>2 DEF UndoChange, CloseFleet, RestorePolicies
  <2>3. admitted' = admitted \/ ~(Ours /\ Delta.state = "adding")
    BY <1>2 DEF UndoChange, CloseFleet, RestorePolicies, Calm
  <2>4. QED BY <2>1, <2>2, <2>3, TakenCover
<1>3. QED BY <1>1, <1>2 DEF Release

\* Under a release only the release goes on: the adapter takes nothing up.
LEMMA NextCalm == Journal /\ Cover /\ Calm /\ [Next]_vars => Calm'
<1> SUFFICES ASSUME Journal, Cover, Calm, [Next]_vars PROVE Calm'
  OBVIOUS
<1>0. JournalOK /\ HoldOK /\ HistoryOK /\ Indexed /\ gen.id \in Nat /\ pop.gen \in Nat /\ pop.gen <= gen.id
  BY Numbers DEF Journal, JournalOK, Gens, Pops, Launched
<1>1. CASE UNCHANGED <<gen, pop>> /\ pc'.at \in {pc.at, "idle"} /\ release' \in {release, "none"}
  BY <1>1 DEF Calm, Ours, Delta
<1>2. CASE Release
  <2>1. CASE FreezeChange
    <3>1. /\ pc' = pc /\ pc = Idle /\ gen' = gen
          /\ \/ pop' = IF Unresolved THEN [pop EXCEPT !.delta.state = "quiesced"] ELSE pop
             \/ pop' = pop /\ snap.pending # Delta.op
      BY <2>1 DEF FreezeChange, adapter
    <3>2. CASE pop' = [pop EXCEPT !.delta.state = "quiesced"]
      <4>1. Moved("quiesced") BY <1>0, <3>1, <3>2, MovedShape DEF DeltaState, JournalOK
      <4>2. QED BY <3>1, <4>1 DEF Moved, Calm, Delta, Idle
    <3>3. CASE pop' = pop /\ ~Unresolved BY <3>1, <3>3 DEF Calm, Delta, Ours, Unresolved, Idle
    <3>4. CASE pop' = pop /\ snap.pending # Delta.op
      BY <3>1, <3>4, AddingAwaited DEF Calm, Delta, Ours, Idle
    <3>5. QED BY <3>1, <3>2, <3>3, <3>4
  <2>2. CASE UndoChange \/ RestorePolicies
    BY <2>2 DEF UndoChange, RestorePolicies, Calm, journal, adapter, Ours, Delta
  <2>3. CASE CloseFleet
    <3>1. UNCHANGED <<gen, pop>> /\ pc' = pc /\ pc = Idle /\ (release = "frozen" \/ snap.pending = NoOne)
      BY <2>3 DEF CloseFleet, journal, adapter
    <3>2. ~(Ours /\ Delta.state = "adding") BY <3>1, AddingAwaited, PopulationAssumption DEF Calm
    <3>3. QED BY <3>1, <3>2 DEF Calm, Ours, Delta, Idle
  <2>4. QED BY <1>2, <2>1, <2>2, <2>3 DEF Release
<1>3. CASE Change
  <2>1. CASE AdapterFails BY <1>1, <2>1 DEF AdapterFails, journal, ports, Idle
  <2>2. CASE ~AdapterFails
    <3>1. release' = release
      BY <1>3, <2>2
      DEF Change, Submit, StartReservation, RuntimeReserve, KeepReservation, StartPort, CallPort, PortFails,
         NotePort, StartConsume, Consume, NoteConsumed, Exclude, Retire, NoteRetired, Readback, Publish, ports
    <3>2. release = "none" \/ pc.at # "idle"
      BY <1>3, <2>2
      DEF Change, Submit, StartReservation, RuntimeReserve, KeepReservation, StartPort, CallPort, PortFails,
         NotePort, StartConsume, Consume, NoteConsumed, Exclude, Retire, NoteRetired, Readback, Publish
    <3>3. QED BY <3>1, <3>2 DEF Calm
  <2>3. QED BY <2>1, <2>2
<1>4. CASE Reconcile
  <2>1. pc' = pc /\ release' = release
    BY <1>4
    DEF Reconcile, DeltaExpires, ReconcileExpired, ReconcileAdded, ReconcileRetired, Create, Deregister, Delete,
       Dispatch, Deliver, ports, adapter
  <2>2. ASSUME NEW s, Moved(s), s = "adding" => Delta.state = "adding", gen'.id = gen.id PROVE Calm'
    BY <2>1, <2>2 DEF Calm, Moved, Rewritten, SameDevices, Ours, Delta
  <2>3. CASE DeltaExpires BY <1>0, <2>2, <2>3, ExpiresShape
  <2>4. CASE ReconcileExpired BY <1>0, <2>2, <2>4, ReconcileExpiredShape
  <2>5. CASE Committed
    <3>1. pop'.delta = [Delta EXCEPT !.state = "committed"] BY <1>0, <2>5, CommittedTyped
    <3>2. Delta'.state # "adding" BY <1>0, <3>1 DEF Delta, JournalOK, Pops, Deltas
    <3>3. QED BY <2>1, <3>2 DEF Calm
  <2>6. CASE pop' = [pop EXCEPT !.delta.state = "added_ready"] /\ UNCHANGED gen
    <3>1. Moved("added_ready") BY <1>0, <2>6, MovedShape DEF DeltaState, JournalOK
    <3>2. QED BY <2>2, <2>6, <3>1
  <2>7. ASSUME NEW d \in Device, Create(d) \/ Deregister(d) \/ Delete(d) PROVE Calm'
    <3>1. PICK w \in Write : Dispatch(w) BY <2>7, Writes DEF Create, Deregister, Delete
    <3>2. Rewritten /\ pop'.delta = Delta /\ gen' = gen BY <1>0, <3>1, DispatchShape
    <3>3. QED BY <2>1, <3>2 DEF Rewritten, SameDevices, Calm, Ours, Delta
  <2>8. ASSUME NEW w \in Write, Deliver(w) PROVE Calm'
    BY <1>1, <2>1, <2>8 DEF Deliver, journal
  <2>9. QED
    BY <1>4, <2>3, <2>4, <2>5, <2>6, <2>7, <2>8 DEF Reconcile, ReconcileAdded, ReconcileRetired
<1>5. CASE GenStep
  <2>1. pop' = pop /\ (gen' = gen \/ gen'.id = gen.id + 1) BY <1>0, <1>5, GenTypes
  <2>2. pc' = pc /\ release' = release
    BY <1>5 DEF GenStep, ConsumeHold, OrdinaryStart, OrdinaryStop, StopFleet, ports, adapter
  <2>3. CASE gen' = gen BY <1>1, <2>1, <2>2, <2>3
  <2>4. CASE gen'.id = gen.id + 1
    <3>1. ~Ours' BY <1>0, <2>1, <2>4 DEF Ours
    <3>2. QED BY <2>2, <3>1 DEF Calm
  <2>5. QED BY <2>1, <2>3, <2>4
<1>6. CASE Quiesce
  <2>1. pc' = pc /\ release' = release BY <1>6 DEF Quiesce, ports, adapter
  <2>2. gen' = gen /\ (pop' = pop \/ Moved("quiesced")) BY <1>0, <1>6, QuiesceShape
  <2>3. QED BY <1>1, <2>1, <2>2 DEF Calm, Moved, Delta
<1>7. CASE ConfirmStopped BY <1>7 DEF ConfirmStopped, Calm
<1>8. CASE Holding \/ Cleanup
  <2>1. ASSUME NEW o \in Owners, ReserveHold(o) \/ ReleaseHold(o) PROVE Calm'
    BY <1>1, <2>1 DEF ReserveHold, ReleaseHold, ports, adapter
  <2>2. CASE HoldExpires \/ Establish \/ Close \/ RetirePods
    BY <1>1, <2>2 DEF HoldExpires, Establish, Close, RetirePods, journal, ports, adapter
  <2>3. QED BY <1>5, <1>6, <1>7, <1>8, <2>1, <2>2 DEF Holding, Cleanup, GenStep
<1>9. CASE BeginWindow \/ EndWindow \/ Crash \/ UNCHANGED vars
  BY <1>1, <1>9 DEF BeginWindow, EndWindow, Crash, vars, journal, ports, adapter, Idle
<1>10. QED BY <1>2, <1>3, <1>4, <1>8, <1>9 DEF Next

\* Every step keeps the cover.
LEMMA NextCover == Journal /\ Cover /\ Calm /\ [Next]_vars => Cover'
<1> SUFFICES ASSUME Journal, Cover, Calm, [Next]_vars PROVE Cover'
  OBVIOUS
<1>1. CASE Holding
  BY <1>1, LaunchCover, OtherCover, EstablishCover DEF Holding, GenStep
<1>2. CASE Change
  BY <1>2, SubmitCover, StillCover, ReserveCover, CheckpointsCover, StartPortCover, PortCover, NotePortCover,
     AuthorizesCover, ExcludeCover, ReadbackCover, PublishCover
  DEF Change
<1>3. CASE Reconcile
  BY <1>3, ControllerCover, OtherCover DEF Reconcile
<1>4. CASE Release \/ Cleanup
  BY <1>4, ReleaseCover, CloseCover, CleanupCover, LaunchCover, OtherCover DEF Cleanup, GenStep
<1>5. CASE BeginWindow \/ EndWindow BY <1>5, OtherCover
<1>6. CASE Crash BY <1>6, CrashCover DEF Crash, journal, ledger, ports
<1>7. CASE UNCHANGED vars
  BY <1>7, WindowCover DEF vars, Cover, Windowed
<1>8. QED BY <1>1, <1>2, <1>3, <1>4, <1>5, <1>6, <1>7 DEF Next

\* Ledger, journal and ports agree on the change under way.
THEOREM CoverAlways == Spec => [](Cover /\ Calm)
<1>1. Init => Calm BY DEF Init, Calm
<1>2. QED BY <1>1, InitCover, NextCover, NextCalm, JournalAlways, PTL DEF Spec

\* A create is sent only for an admitted device; a deregistration and a deletion
\* only for one without policy, admission and measurement.
THEOREM DevicesCovered == Spec => Covered
<1>1. ASSUME Journal, Cover, [Next]_vars
      PROVE  \A w \in Write : sent'[w] > sent[w] =>
                IF w[2] = "create" THEN w[1] \in admitted ELSE w[1] \notin policy \cup admitted \cup window
  <2> TAKE w \in Write
  <2> HAVE sent'[w] > sent[w]
  <2>0. JournalOK /\ HistoryOK /\ sent \in [Write -> Nat] BY <1>1 DEF Journal, HistoryOK
  <2>1. PICK d \in Device : Create(d) \/ Deregister(d) \/ Delete(d)
    <3>1. sent' # sent BY <2>0
    <3>2. HistoryStep BY <1>1, <3>1, HistoryFrame DEF vars
    <3>3. ~\E o \in Owners : ConsumeHold(o) BY <2>0 DEF ConsumeHold
    <3>4. QED BY <3>1, <3>2, <3>3 DEF HistoryStep, Crash
  <2>2. ASSUME NEW v \in Write, Dispatch(v) PROVE w = v
    <3>1. sent' = [sent EXCEPT ![v] = sent[v] + 1] BY <2>0, <2>2, DispatchShape
    <3>2. QED BY <2>0, <3>1
  <2>3. CASE Create(d)
    <3>1. w = <<d, "create">> BY <2>2, <2>3, Writes DEF Create
    <3>2. Ours /\ Delta.state = "adding" /\ d \in Delta.add BY <2>3 DEF Create, Reconciles, Ours
    <3>3. QED BY <1>1, <3>1, <3>2 DEF Cover, Dispatching
  <2>4. CASE Deregister(d) \/ Delete(d)
    <3>1. w = <<d, "deregister">> \/ w = <<d, "delete">> BY <2>2, <2>4, Writes DEF Deregister, Delete
    <3>2. Ours /\ Delta.state = "retiring" /\ d \in Delta.remove
      BY <2>4 DEF Deregister, Delete, Departing, Reconciles, Ours
    <3>3. QED BY <1>1, <3>1, <3>2 DEF Cover, Dispatching
  <2>5. QED BY <2>1, <2>3, <2>4
<1>2. QED BY <1>1, JournalAlways, CoverAlways, PTL DEF Spec, Covered

-----------------------------------------------------------------------------
\* The published population

\* An operation of the open round that is neither new nor done.
Unfinished(o) == round = "active" /\ rec[o].fleet = fleet /\ rec[o].phase \notin {"none", "completed"}
Current == pop.gen = fleet

\* A round is of the generation it launched, and measures only while it is open.
Following ==
    /\ round \in {"starting", "active", "ended", "stopping"} => gen.id = fleet
    /\ round \notin {"active", "ended"} => window = {}
    /\ round = "starting" => ~Current /\ snap.rev = 0

\* An operation past its reservation has the change of the journal.
Kept ==
    /\ \A o \in Ops : Unfinished(o) /\ rec[o].phase # "reserved" => Delta.op = o /\ Current
    /\ Me \in Ops /\ Unfinished(Me) /\ pc.at = "keep" => Delta.op = Me /\ Current

\* The change of the journal is of this round, done only when committed, and
\* until it is published its additions are new.
Owning ==
    round = "active" /\ Current =>
        /\ Delta.op \in Ops /\ rec[Delta.op].fleet = fleet
        /\ Delta.state = "committed" \/ Unfinished(Delta.op)
        /\ Unfinished(Delta.op) => Delta.add \cap snap.members = {}

Inheriting == {"inherited", "withdrawn_pending", "withdrawn", "retire_pending", "retiring", "native_ready"}

\* The devices of a change are under policy before others lose theirs, unless a
\* release takes it back.
InheritedFirst ==
    release = "none" =>
    /\ \A o \in Ops : Unfinished(o) /\ rec[o].phase \in Inheriting => Delta.add \subseteq policy
    /\ Me \in Ops /\ Unfinished(Me) /\ pc.at = "note" /\ Now = "inherited_pending" => Delta.add \subseteq policy

\* A commit that was not published yet.
Ahead == Delta.state = "committed" /\ rec[Delta.op].phase # "completed"

\* The journal is the published population, or one commit ahead of it.
Revised ==
    round = "active" =>
        /\ ~Current => snap.rev = 0 /\ snap.members = gen.alloc
        /\ Current /\ ~Ahead => pop.rev = snap.rev /\ pop.births = snap.members
        /\ Current /\ Ahead => /\ pop.rev = snap.rev + 1
                               /\ pop.births = (snap.members \cup Delta.add) \ Delta.remove

\* What is measured is published, and under policy or on its way out until a
\* release closes the fleet.
Leaving == IF snap.pending = NoOne THEN {} ELSE rec[snap.pending].remove
Measured ==
    round = "active" =>
        /\ window \subseteq snap.members
        /\ release # "closing" => snap.members \subseteq policy \cup Leaving

\* A readback of the next revision is still what the journal says.
Carried ==
    Me \in Ops /\ Unfinished(Me) /\ pc.at = "publish" /\ proof.rev = rec[Me].base + 1 =>
        proof.rev = pop.rev /\ proof.members = pop.births

Publishing ==
    Following /\ Kept /\ Owning /\ InheritedFirst /\ Revised /\ Measured /\ Carried

\* The operations under way are those the ledger awaits.
LEMMA UnfinishedAwaited ==
    ASSUME Cover
    PROVE  \A o \in Ops : Unfinished(o) <=> round = "active" /\ snap.pending = o
  BY DEF Cover, Awaited, Unfinished

\* A round that is not open has nothing to publish.
LEMMA ClosedPublishing ==
    ASSUME Following', round' # "active"
    PROVE  Publishing'
<1>1. \A o \in Ops : ~Unfinished(o)' BY DEF Unfinished
<1>3. Kept' BY <1>1 DEF Kept
<1>4. Owning' BY DEF Owning
<1>5. InheritedFirst' BY <1>1 DEF InheritedFirst
<1>6. Revised' /\ Measured' BY DEF Revised, Measured
<1>7. Carried' BY <1>1 DEF Carried
<1>8. QED BY <1>3, <1>4, <1>5, <1>6, <1>7 DEF Publishing

\* The adapter moves, and nothing else does.
LEMMA PlacedPublishing ==
    ASSUME Publishing, UNCHANGED <<gen, pop, rec, snap, round, fleet, policy, release, window>>,
           pc'.at \notin {"note", "keep"}, pc'.at = "publish" => Carried'
    PROVE  Publishing'
<1>1. Delta' = Delta /\ (Current' <=> Current) /\ Leaving' = Leaving /\ (Ahead' <=> Ahead)
  BY DEF Delta, Current, Leaving, Ahead
<1>2. \A o \in Ops : Unfinished(o)' <=> Unfinished(o) BY DEF Unfinished
<1>3. Following' BY <1>1 DEF Publishing, Following
<1>5. Kept' BY <1>1, <1>2 DEF Publishing, Kept
<1>6. Owning' BY <1>1, <1>2 DEF Publishing, Owning
<1>7. InheritedFirst' BY <1>1, <1>2 DEF Publishing, InheritedFirst
<1>8. Revised' BY <1>1 DEF Publishing, Revised
<1>9. Measured' BY <1>1 DEF Publishing, Measured
<1>10. Carried' BY DEF Carried
<1>11. QED BY <1>3, <1>5, <1>6, <1>7, <1>8, <1>9, <1>10 DEF Publishing

\* A checkpoint between the reservation of a change and its publication.
LEMMA CheckpointPublishing ==
    ASSUME Journal, Publishing, UNCHANGED <<gen, pop, round, fleet, policy, release, window>>,
           snap'.rev = snap.rev, snap'.members = snap.members, snap'.pending = snap.pending,
           NEW to \in Phase \ {"none", "completed"}, CheckpointAt(to), Now \notin {"none", "completed"},
           Now = "reserved" => to = "reserved" \/ pc.at = "keep",
           to \in Inheriting => Now \in Inheriting \/ (pc.at = "note" /\ Now = "inherited_pending"),
           pc'.at \notin {"note", "keep"}, pc'.at = "publish" => Carried'
    PROVE  Publishing'
<1>1. /\ Me \in Ops /\ round = "active" /\ rec[Me].fleet = fleet /\ snap.pending = Me /\ Now = rec[Me].phase
      /\ \A o \in Ops : /\ rec'[o].fleet = rec[o].fleet /\ rec'[o].base = rec[o].base
                        /\ rec'[o].remove = rec[o].remove
                        /\ rec'[o].phase = IF o = Me THEN to ELSE rec[o].phase
  BY DEF CheckpointAt, Journal, LedgerOK, Records, Now
<1>2. Delta' = Delta /\ (Current' <=> Current)
  BY DEF Delta, Current
<1>3. \A o \in Ops : Unfinished(o)' <=> Unfinished(o) BY <1>1 DEF Unfinished
<1>4. Unfinished(Me) BY <1>1 DEF Unfinished
<1>5. Leaving' = Leaving BY <1>1 DEF Leaving
<1>6. Following' BY <1>2 DEF Publishing, Following
<1>8. Kept'
  <2>1. ASSUME NEW o \in Ops, Unfinished(o)', rec'[o].phase # "reserved" PROVE Delta.op = o /\ Current
    <3>1. CASE o # Me BY <1>1, <1>3, <2>1, <3>1 DEF Publishing, Kept
    <3>2. CASE o = Me
      <4>1. Now # "reserved" \/ pc.at = "keep" BY <1>1, <2>1, <3>2
      <4>2. QED BY <1>1, <1>4, <3>2, <4>1 DEF Publishing, Kept
    <3>3. QED BY <3>1, <3>2
  <2>2. QED BY <1>2, <2>1 DEF Kept
<1>9. Owning' BY <1>1, <1>2, <1>3 DEF Publishing, Owning
<1>10. InheritedFirst'
  <2>1. ASSUME release = "none", NEW o \in Ops, Unfinished(o)', rec'[o].phase \in Inheriting PROVE Delta.add \subseteq policy
    <3>1. CASE o # Me BY <1>1, <1>3, <2>1, <3>1 DEF Publishing, InheritedFirst
    <3>2. CASE o = Me BY <1>1, <1>4, <2>1, <3>2 DEF Publishing, InheritedFirst
    <3>3. QED BY <3>1, <3>2
  <2>2. QED BY <1>2, <2>1 DEF InheritedFirst
<1>11. Revised'
  <2>1. CASE Current
    <3>1. Delta.op \in Ops BY <1>1, <2>1 DEF Publishing, Owning
    <3>2. Ahead' <=> Ahead BY <1>1, <1>2, <3>1 DEF Ahead
    <3>3. QED BY <1>1, <1>2, <2>1, <3>2 DEF Publishing, Revised
  <2>2. CASE ~Current BY <1>1, <1>2, <2>2 DEF Publishing, Revised
  <2>3. QED BY <2>1, <2>2
<1>12. Measured' BY <1>1, <1>5 DEF Publishing, Measured
<1>13. Carried' BY DEF Carried
<1>14. QED BY <1>6, <1>8, <1>9, <1>10, <1>11, <1>12, <1>13 DEF Publishing

\* What each checkpoint on the way moves.
LEMMA CheckpointsPublishing ==
    ASSUME Journal, Publishing,
           KeepReservation \/ StartConsume \/ NoteConsumed \/ NoteRetired
    PROVE  Publishing'
<1>0. LedgerOK /\ AdapterOK /\ Located BY DEF Journal
<1>1. UNCHANGED <<gen, pop, round, fleet, policy, release, window, snap>>
  BY DEF KeepReservation, StartConsume, NoteConsumed, NoteRetired, journal, ports, measuring
<1>2. PICK to \in {"held", "consume_pending", "adding", "retiring"} :
         /\ CheckpointAt(to)
         /\ pc' = [pc EXCEPT !.at = "resume"] \/ pc' = [pc EXCEPT !.at = "consume"]
         /\ to = "consume_pending" => Now = "admissions"
         /\ to = "held" => Now = "reserved" /\ pc.at = "keep"
         /\ to = "adding" => Now = "consume_pending"
         /\ to = "retiring" => Now = "retire_pending"
  <2>1. CASE KeepReservation
    BY <1>0, <2>1, CheckpointShape DEF KeepReservation, Located, Phase, Goto
  <2>2. CASE StartConsume
    BY <1>0, <2>2, CheckpointShape DEF StartConsume, Phase, Goto
  <2>3. CASE NoteConsumed
    BY <1>0, <2>3, CheckpointShape DEF NoteConsumed, Located, Phase, Goto
  <2>4. CASE NoteRetired
    BY <1>0, <2>4, CheckpointShape DEF NoteRetired, Located, Phase, Goto
  <2>5. QED BY <2>1, <2>2, <2>3, <2>4
<1>3. pc'.at \in {"resume", "consume"} BY <1>0, <1>2, MovesShape
<1>4. to \in Phase \ {"none", "completed"} BY <1>2 DEF Phase
<1>5. QED BY <1>1, <1>2, <1>3, <1>4, CheckpointPublishing DEF Inheriting

\* The intention of a port publishes nothing.
LEMMA StartPortPublishing ==
    ASSUME Journal, Publishing, StartPort
    PROVE  Publishing'
<1>0. LedgerOK /\ AdapterOK /\ Located BY DEF Journal
<1>1. UNCHANGED <<gen, pop, round, fleet, policy, release, window, snap>>
  BY DEF StartPort, journal, ports, measuring
<1>2. /\ Now \in DOMAIN Intention
      /\ (rec' = rec /\ Intention[Now] = Now) \/ CheckpointAt(Intention[Now])
      /\ pc' = [pc EXCEPT !.at = "port"]
  BY <1>0, StartShape
<1>3. /\ Intention[Now] \in Phase \ {"none", "completed"} /\ Now \notin {"none", "reserved", "completed"}
      /\ Intention[Now] \in Inheriting => Now \in Inheriting
  BY <1>2, Intentions DEF Intention, Inheriting, Phase
<1>4. pc'.at = "port" BY <1>0, <1>2 DEF AdapterOK, Calls
<1>5. CASE rec' = rec BY <1>1, <1>4, <1>5, PlacedPublishing
<1>6. CASE CheckpointAt(Intention[Now])
  BY <1>1, <1>3, <1>4, <1>6, CheckpointPublishing
<1>7. QED BY <1>2, <1>5, <1>6

\* A receipt of inherited policy is for every added device.
LEMMA NotePortPublishing ==
    ASSUME Journal, Publishing, NotePort
    PROVE  Publishing'
<1>0. LedgerOK /\ AdapterOK /\ Located BY DEF Journal
<1>1. UNCHANGED <<gen, pop, round, fleet, policy, release, window, snap>> /\ pc.at = "note"
  BY DEF NotePort, journal, ports, measuring
<1>2. /\ Now \in DOMAIN Receipt /\ CheckpointAt(Receipt[Now])
      /\ pc' = [pc EXCEPT !.at = IF Now = "withdrawn_pending" THEN "exclude" ELSE "resume"]
  BY <1>0, NoteShape
<1>3. /\ Receipt[Now] \in Phase \ {"none", "completed"} /\ Now \notin {"none", "reserved", "completed"}
      /\ Receipt[Now] \in Inheriting => Now \in Inheriting \/ Now = "inherited_pending"
  BY <1>2, Intentions DEF Receipt, Inheriting, Phase
<1>4. pc'.at \in {"exclude", "resume"}
  BY <1>0, <1>2, MovesShape
<1>5. QED BY <1>1, <1>2, <1>3, <1>4, CheckpointPublishing

\* An exclusion leaves the published population alone.
LEMMA ExcludePublishing ==
    ASSUME Journal, Publishing, Exclude
    PROVE  Publishing'
<1>0. LedgerOK /\ AdapterOK /\ Located BY DEF Journal
<1>1. UNCHANGED <<gen, pop, round, fleet, policy, release, window>> /\ Now = "withdrawn"
      /\ snap' = [snap EXCEPT !.excluded = rec[Me].remove]
  BY <1>0 DEF Exclude, journal, ports, measuring, Located
<1>2. CheckpointAt("retire_pending") /\ pc' = [pc EXCEPT !.at = "retire"]
  BY <1>0, CheckpointShape DEF Exclude, Goto, Phase
<1>3. snap'.pending = snap.pending /\ snap'.rev = snap.rev /\ snap'.members = snap.members
  BY <1>0, <1>1 DEF LedgerOK, Snaps
<1>4. pc'.at = "retire" BY <1>0, <1>2, MovesShape
<1>5. QED BY <1>1, <1>2, <1>3, <1>4, CheckpointPublishing DEF Inheriting, Phase

\* A readback of the next revision is what the journal says.
LEMMA ReadbackPublishing ==
    ASSUME Journal, Cover, Publishing, Readback
    PROVE  Publishing'
<1>0. LedgerOK /\ AdapterOK /\ Located /\ JournalOK /\ Indexed BY DEF Journal
<1>1. /\ UNCHANGED <<gen, pop, round, fleet, policy, release, window, snap>>
      /\ Ours /\ Delta.op = Me /\ Ready /\ Me \in Ops /\ Now \in Retirement
      /\ proof' = [rev |-> pop.rev, members |-> Cohort] /\ pc' = [pc EXCEPT !.at = "publish"]
  <2>1. UNCHANGED <<gen, pop, round, fleet, policy, release, window, snap>>
    BY DEF Readback, journal, ports, measuring
  <2>2. Ours /\ Delta.op = Me /\ Ready BY DEF Readback, Owned, Ours
  <2>3. Now \in Retirement BY DEF Readback, Retirement
  <2>4. Me \in Ops BY <2>3 DEF Now, Retirement
  <2>5. proof' = [rev |-> pop.rev, members |-> Cohort] /\ pc' = [pc EXCEPT !.at = "publish"]
    BY DEF Readback, Goto
  <2>6. QED BY <2>1, <2>2, <2>3, <2>4, <2>5
<1>2. (rec' = rec /\ Now = "native_ready") \/ CheckpointAt("native_ready")
  BY <1>0, CheckpointShape DEF Readback, Phase
<1>3. pc'.at = "publish" /\ pc'.op = Me /\ proof'.rev = pop.rev /\ proof'.members = Cohort
  BY <1>0, <1>1 DEF AdapterOK, Calls, Me
<1>4. rec'[Me].base = rec[Me].base /\ rec'[Me].fleet = rec[Me].fleet
  BY <1>1, <1>2 DEF CheckpointAt, LedgerOK, Records
<1>5. Carried'
  <2>1. SUFFICES ASSUME round = "active", rec[Me].fleet = fleet, pop.rev = rec[Me].base + 1
                 PROVE  Cohort = pop.births
    BY <1>1, <1>3, <1>4 DEF Carried, Unfinished, Me
  <2>2. Delta.base = rec[Me].base /\ rec[Me].base \in Nat /\ rec[Me].phase = Now
    BY <1>0, <1>1 DEF Cover, Reserving, LedgerOK, Records, Now
  <2>3. Delta.state = "committed"
    BY <1>1, <2>1, <2>2 DEF Ready, Seen, Cover, Proved, Pending
  <2>4. Current /\ Ahead
    BY <1>1, <2>1, <2>2, <2>3 DEF Publishing, Following, Current, Ours, Ahead, Retirement
  <2>5. pop.births = (snap.members \cup Delta.add) \ Delta.remove
    BY <2>1, <2>4 DEF Publishing, Revised
  <2>6. Delta.add \cap Delta.remove = {} BY <1>0 DEF Indexed, IndexedIn, Delta
  <2>7. Cohort = (pop.births \cup Delta.add) \ Delta.remove BY <2>3 DEF Cohort, Retires
  <2>8. QED BY <2>5, <2>6, <2>7
<1>6. CASE rec' = rec BY <1>1, <1>3, <1>5, <1>6, PlacedPublishing
<1>7. CASE CheckpointAt("native_ready")
  <2>1. Now \notin {"none", "completed", "reserved"} /\ Now \in Inheriting
    BY <1>1 DEF Retirement, Inheriting
  <2>2. QED BY <1>1, <1>3, <1>5, <1>7, <2>1, CheckpointPublishing DEF Phase
<1>8. QED BY <1>2, <1>6, <1>7

\* The publication closes the distance to the journal.
LEMMA PublishPublishing ==
    ASSUME Journal, Cover, Calm, Publishing, Publish
    PROVE  Publishing'
<1>0. LedgerOK /\ AdapterOK /\ Located /\ JournalOK BY DEF Journal
<1>1. /\ UNCHANGED <<gen, pop, round, fleet, policy, release, window>>
      /\ pc' = Idle /\ Now = "native_ready" /\ pc.at = "publish" /\ Me \in Ops
      /\ proof.rev = rec[Me].base + 1 /\ CheckpointAt("completed")
      /\ snap' = [rev |-> rec[Me].base + 1, members |-> proof.members, pending |-> NoOne, excluded |-> {}]
  <2>1. UNCHANGED <<gen, pop, round, fleet, policy, release, window>> BY DEF Publish, journal, ports, measuring
  <2>2. Now = "native_ready" /\ pc.at = "publish" /\ Me \in Ops BY <1>0 DEF Publish, Located, Me
  <2>3. pc' = Idle /\ proof.rev = rec[Me].base + 1
        /\ snap' = [rev |-> rec[Me].base + 1, members |-> proof.members, pending |-> NoOne, excluded |-> {}]
    BY DEF Publish, Publishable
  <2>4. CheckpointAt("completed") BY <1>0, CheckpointShape DEF Publish, Phase
  <2>5. QED BY <2>1, <2>2, <2>3, <2>4
<1>2. /\ round = "active" /\ rec[Me].fleet = fleet /\ snap.pending = Me /\ rec[Me].phase = "native_ready"
      /\ \A o \in Ops : /\ rec'[o].fleet = rec[o].fleet
                        /\ rec'[o].phase = IF o = Me THEN "completed" ELSE rec[o].phase
  BY <1>0, <1>1 DEF CheckpointAt, LedgerOK, Records, Now
<1>3. Unfinished(Me) BY <1>2 DEF Unfinished
<1>4. Delta' = Delta /\ (Current' <=> Current) BY <1>1 DEF Delta, Current
<1>5. Delta.op = Me /\ Current /\ Ours
  BY <1>1, <1>2, <1>3 DEF Publishing, Kept, Following, Current, Ours
<1>6. Delta.state = "committed"
  BY <1>1, <1>2, <1>5 DEF Cover, Proved, InRound
<1>7. Ahead BY <1>2, <1>5, <1>6 DEF Ahead
<1>8. /\ pop.rev = snap.rev + 1 /\ pop.births = (snap.members \cup Delta.add) \ Delta.remove
      /\ proof.rev = pop.rev /\ proof.members = pop.births
  BY <1>1, <1>2, <1>3, <1>5, <1>7 DEF Publishing, Revised, Carried
<1>9. \A o \in Ops : ~Unfinished(o)'
  <2>1. ASSUME NEW o \in Ops, Unfinished(o)' PROVE FALSE
    <3>1. Unfinished(o) /\ o # Me BY <1>1, <1>2, <2>1 DEF Unfinished
    <3>2. QED BY <1>2, <3>1, UnfinishedAwaited
  <2>2. QED BY <2>1
<1>10. Following' BY <1>1, <1>2, <1>4 DEF Publishing, Following
<1>12. Kept' BY <1>9 DEF Kept
<1>13. Owning'
  <2>1. ~Unfinished(Delta.op)' 
    <3>1. Delta'.op = Me BY <1>4, <1>5
    <3>2. rec'[Me].phase = "completed" BY <1>1, <1>2
    <3>3. QED BY <3>1, <3>2 DEF Unfinished
  <2>2. QED BY <1>1, <1>2, <1>4, <1>5, <1>6, <2>1 DEF Owning
<1>14. InheritedFirst' BY <1>9 DEF InheritedFirst
<1>15. Revised'
  <2>1. ~Ahead' BY <1>1, <1>2, <1>4, <1>5 DEF Ahead
  <2>2. QED BY <1>1, <1>4, <1>5, <1>8, <2>1 DEF Revised
<1>16. Measured'
  <2>0. release = "none" BY <1>1 DEF Calm
  <2>1. Leaving = Delta.remove
    BY <1>1, <1>2, <1>5, PopulationAssumption DEF Leaving, Cover, Reserving
  <2>2. Delta.add \subseteq policy
    BY <1>1, <1>2, <1>3, <2>0 DEF Publishing, InheritedFirst, Inheriting
  <2>3. snap'.members \subseteq policy
    BY <1>1, <1>2, <1>8, <2>0, <2>1, <2>2 DEF Publishing, Measured
  <2>4. window = {} BY <1>1 DEF Cover, Windowed, Locked
  <2>5. QED BY <1>1, <2>3, <2>4 DEF Measured
<1>17. Carried' BY <1>9 DEF Carried
<1>18. QED BY <1>10, <1>12, <1>13, <1>14, <1>15, <1>16, <1>17 DEF Publishing

\* A new operation finds the published population in the journal.
LEMMA SubmitPublishing ==
    ASSUME Journal, Cover, Publishing, NEW o \in Ops, Submit(o)
    PROVE  Publishing'
<1>0. LedgerOK /\ AdapterOK /\ Located BY DEF Journal
<1>1. UNCHANGED <<gen, pop, round, fleet, policy, release, window>> /\ pc'.at = "resume" /\ pc'.op = o /\ round = "active"
  BY DEF Submit, journal, ports, measuring
<1>2. CASE UNCHANGED <<rec, snap>> BY <1>1, <1>2, PlacedPublishing
<1>3. CASE /\ rec[o].phase = "none" /\ snap.pending = NoOne
           /\ \E add \in 0..MaxAdd, remove \in SUBSET snap.members :
                rec' = [rec EXCEPT ![o] = [phase |-> "reserved", fleet |-> fleet,
                                           base |-> snap.rev, add |-> add, remove |-> remove]]
           /\ snap' = [snap EXCEPT !.pending = o]
  <2>1. /\ rec'[o].phase = "reserved" /\ rec'[o].fleet = fleet
        /\ \A x \in Ops : x # o => rec'[x] = rec[x]
        /\ snap'.pending = o /\ snap'.rev = snap.rev /\ snap'.members = snap.members
    BY <1>0, <1>3 DEF LedgerOK, Snaps
  <2>2. Delta' = Delta /\ (Current' <=> Current) BY <1>1 DEF Delta, Current
  <2>3. Delta.op # o BY <1>3 DEF Cover, Reserving
  <2>4. \A x \in Ops : ~Unfinished(x)
    BY <1>3, PopulationAssumption, UnfinishedAwaited
  <2>5. \A x \in Ops : Unfinished(x)' => x = o
    BY <1>1, <2>1, <2>4 DEF Unfinished
  <2>6. Following' BY <1>1, <2>2 DEF Publishing, Following
  <2>8. Kept' BY <1>1, <2>1, <2>5 DEF Kept
  <2>9. Owning'
    <3>1. round = "active" /\ Current => /\ Delta.op \in Ops /\ rec[Delta.op].fleet = fleet
                                         /\ Delta.state = "committed"
      BY <2>4 DEF Publishing, Owning
    <3>2. Delta.op \in Ops => ~Unfinished(Delta.op)'
      BY <1>1, <2>1, <2>2, <2>3, <2>4 DEF Unfinished
    <3>3. QED BY <1>1, <2>1, <2>2, <2>3, <3>1, <3>2 DEF Owning
  <2>10. InheritedFirst' BY <1>1, <2>1, <2>5 DEF InheritedFirst, Inheriting
  <2>11. Revised'
    <3>1. Current => Delta.op \in Ops BY <1>1 DEF Publishing, Owning
    <3>2. Current => (Ahead' <=> Ahead) BY <2>1, <2>2, <2>3, <3>1 DEF Ahead
    <3>3. QED BY <1>1, <2>1, <2>2, <3>2 DEF Publishing, Revised
  <2>12. Measured'
    <3>1. snap.members \subseteq policy /\ window \subseteq snap.members
      BY <1>1, <1>3 DEF Submit, Publishing, Measured, Leaving
    <3>2. QED BY <1>1, <2>1, <3>1 DEF Measured
  <2>13. Carried' BY <1>1 DEF Carried
  <2>14. QED BY <2>6, <2>8, <2>9, <2>10, <2>11, <2>12, <2>13 DEF Publishing
<1>4. QED BY <1>2, <1>3 DEF Submit

\* The adapter's reservation call and its failures publish nothing.
LEMMA StillPublishing ==
    ASSUME Journal, Publishing, StartReservation \/ AdapterFails
    PROVE  Publishing'
<1>0. AdapterOK BY DEF Journal
<1>1. UNCHANGED <<gen, pop, rec, snap, round, fleet, policy, release, window>>
  BY DEF StartReservation, AdapterFails, journal, ledger, ports, measuring
<1>2. pc'.at \in {"reserve", "idle"}
  BY <1>0 DEF StartReservation, AdapterFails, Goto, Idle, AdapterOK, Calls
<1>3. QED BY <1>1, <1>2, PlacedPublishing

\* A port serves the devices of the one operation under way.
LEMMA PortPublishing ==
    ASSUME Journal, Cover, Publishing, CallPort \/ PortFails
    PROVE  Publishing'
<1>0. JournalOK /\ WorldOK /\ AdapterOK /\ Indexed /\ Located BY DEF Journal
<1>1. /\ UNCHANGED <<gen, pop, rec, snap, round, fleet, release, window, proof>>
      /\ pc.at = "port" /\ Now \in DOMAIN Receipt /\ Me \in Ops /\ rec[Me].fleet = fleet
  BY <1>0 DEF CallPort, PortFails, journal, ledger, measuring, Located, Authority, Me
<1>2. PICK served : /\ Port(served)
                    /\ \/ pc'.at = "idle"
                       \/ pc'.at = "note" /\ Now' = Now /\ Me' = Me /\ served = Device
  <2>1. CASE CallPort BY <1>0, <1>1, <2>1 DEF CallPort, Goto, AdapterOK, Calls, Now, Me
  <2>2. CASE PortFails BY <2>2 DEF PortFails, Idle
  <2>3. QED BY <2>1, <2>2
<1>3. Delta' = Delta /\ (Current' <=> Current) /\ Leaving' = Leaving /\ (Ahead' <=> Ahead)
  BY <1>1 DEF Delta, Current, Leaving, Ahead
<1>4. \A o \in Ops : Unfinished(o)' <=> Unfinished(o) BY <1>1 DEF Unfinished
<1>5. Following' BY <1>1, <1>3 DEF Publishing, Following
<1>6. CASE round # "active" BY <1>1, <1>5, <1>6, ClosedPublishing
<1>7. CASE round = "active"
  <2>1. Unfinished(Me) /\ rec[Me].phase # "reserved"
    BY <1>1, <1>7, Intentions DEF Unfinished, Now
  <2>2. Delta.op = Me /\ snap.pending = Me BY <1>1, <2>1, UnfinishedAwaited DEF Publishing, Kept
  <2>3. Leaving = Delta.remove
    BY <1>1, <2>2, PopulationAssumption DEF Leaving, Cover, Reserving
  <2>4. /\ Delta.add \subseteq Device /\ Delta.add \cap Delta.remove = {}
    BY <1>0 DEF JournalOK, Pops, Deltas, Delta, Indexed, IndexedIn
  <2>5. /\ policy \subseteq policy' \cup Delta.remove
        /\ Delta.add \subseteq policy => Delta.add \subseteq policy'
        /\ served = Device /\ Now = "inherited_pending" => Delta.add \subseteq policy'
    <3>1. CASE Now \in {"capacity_pending", "admissions_pending"}
      BY <1>0, <1>1, <1>2, <3>1, PortShape
    <3>2. CASE Now = "inherited_pending"
      <4>1. policy' = policy \cup (served \cap Delta.add) BY <1>0, <1>1, <1>2, <3>2, PortShape
      <4>2. QED BY <2>4, <4>1
    <3>3. CASE Now = "withdrawn_pending"
      <4>1. policy' = policy \ (served \cap Delta.remove) BY <1>0, <1>1, <1>2, <3>3, PortShape
      <4>2. QED BY <2>4, <3>3, <4>1
    <3>4. QED BY <1>1, <3>1, <3>2, <3>3, Intentions
  <2>7. Kept' BY <1>1, <1>2, <1>3, <1>4 DEF Publishing, Kept
  <2>8. Owning' BY <1>1, <1>3, <1>4 DEF Publishing, Owning
  <2>9. InheritedFirst'
    <3>1. release = "none" => \A o \in Ops : Unfinished(o)' /\ rec'[o].phase \in Inheriting => Delta.add \subseteq policy'
      BY <1>1, <1>4, <2>5 DEF Publishing, InheritedFirst
    <3>2. pc'.at = "note" /\ Now' = "inherited_pending" => Delta.add \subseteq policy'
      BY <1>2, <2>5
    <3>3. QED BY <1>1, <1>3, <3>1, <3>2 DEF InheritedFirst
  <2>10. Revised' BY <1>1, <1>3 DEF Publishing, Revised
  <2>11. Measured'
    <3>1. /\ window \subseteq snap.members
          /\ release # "closing" => snap.members \subseteq policy \cup Delta.remove
      BY <1>7, <2>3 DEF Publishing, Measured
    <3>2. release # "closing" => snap.members \subseteq policy' \cup Leaving' BY <1>3, <2>3, <2>5, <3>1
    <3>3. QED BY <1>1, <3>1, <3>2 DEF Measured
  <2>12. Carried' BY <1>2 DEF Carried
  <2>13. QED BY <1>5, <2>7, <2>8, <2>9, <2>10, <2>11, <2>12 DEF Publishing
<1>8. QED BY <1>6, <1>7

\* A change in another state, before or after its commit.
LEMMA StatePublishing ==
    ASSUME Journal, Publishing, NEW s, InState(s), SameDevices(pop, pop'),
           s = "committed" <=> Delta.state = "committed", ~Current => gen' = gen,
           UNCHANGED <<rec, snap, round, fleet, policy, window, proof>>,
           release' = "none" => release = "none", release = "closing" => release' = "closing",
           pc' = pc \/ pc'.at \notin {"note", "keep", "publish"}
    PROVE  Publishing'
<1>1. /\ (Current' <=> Current) /\ Leaving' = Leaving /\ (Ahead' <=> Ahead)
      /\ pop'.rev = pop.rev /\ pop'.births = pop.births
      /\ Delta'.op = Delta.op /\ Delta'.add = Delta.add /\ Delta'.remove = Delta.remove /\ gen'.id = gen.id
  BY DEF Current, Leaving, Ahead, InState, SameDevices, Delta
<1>2. \A o \in Ops : Unfinished(o)' <=> Unfinished(o) BY DEF Unfinished
<1>3. pc' = pc => Me' = Me /\ Now' = Now BY DEF Me, Now
<1>4. Following' BY <1>1 DEF Publishing, Following
<1>6. Kept' BY <1>1, <1>2, <1>3 DEF Publishing, Kept
<1>7. Owning' BY <1>1, <1>2 DEF Publishing, Owning, InState
<1>8. InheritedFirst' BY <1>1, <1>2, <1>3 DEF Publishing, InheritedFirst
<1>9. Revised' BY <1>1 DEF Publishing, Revised
<1>10. Measured' BY <1>1 DEF Publishing, Measured
<1>11. Carried' BY <1>1, <1>2, <1>3 DEF Publishing, Carried
<1>12. QED BY <1>4, <1>6, <1>7, <1>8, <1>9, <1>10, <1>11 DEF Publishing

\* The commit takes the journal one revision ahead of the publication.
LEMMA CommitPublishing ==
    ASSUME Journal, Cover, Publishing, Committed, Ours, Delta.state \in {"adding", "retiring"},
           UNCHANGED <<rec, snap, round, fleet, policy, release, window, proof, pc>>
    PROVE  Publishing'
<1>0. JournalOK /\ Indexed /\ LedgerOK BY DEF Journal
<1>1. /\ pop'.gen = pop.gen /\ pop'.rev = Delta.base + 1 /\ gen'.id = gen.id
      /\ pop'.births = (pop.births \cup Delta.add) \ Delta.remove
      /\ pop'.delta = [Delta EXCEPT !.state = "committed"]
  BY <1>0, CommittedTyped
<1>2. /\ Delta'.op = Delta.op /\ Delta'.add = Delta.add /\ Delta'.remove = Delta.remove
      /\ Delta'.state = "committed"
  BY <1>0, <1>1 DEF Delta, JournalOK, Pops, Deltas
<1>3. (Current' <=> Current) /\ Leaving' = Leaving BY <1>1 DEF Current, Leaving
<1>4. \A o \in Ops : Unfinished(o)' <=> Unfinished(o) BY DEF Unfinished
<1>5. Following' BY <1>1, <1>3 DEF Publishing, Following
<1>6. CASE round # "active" BY <1>5, <1>6, ClosedPublishing
<1>7. CASE round = "active"
  <2>1. Current BY <1>7 DEF Publishing, Following, Current, Ours
  <2>2. Delta.op \in Ops /\ Unfinished(Delta.op) /\ ~Ahead
    BY <1>7, <2>1 DEF Publishing, Owning, Ahead
  <2>3. pop.rev = snap.rev /\ pop.births = snap.members /\ pop.rev = Delta.base
    BY <1>7, <2>1, <2>2 DEF Publishing, Revised, Cover, Proved, Pending
  <2>4. Ahead' BY <1>2, <2>2 DEF Ahead, Unfinished
  <2>6. Me' = Me /\ Now' = Now BY DEF Me, Now
  <2>7. Kept' BY <1>2, <1>3, <1>4, <2>6 DEF Publishing, Kept
  <2>8. Owning' BY <1>2, <1>3, <1>4, <2>2 DEF Publishing, Owning, Unfinished
  <2>9. InheritedFirst' BY <1>2, <1>4, <2>6 DEF Publishing, InheritedFirst
  <2>10. Revised' BY <1>1, <1>2, <1>3, <2>1, <2>3, <2>4 DEF Revised
  <2>11. Measured' BY <1>3 DEF Publishing, Measured
  <2>12. Carried'
    <3>1. SUFFICES ASSUME Me \in Ops, Unfinished(Me), pc.at = "publish", proof.rev = rec[Me].base + 1
                   PROVE  FALSE
      BY <1>4, <2>6 DEF Carried
    <3>2. Delta.state = "committed" BY <1>7, <3>1 DEF Cover, Proved, InRound, Unfinished
    <3>3. QED BY <3>2
  <2>13. QED BY <1>5, <2>7, <2>8, <2>9, <2>10, <2>11, <2>12 DEF Publishing
<1>8. QED BY <1>6, <1>7

\* The controller's steps keep the journal at most one commit ahead.
LEMMA ControllerPublishing ==
    ASSUME Journal, Cover, Publishing,
           \/ DeltaExpires \/ ReconcileExpired \/ ReconcileAdded \/ ReconcileRetired
           \/ \E d \in Device : Create(d) \/ Deregister(d) \/ Delete(d)
    PROVE  Publishing'
<1>0. JournalOK /\ HistoryOK /\ Indexed BY DEF Journal
<1>1. UNCHANGED <<rec, snap, round, fleet, policy, release, window, proof, pc>>
  BY
  DEF DeltaExpires, ReconcileExpired, ReconcileAdded, ReconcileRetired, Create, Deregister, Delete, Dispatch,
     ledger, ports, adapter, measuring
<1>2. CASE DeltaExpires
  <2>1. Moved(Delta.state) /\ gen' = gen BY <1>0, <1>2, ExpiresShape
  <2>2. QED BY <1>1, <2>1, MovedInState, StatePublishing DEF Moved, Rewritten
<1>3. CASE ReconcileExpired
  <2>1. Moved("recovery_required") /\ gen' = gen /\ Delta.state \in {"adding", "retiring"}
    BY <1>0, <1>3, ReconcileExpiredShape DEF ReconcileExpired, Reconciles
  <2>2. InState("recovery_required") BY <2>1, MovedInState
  <2>3. QED BY <1>1, <2>1, <2>2, StatePublishing DEF Moved, Rewritten
<1>4. ASSUME NEW d \in Device, Create(d) \/ Deregister(d) \/ Delete(d) PROVE Publishing'
  <2>1. PICK w \in Write : Dispatch(w) BY <1>4, Writes DEF Create, Deregister, Delete
  <2>2. Rewritten /\ pop'.delta = Delta /\ gen' = gen BY <1>0, <2>1, DispatchShape
  <2>3. InState(Delta.state) BY <2>2 DEF Rewritten, SameDevices, InState, Ours, Delta
  <2>4. QED BY <1>1, <2>2, <2>3, StatePublishing DEF Rewritten
<1>5. CASE ReconcileAdded \/ ReconcileRetired
  <2>0. Delta.state \in {"adding", "retiring"} /\ Ours
    BY <1>5 DEF ReconcileAdded, ReconcileRetired, Reconciles, Ours
  <2>1. CASE Committed BY <1>1, <2>0, <2>1, CommitPublishing
  <2>2. CASE pop' = [pop EXCEPT !.delta.state = "added_ready"] /\ UNCHANGED gen
    <3>1. Moved("added_ready") BY <1>0, <2>2, MovedShape DEF DeltaState, JournalOK
    <3>2. InState("added_ready") BY <2>0, <3>1, MovedInState
    <3>3. QED BY <1>1, <2>0, <2>2, <3>1, <3>2, StatePublishing DEF Moved, Rewritten
  <2>3. QED BY <1>5, <2>1, <2>2 DEF ReconcileAdded, ReconcileRetired
<1>6. QED BY <1>2, <1>3, <1>4, <1>5

\* So do the adapter's two commands.
LEMMA AuthorizesPublishing ==
    ASSUME Journal, Cover, Publishing, Consume \/ Retire
    PROVE  Publishing'
<1>0. JournalOK /\ AdapterOK /\ Indexed BY DEF Journal
<1>1. UNCHANGED <<rec, snap, round, fleet, policy, release, window, proof>> /\ Me \in Ops /\ round = "active"
  BY DEF Consume, Retire, ledger, ports, measuring, Authority
<1>2. pc' = pc \/ pc'.at \notin {"note", "keep", "publish"}
  BY <1>0 DEF Consume, Retire, Goto, AdapterOK, Calls
<1>3. CASE UNCHANGED <<gen, pop>>
  <2>1. InState(Delta.state) /\ SameDevices(pop, pop') BY <1>3 DEF InState, Ours, Delta, SameDevices
  <2>2. QED BY <1>1, <1>2, <1>3, <2>1, StatePublishing
<1>4. ASSUME NEW s \in {"adding", "retiring"}, Authorized(Me, s), ~UNCHANGED <<gen, pop>>
      PROVE  Publishing'
  <2>1. /\ Ours /\ pop' = [pop EXCEPT !.delta.state = s]
        /\ Delta.state \in {"reserved", "added_ready"} /\ gen' \in Gens /\ gen'.id = gen.id
    BY <1>0, <1>1, <1>4, AuthorizedShape
  <2>2. Moved(s) BY <1>0, <2>1, MovedShape DEF DeltaState
  <2>3. InState(s) BY <2>1, <2>2, MovedInState
  <2>4. Current BY <1>1, <2>1 DEF Publishing, Following, Current, Ours
  <2>5. QED BY <1>1, <1>2, <2>1, <2>2, <2>3, <2>4, StatePublishing DEF Moved, Rewritten
<1>5. QED BY <1>3, <1>4 DEF Consume, Retire

\* A reservation waits for the publication of the change before it.
LEMMA ReservePublishing ==
    ASSUME Journal, Cover, Publishing, RuntimeReserve
    PROVE  Publishing'
<1>0. JournalOK /\ AdapterOK /\ Indexed /\ Located /\ LedgerOK /\ Launched BY DEF Journal
<1>1. /\ UNCHANGED <<rec, snap, round, fleet, policy, release, window, proof>>
      /\ pc' = [pc EXCEPT !.at = "keep"] /\ Now = "reserved" /\ pc.at = "reserve"
      /\ rec[Me].fleet = gen.id /\ Me \in Ops /\ rec[Me].phase = "reserved"
  BY <1>0 DEF RuntimeReserve, ledger, ports, measuring, Located, Me, Now
<1>2. pc'.at = "keep" /\ Me' = Me /\ Now' = Now BY <1>0, <1>1 DEF AdapterOK, Calls, Me, Now
<1>3. \A o \in Ops : Unfinished(o)' <=> Unfinished(o) BY <1>1 DEF Unfinished
<1>4. gen'.id = gen.id /\ (pop' = pop \/ pop'.gen = gen.id)
  BY <1>0, ReserveShape DEF Reserves
<1>5. round # "starting"
  BY <1>1 DEF Publishing, Following, Cover, Reserving
<1>6. Following' BY <1>1, <1>4, <1>5 DEF Publishing, Following
<1>7. CASE round # "active" BY <1>1, <1>6, <1>7, ClosedPublishing
<1>8. CASE round = "active"
  <2>1. gen.id = fleet BY <1>8 DEF Publishing, Following
  <2>2. Unfinished(Me) /\ snap.pending = Me
    BY <1>1, <1>8, <2>1, UnfinishedAwaited DEF Unfinished
  <2>3. \A o \in Ops : Unfinished(o) => o = Me BY <2>2, UnfinishedAwaited
  <2>5. InheritedFirst' BY <1>1, <1>2, <1>3, <2>3 DEF InheritedFirst, Inheriting
  <2>6. Measured'
    <3>1. Leaving' = Leaving BY <1>1 DEF Leaving
    <3>2. QED BY <1>1, <3>1 DEF Publishing, Measured
  <2>7. Carried' BY <1>2 DEF Carried
  <2>8. CASE UNCHANGED <<pop, gen>> /\ Present.delta.op = Me
    <3>1. Current /\ Delta.op = Me
      <4>1. Ours BY <1>1, <2>8, PopulationAssumption DEF Present, Ours, Fresh, NoPop, NoDelta
      <4>2. QED BY <2>1, <2>8, <4>1 DEF Present, Ours, Current, Delta
    <3>2. Delta' = Delta /\ (Current' <=> Current) /\ (Ahead' <=> Ahead)
      BY <1>1, <2>8 DEF Delta, Current, Ahead
    <3>3. Kept' BY <1>1, <1>2, <1>3, <2>3, <3>1, <3>2 DEF Kept
    <3>4. Owning' BY <1>1, <1>3, <3>2 DEF Publishing, Owning
    <3>5. Revised' BY <1>1, <2>8, <3>2 DEF Publishing, Revised
    <3>6. QED BY <1>6, <2>5, <2>6, <2>7, <3>3, <3>4, <3>5 DEF Publishing
  <2>9. CASE Reserves
    <3>1. /\ Delta'.op = Me /\ Delta'.state = "reserved" /\ pop'.gen = gen.id
          /\ pop'.rev = Present.rev /\ pop'.births = Present.births /\ Present.delta.op # Me
      BY <2>9 DEF Reserves, NewChange, Delta, Me
    <3>2. Current' /\ ~Ahead' BY <1>1, <2>1, <3>1 DEF Current, Ahead
    <3>3. Kept' BY <1>1, <1>2, <1>3, <2>3, <3>1, <3>2 DEF Kept
    <3>4. snap.rev = Present.rev /\ snap.members = Present.births
      <4>1. CASE Ours
        <5>1. Present = pop /\ Current /\ Delta.op # Me
          BY <2>1, <3>1, <4>1 DEF Present, Ours, Current, Delta
        <5>2. Delta.op \in Ops /\ rec[Delta.op].fleet = fleet /\ ~Unfinished(Delta.op)
          BY <1>8, <2>3, <5>1 DEF Publishing, Owning
        <5>3. ~Ahead BY <1>8, <5>2 DEF Unfinished, Ahead, Cover, Reserving
        <5>4. QED BY <1>8, <5>1, <5>3 DEF Publishing, Revised
      <4>2. CASE ~Ours
        <5>1. Present.rev = 0 /\ Present.births = gen.alloc
          BY <4>2 DEF Present, Ours, Fresh, NoPop
        <5>2. ~Current BY <2>1, <4>2 DEF Current, Ours
        <5>3. QED BY <1>8, <5>1, <5>2 DEF Publishing, Revised
      <4>3. QED BY <4>1, <4>2
    <3>5. Delta'.add \cap snap.members = {}
      <4>1. Delta'.add = Len(Present.issued)..(Len(Present.issued) + rec[Me].add - 1)
            /\ Present.births \subseteq 0..(Len(Present.issued) - 1) /\ Len(Present.issued) \in Nat
        BY <2>9 DEF Reserves, NewChange, Delta, Me
      <4>2. rec[Me].add \in Nat BY <1>0, <1>1, Numbers DEF LedgerOK, Records
      <4>3. QED BY <3>4, <4>1, <4>2, NewIndices
    <3>6. Owning' BY <1>1, <1>3, <2>1, <2>2, <3>1, <3>5 DEF Owning
    <3>7. Revised' BY <1>1, <3>1, <3>2, <3>4 DEF Revised
    <3>8. QED BY <1>6, <2>5, <2>6, <2>7, <3>3, <3>6, <3>7 DEF Publishing
  <2>10. QED BY <1>0, <2>8, <2>9, ReserveShape DEF Me
<1>9. QED BY <1>7, <1>8

\* A round opens with what it launched.
LEMMA EstablishPublishing ==
    ASSUME Journal, Cover, Publishing, Establish
    PROVE  Publishing'
<1>1. /\ UNCHANGED <<gen, pop, rec, fleet, window, pc, proof>> /\ round = "starting" /\ round' = "active"
      /\ snap' = [snap EXCEPT !.members = gen.alloc] /\ policy' = gen.alloc
  BY DEF Establish, journal, adapter, measuring
<1>2. snap'.members = gen.alloc BY <1>1 DEF Journal, LedgerOK, Snaps
<1>3. snap'.rev = snap.rev BY <1>1 DEF Journal, LedgerOK, Snaps
<1>4. ~Current' /\ window = {} /\ gen.id = fleet BY <1>1 DEF Publishing, Following, Current
<1>5. \A o \in Ops : ~Unfinished(o)' BY <1>1 DEF Cover, Reserving, Unfinished
<1>6. Following' BY <1>1, <1>4 DEF Following
<1>8. Kept' BY <1>5 DEF Kept
<1>9. Owning' BY <1>4 DEF Owning
<1>10. InheritedFirst' BY <1>5 DEF InheritedFirst
<1>11. Revised' BY <1>1, <1>2, <1>3, <1>4 DEF Publishing, Following, Revised
<1>12. Measured' BY <1>1, <1>2, <1>4 DEF Measured
<1>13. Carried' BY <1>5 DEF Carried
<1>14. QED BY <1>6, <1>8, <1>9, <1>10, <1>11, <1>12, <1>13 DEF Publishing

\* Outside the open round only the generation matters.
LEMMA RoundPublishing ==
    ASSUME Journal, Publishing,
           GenStep \/ Close \/ Quiesce \/ ConfirmStopped \/ RetirePods
    PROVE  Publishing'
<1>0. JournalOK /\ HoldOK /\ Indexed /\ pop.gen \in Nat /\ gen.id \in Nat /\ pop.gen <= gen.id
  BY Numbers DEF Journal, JournalOK, Gens, Pops, Launched
<1>1. round' # "active"
  BY DEF GenStep, ConsumeHold, OrdinaryStart, OrdinaryStop, StopFleet, Close, Quiesce, ConfirmStopped,
     RetirePods, ledger
<1>2. window' = window
  BY DEF GenStep, ConsumeHold, OrdinaryStart, OrdinaryStop, StopFleet, Close, Quiesce, ConfirmStopped,
     RetirePods, measuring
<1>3. ASSUME NEW o \in Owners, ConsumeHold(o) PROVE Following'
  <2>1. gen'.id = gen.id + 1 /\ fleet' = gen.id + 1 /\ round = "none" /\ round' = "starting" /\ pop' = pop
        /\ snap'.rev = 0
    BY <1>3 DEF ConsumeHold, Launch
  <2>2. QED BY <1>0, <1>2, <2>1 DEF Publishing, Following, Current
<1>4. ASSUME OrdinaryStart \/ OrdinaryStop \/ StopFleet PROVE Following'
  BY <1>2, <1>4 DEF OrdinaryStart, OrdinaryStop, StopFleet, Publishing, Following
<1>5. ASSUME Close PROVE Following'
  BY <1>2, <1>5 DEF Close, journal, Publishing, Following
<1>6. ASSUME Quiesce PROVE Following'
  <2>1. gen' = gen BY <1>0, <1>6, QuiesceShape
  <2>2. QED BY <1>2, <1>6, <2>1 DEF Quiesce, Publishing, Following
<1>7. ASSUME ConfirmStopped PROVE Following'
  BY <1>2, <1>7 DEF ConfirmStopped, Publishing, Following
<1>8. ASSUME RetirePods PROVE Following'
  BY <1>2, <1>8 DEF RetirePods, journal, ledger, Publishing, Following, Current
<1>9. Following' BY <1>3, <1>4, <1>5, <1>6, <1>7, <1>8 DEF GenStep
<1>10. QED BY <1>1, <1>9, ClosedPublishing

\* A window sends for published devices.
LEMMA WindowPublishing ==
    ASSUME Publishing, UNCHANGED <<gen, pop, rec, snap, round, fleet, policy, release, pc, proof>>,
           window' \in {window, {}} \/ BeginWindow
    PROVE  Publishing'
<1>1. Delta' = Delta /\ (Current' <=> Current) /\ Leaving' = Leaving /\ (Ahead' <=> Ahead) /\ Me' = Me /\ Now' = Now
  BY DEF Delta, Current, Leaving, Ahead, Me, Now
<1>2. \A o \in Ops : Unfinished(o)' <=> Unfinished(o) BY DEF Unfinished
<1>3. Following' BY <1>1 DEF Publishing, Following, BeginWindow
<1>5. Kept' BY <1>1, <1>2 DEF Publishing, Kept
<1>6. Owning' BY <1>1, <1>2 DEF Publishing, Owning
<1>7. InheritedFirst' BY <1>1, <1>2 DEF Publishing, InheritedFirst
<1>8. Revised' BY <1>1 DEF Publishing, Revised
<1>9. Measured' BY <1>1 DEF Publishing, Measured, BeginWindow
<1>10. Carried' BY <1>1, <1>2 DEF Publishing, Carried
<1>11. QED BY <1>3, <1>5, <1>6, <1>7, <1>8, <1>9, <1>10 DEF Publishing

\* A restart ends the window and the call of the adapter.
LEMMA CrashPublishing ==
    ASSUME Publishing, Crash
    PROVE  Publishing'
<1>1. UNCHANGED <<gen, pop, rec, snap, round, fleet, policy, release>> /\ pc'.at = "idle" /\ window' = {}
  BY DEF Crash, journal, ledger, ports, Idle
<1>2. Delta' = Delta /\ (Current' <=> Current) /\ Leaving' = Leaving /\ (Ahead' <=> Ahead)
  BY <1>1 DEF Delta, Current, Leaving, Ahead
<1>3. \A o \in Ops : Unfinished(o)' <=> Unfinished(o) BY <1>1 DEF Unfinished
<1>4. Following' BY <1>1, <1>2 DEF Publishing, Following
<1>6. Kept' BY <1>1, <1>2, <1>3 DEF Publishing, Kept
<1>7. Owning' BY <1>1, <1>2, <1>3 DEF Publishing, Owning
<1>8. InheritedFirst' BY <1>1, <1>2, <1>3 DEF Publishing, InheritedFirst
<1>9. Revised' BY <1>1, <1>2 DEF Publishing, Revised
<1>10. Measured' BY <1>1, <1>2 DEF Publishing, Measured
<1>11. Carried' BY <1>1 DEF Carried
<1>12. QED BY <1>4, <1>6, <1>7, <1>8, <1>9, <1>10, <1>11 DEF Publishing

\* A frozen change publishes nothing, and until the fleet is closed only devices
\* that were not published lose their policy.
LEMMA ReleasePublishing ==
    ASSUME Journal, Cover, Publishing, Release
    PROVE  Publishing'
<1>0. JournalOK BY DEF Journal
<1>1. CASE FreezeChange
  <2>1. /\ UNCHANGED <<rec, snap, round, fleet, policy, window, pc, proof>>
        /\ release = "none" /\ gen' = gen
        /\ pop' = pop \/ (Unresolved /\ pop' = [pop EXCEPT !.delta.state = "quiesced"])
    BY <1>1 DEF FreezeChange, ledger, adapter, measuring
  <2>2. CASE pop' = pop
    <3>1. InState(Delta.state) /\ SameDevices(pop, pop') BY <2>1, <2>2 DEF InState, Ours, Delta, SameDevices
    <3>2. QED BY <2>1, <3>1, StatePublishing
  <2>3. CASE Unresolved /\ pop' = [pop EXCEPT !.delta.state = "quiesced"]
    <3>1. Moved("quiesced") BY <1>0, <2>1, <2>3, MovedShape DEF DeltaState, JournalOK
    <3>2. Delta.state \notin {"none", "committed"} BY <2>3 DEF Unresolved, Delta
    <3>3. InState("quiesced") BY <3>1, <3>2, MovedInState
    <3>4. QED BY <2>1, <3>1, <3>2, <3>3, StatePublishing DEF Moved, Rewritten
  <2>4. QED BY <2>1, <2>2, <2>3
<1>2. CASE UndoChange \/ CloseFleet \/ RestorePolicies
  <2>1. UNCHANGED <<gen, pop, rec, snap, round, fleet, window, pc, proof>> /\ release' # "none"
    BY <1>2 DEF UndoChange, CloseFleet, RestorePolicies, journal, ledger, adapter, measuring
  <2>2. /\ Delta' = Delta /\ (Current' <=> Current) /\ Leaving' = Leaving /\ (Ahead' <=> Ahead)
        /\ Me' = Me /\ Now' = Now
    BY <2>1 DEF Delta, Current, Leaving, Ahead, Me, Now
  <2>3. \A o \in Ops : Unfinished(o)' <=> Unfinished(o) BY <2>1 DEF Unfinished
  <2>4. Following' BY <2>1, <2>2 DEF Publishing, Following
  <2>5. Kept' BY <2>1, <2>2, <2>3 DEF Publishing, Kept
  <2>6. Owning' BY <2>1, <2>2, <2>3 DEF Publishing, Owning
  <2>7. InheritedFirst' BY <2>1 DEF InheritedFirst
  <2>8. Revised' BY <2>1, <2>2 DEF Publishing, Revised
  <2>9. Measured'
    <3>1. CASE CloseFleet \/ RestorePolicies
      <4>1. release' = "closing" BY <3>1 DEF CloseFleet, RestorePolicies
      <4>2. QED BY <2>1, <4>1 DEF Publishing, Measured
    <3>2. CASE UndoChange
      <4>1. SUFFICES ASSUME round = "active" PROVE snap.members \subseteq policy' \cup Leaving
        BY <2>1, <2>2, <4>1 DEF Publishing, Measured
      <4>2. snap.members \subseteq policy \cup Leaving
        BY <3>2, <4>1 DEF UndoChange, Publishing, Measured
      <4>3. Delta.op = snap.pending /\ snap.pending # NoOne /\ JournalMine
        BY <3>2 DEF UndoChange, ChangeMine
      <4>4. Current BY <4>3 DEF JournalMine, Current, NoDelta
      <4>5. Unfinished(Delta.op) BY <4>1, <4>3, <4>4, UnfinishedAwaited DEF Publishing, Owning
      <4>6. Delta.add \cap snap.members = {} BY <4>1, <4>4, <4>5 DEF Publishing, Owning
      <4>7. policy \ Delta.add \subseteq policy' BY <3>2 DEF UndoChange
      <4>8. QED BY <4>2, <4>6, <4>7
    <3>3. QED BY <1>2, <3>1, <3>2
  <2>10. Carried' BY <2>1, <2>2, <2>3 DEF Publishing, Carried
  <2>11. QED BY <2>4, <2>5, <2>6, <2>7, <2>8, <2>9, <2>10 DEF Publishing
<1>3. QED BY <1>1, <1>2 DEF Release

\* Holds, deliveries, windows and stuttering steps publish nothing.
LEMMA OtherPublishing ==
    ASSUME Publishing,
           \/ \E o \in Owners : ReserveHold(o) \/ ReleaseHold(o)
           \/ HoldExpires \/ BeginWindow \/ EndWindow \/ UNCHANGED vars
           \/ \E w \in Write : Deliver(w)
    PROVE  Publishing'
<1>1. UNCHANGED <<gen, pop, rec, snap, round, fleet, policy, release, pc, proof>>
  BY DEF ReserveHold, ReleaseHold, HoldExpires, BeginWindow, EndWindow, Deliver,
     journal, ledger, ports, adapter, vars
<1>2. window' \in {window, {}} \/ BeginWindow
  BY DEF ReserveHold, ReleaseHold, HoldExpires, EndWindow, Deliver, measuring, vars
<1>3. QED BY <1>1, <1>2, WindowPublishing

\* Nothing is published at the start.
LEMMA InitPublishing == Init => Publishing
<1> SUFFICES ASSUME Init PROVE Publishing
  OBVIOUS
<1>1. round = "none" /\ window = {} BY DEF Init
<1>2. \A o \in Ops : ~Unfinished(o) BY <1>1 DEF Unfinished
<1>3. Following BY <1>1 DEF Following
<1>5. Kept BY <1>2 DEF Kept
<1>6. Owning /\ Revised /\ Measured BY <1>1 DEF Owning, Revised, Measured
<1>7. InheritedFirst BY <1>2 DEF InheritedFirst
<1>8. Carried BY <1>2 DEF Carried
<1>9. QED BY <1>3, <1>5, <1>6, <1>7, <1>8 DEF Publishing

\* Every step keeps the publication beside the journal.
LEMMA NextPublishing == Journal /\ Cover /\ Calm /\ Publishing /\ [Next]_vars => Publishing'
<1> SUFFICES ASSUME Journal, Cover, Calm, Publishing, [Next]_vars PROVE Publishing'
  OBVIOUS
<1>1. CASE Holding
  BY <1>1, RoundPublishing, OtherPublishing, EstablishPublishing DEF Holding, GenStep
<1>2. CASE Change
  BY <1>2, SubmitPublishing, StillPublishing, ReservePublishing, CheckpointsPublishing, StartPortPublishing,
     PortPublishing, NotePortPublishing, AuthorizesPublishing, ExcludePublishing, ReadbackPublishing,
     PublishPublishing
  DEF Change
<1>3. CASE Reconcile
  BY <1>3, ControllerPublishing, OtherPublishing DEF Reconcile
<1>4. CASE Cleanup
  <2>1. CASE RetirePods BY <2>1, RoundPublishing
  <2>2. QED BY <1>4, <2>1, RoundPublishing DEF Cleanup, GenStep
<1>5. CASE BeginWindow \/ EndWindow \/ UNCHANGED vars BY <1>5, OtherPublishing
<1>6. CASE Crash BY <1>6, CrashPublishing
<1>7. CASE Release BY <1>7, ReleasePublishing
<1>8. QED BY <1>1, <1>2, <1>3, <1>4, <1>5, <1>6, <1>7 DEF Next

\* The published population follows the journal.
THEOREM PublishingAlways == Spec => []Publishing
  BY InitPublishing, NextPublishing, JournalAlways, CoverAlways, PTL DEF Spec

\* The published population is the committed one or the one before it, and until
\* a release closes the fleet a window sends only for devices under policy or on
\* their way out.
THEOREM ProvedPublication == Spec => []PublishedProved
<1>1. Journal /\ Cover /\ Publishing => PublishedProved
  <2> SUFFICES ASSUME Journal, Cover, Publishing, round = "active"
               PROVE  /\ release # "closing" => window \subseteq policy \cup Leaving
                      /\ Current => /\ pop.rev \in {snap.rev, snap.rev + 1}
                                    /\ pop.rev = snap.rev => snap.members = pop.births
                                    /\ pop.rev # snap.rev => snap.pending = Delta.op
    BY DEF PublishedProved, Leaving, Current
  <2>1. snap.rev \in Nat BY DEF Journal, LedgerOK, Snaps
  <2>2. release # "closing" => window \subseteq policy \cup Leaving BY DEF Publishing, Measured
  <2>3. ASSUME Current, ~Ahead PROVE pop.rev = snap.rev /\ pop.births = snap.members
    BY <2>3 DEF Publishing, Revised
  <2>4. ASSUME Current, Ahead PROVE pop.rev = snap.rev + 1 /\ snap.pending = Delta.op
    <3>1. pop.rev = snap.rev + 1 BY <2>4 DEF Publishing, Revised
    <3>2. Delta.op \in Ops /\ rec[Delta.op].fleet = fleet BY <2>4 DEF Publishing, Owning
    <3>3. Unfinished(Delta.op) BY <2>4, <3>2 DEF Ahead, Cover, Reserving, Unfinished
    <3>4. QED BY <3>1, <3>2, <3>3, UnfinishedAwaited
  <2>5. QED BY <2>1, <2>2, <2>3, <2>4
<1>2. QED BY <1>1, JournalAlways, CoverAlways, PublishingAlways, PTL
=============================================================================

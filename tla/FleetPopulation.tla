---------------------------- MODULE FleetPopulation ----------------------------
(***************************************************************************)
(* The devices of a formal fleet.  A hold keeps identities for one start   *)
(* (runtime/ue_reservation.py); the generation it launches may then gain   *)
(* and lose devices (runtime/population.py): the adapter of the intents    *)
(* (scenarios/population.py) walks a change through its checkpoints in the *)
(* round ledger and the policy ports, the UE controller alone dispatches   *)
(* the native writes, and the change is published to the measurements.     *)
(* A release freezes the change and takes policies and admissions back     *)
(* (intents/population_release.py), the round still measuring; the cleanup *)
(* of the round quiesces the change too, and stops the fleet.              *)
(*                                                                         *)
(* Limitations.  One access slice, one session per device; ordinary fleets *)
(* are their generation only.  A policy port takes effect in one step, or  *)
(* fails having served some of its devices.  A Pod and its registration    *)
(* appear together.  Native calls are applied, or lost, before the release *)
(* of their fleet is proved.  Replacements of one session are left out.    *)
(* A change that a release has frozen is not taken up again: in the code   *)
(* its first port refuses (_guard).                                        *)
(***************************************************************************)
EXTENDS Integers, FiniteSets, Sequences

CONSTANTS
    Owners,    \* start operations that hold devices
    Ops,       \* population operations
    NoOne,     \* no operation
    FleetSize, \* devices of a launch
    MaxAdd,    \* bound: devices one operation adds
    MaxDevice, \* bound: Pod indices of one generation
    MaxGen,    \* bound: generations
    MaxHold,   \* bound: holds
    MaxCrash   \* bound: restarts of the backend

ASSUME PopulationAssumption ==
    /\ NoOne \notin Ops \cup Owners
    /\ FleetSize \in 1..MaxDevice /\ MaxDevice \in Nat
    /\ MaxAdd \in Nat /\ MaxGen \in Nat /\ MaxHold \in Nat /\ MaxCrash \in Nat

VARIABLES
    gen,      \* durable: the last generation and its allocation
    hold,     \* durable: the one held reservation
    handle,   \* durable: the hold each start operation was given
    pop,      \* durable: the population journal of the controller
    snap,     \* durable: the published population of the round
    rec,      \* durable: the population operations of the ledger
    round,    \* durable: how far the round is
    fleet,    \* durable: the generation its lease was given for
    pods, native,      \* the Pods, the registered devices
    flight,            \* native calls that were issued and not yet applied
    admitted, policy,  \* devices with an SMF admission, with their policy
    release,           \* durable: how far a release of the intent is
    pc, proof,         \* the adapter: where its call is, its readback
    window,   \* the devices the running measurement window sends for
    dirty,    \* a window that was never cleaned up is in the ledger
    sent,     \* history: how often a write reached the native driver
    crashes

journal == <<gen, hold, handle, pop>>
ledger == <<snap, rec, round, fleet>>
world == <<pods, native, flight>>
ports == <<admitted, policy, release>>
adapter == <<pc, proof>>
measuring == <<window, dirty>>
history == <<sent, crashes>>
vars == <<gen, hold, handle, pop, snap, rec, round, fleet, pods, native, flight,
          admitted, policy, release, pc, proof, window, dirty, sent, crashes>>

Device == 0..MaxDevice-1  \* by the index of its Pod
Slot == 0..MaxDevice      \* subscriber slots (BASE_IMSI + slot)
Write == Device \X {"create", "deregister", "delete"}
DeltaState == {"none", "reserved", "adding", "added_ready", "retiring", "committed",
               "expired", "recovery_required", "quiesced"}
Phase == {"none", "reserved", "held", "capacity_pending", "capacity", "admissions_pending",
          "admissions", "consume_pending", "adding", "inherited_pending", "inherited",
          "withdrawn_pending", "withdrawn", "retire_pending", "retiring", "native_ready",
          "completed"}

NoDelta == [op |-> NoOne, base |-> 0, state |-> "none", live |-> FALSE, add |-> {}, remove |-> {}]
NoPop == [gen |-> 0, rev |-> 0, births |-> {}, issued |-> <<>>, quarantine |-> {}, tomb |-> {},
          delta |-> NoDelta, writes |-> {}]
NoRecord == [phase |-> "none", fleet |-> 0, base |-> 0, add |-> 0, remove |-> {}]
NoProof == [rev |-> 0, members |-> {}]
Idle == [op |-> NoOne, at |-> "idle"]

TypeOK ==
    /\ gen \in [id : 0..MaxGen, alloc : SUBSET Device]
    /\ hold \in [id : 0..MaxHold, owner : Owners \cup {NoOne}, live : BOOLEAN,
                 state : {"none", "held", "consumed", "released"}, base : 0..MaxGen, gen : 0..MaxGen]
    /\ handle \in [Owners -> 0..MaxHold]
    /\ pop \in [gen : 0..MaxGen, rev : Nat, births : SUBSET Device, issued : Seq(Slot),
                quarantine : SUBSET Slot, tomb : SUBSET Device, writes : SUBSET Write,
                delta : [op : Ops \cup {NoOne}, base : Nat, state : DeltaState, live : BOOLEAN,
                         add : SUBSET Device, remove : SUBSET Device]]
    /\ snap \in [rev : Nat, members : SUBSET Device, pending : Ops \cup {NoOne}, excluded : SUBSET Device]
    /\ rec \in [Ops -> [phase : Phase, fleet : 0..MaxGen, base : Nat, add : 0..MaxAdd,
                        remove : SUBSET Device]]
    /\ round \in {"none", "ordinary", "starting", "active", "ended", "stopping", "stopped"}
    /\ fleet \in 0..MaxGen
    /\ pods \cup native \cup admitted \cup policy \cup window \subseteq Device
    /\ flight \subseteq Write
    /\ release \in {"none", "freezing", "frozen", "closing"}
    /\ pc \in [op : Ops \cup {NoOne}, at : {"idle", "resume", "reserve", "keep", "port", "note",
               "consume", "consumed", "exclude", "retire", "retired", "publish"}]
    /\ proof \in [rev : Nat, members : SUBSET Device]
    /\ dirty \in BOOLEAN /\ sent \in [Write -> Nat] /\ crashes \in 0..MaxCrash

Init ==
    /\ gen = [id |-> 0, alloc |-> {}]
    /\ hold = [id |-> 0, owner |-> NoOne, live |-> FALSE, state |-> "none", base |-> 0, gen |-> 0]
    /\ handle = [o \in Owners |-> 0]
    /\ pop = NoPop
    /\ snap = [rev |-> 0, members |-> {}, pending |-> NoOne, excluded |-> {}]
    /\ rec = [o \in Ops |-> NoRecord]
    /\ round = "none" /\ fleet = 0
    /\ pods = {} /\ native = {} /\ flight = {}
    /\ admitted = {} /\ policy = {} /\ release = "none"
    /\ pc = Idle /\ proof = NoProof
    /\ window = {} /\ dirty = FALSE
    /\ sent = [w \in Write |-> 0] /\ crashes = 0

-----------------------------------------------------------------------------
\* Holds and generations (HeldUERepository, UEStore.request)

HoldActive == hold.state = "held" /\ hold.live

\* assert_no_pending: an unresolved change owns the generation.
Unresolved == pop.delta.state \notin {"none", "committed", "expired"}
NoPending == ~Unresolved
MayStop == Unresolved => pop.delta.state = "quiesced"

Launch(devices) == gen' = [id |-> gen.id + 1, alloc |-> devices]

\* reserve: the observed fleet is empty and stopped.  The fleet belongs to
\* one intent at a time (IntentTraffic), so no formal round is open.
ReserveHold(o) ==
    /\ round = "none" /\ hold.id < MaxHold
    /\ NoPending /\ ~HoldActive
    /\ ~(hold.owner = o /\ hold.state = "consumed")
    /\ gen.alloc = {} /\ pods \cup native = {}
    /\ hold' = [id |-> hold.id + 1, owner |-> o, live |-> TRUE, state |-> "held",
                base |-> gen.id, gen |-> 0]
    /\ handle' = [handle EXCEPT ![o] = hold.id + 1]
    /\ UNCHANGED <<gen, pop, ledger, world, ports, adapter, measuring, history>>

HoldExpires ==
    /\ HoldActive
    /\ hold' = [hold EXCEPT !.live = FALSE]
    /\ UNCHANGED <<gen, handle, pop, ledger, world, ports, adapter, measuring, history>>

Holds(o) == handle[o] # 0 /\ handle[o] = hold.id

ReleaseHold(o) ==
    /\ Holds(o) /\ hold.state = "held"
    /\ hold' = [hold EXCEPT !.state = "released"]
    /\ UNCHANGED <<gen, handle, pop, ledger, world, ports, adapter, measuring, history>>

\* consume: the held identities become the generation of a formal round.
ConsumeHold(o) ==
    /\ round = "none" /\ gen.id < MaxGen
    /\ NoPending /\ Holds(o) /\ HoldActive /\ gen.id = hold.base
    /\ Launch(0..FleetSize-1)
    /\ hold' = [hold EXCEPT !.state = "consumed", !.gen = gen.id + 1]
    /\ round' = "starting" /\ fleet' = gen.id + 1
    /\ snap' = [rev |-> 0, members |-> {}, pending |-> NoOne, excluded |-> {}]
    /\ dirty' = FALSE /\ sent' = [w \in Write |-> 0]
    /\ UNCHANGED <<handle, pop, rec, world, ports, adapter, window, crashes>>

\* A bug: an ordinary start does not look for a held reservation.
RequestIgnoresHold == NoPending

RequestAllowed == NoPending /\ ~HoldActive

\* UEStore.request: an ordinary round launches and stops a fleet.
OrdinaryStart ==
    /\ round = "none" /\ gen.id < MaxGen - 1 /\ gen.alloc = {}
    /\ RequestAllowed
    /\ Launch(0..FleetSize-1) /\ round' = "ordinary"
    /\ UNCHANGED <<hold, handle, pop, snap, rec, fleet, world, ports, adapter, measuring, history>>

OrdinaryStop ==
    /\ round = "ordinary" /\ gen.id < MaxGen
    /\ MayStop /\ ~HoldActive
    /\ Launch({}) /\ round' = "none"
    /\ UNCHANGED <<hold, handle, pop, snap, rec, fleet, world, ports, adapter, measuring, history>>

\* The round proves its fleet: devices up, admitted, under their policy.
Establish ==
    /\ round = "starting"
    /\ round' = "active"
    /\ pods' = gen.alloc /\ native' = gen.alloc
    /\ admitted' = gen.alloc /\ policy' = gen.alloc
    /\ snap' = [snap EXCEPT !.members = gen.alloc]
    /\ UNCHANGED <<journal, rec, fleet, flight, release, adapter, measuring, history>>

-----------------------------------------------------------------------------
\* The journal of the population (PopulationRepository)

Delta == pop.delta
SlotsOf(p, devices) == {p.issued[d + 1] : d \in devices}

\* A bug: only the slots of the present devices are kept.
SavedPresent(p) == [p EXCEPT !.quarantine = SlotsOf(p, p.births \cup p.delta.add)]

\* _compact: every slot that was ever issued stays quarantined.
Saved(p) == [p EXCEPT !.quarantine = @ \cup SlotsOf(p, p.births \cup p.tomb \cup p.delta.add)]

\* The n lowest free slots, in their order.
FreeSlots(p) == Slot \ p.quarantine
Lowest(n, free) ==
    {s \in [1..n -> free] :
        /\ \A i, j \in 1..n : i < j => s[i] < s[j]
        /\ \A i \in 1..n, x \in free : x < s[i] => \E j \in 1..n : s[j] = x}

\* A fleet's first change starts its journal from the launched allocation.
Fresh == [NoPop EXCEPT !.gen = gen.id, !.births = gen.alloc,
                       !.issued = [i \in 1..Cardinality(gen.alloc) |-> i - 1]]
Present == IF pop.gen = gen.id THEN pop ELSE Fresh

\* reserve: the slots of the added devices, at the next Pod indices.
Reserved(p, o, slots) ==
    LET r == rec[o]
        next == Len(p.issued)
    IN  Saved([Saved(p) EXCEPT !.issued = @ \o slots, !.writes = {},
                 !.delta = [op |-> o, base |-> r.base, state |-> "reserved", live |-> TRUE,
                            add |-> next..(next + r.add - 1), remove |-> r.remove]])

\* An emptied population still owns its generation.
OwnsGeneration(p) ==
    \/ gen.alloc # {}
    \/ p.delta.state = "committed" /\ p.births = {} /\ p.tomb # {} /\ p.rev > 0

Reservable(p, o) ==
    /\ (Unresolved => p.gen = pop.gen /\ p.delta.state = "reserved" /\ ~p.delta.live)
    /\ p.rev = rec[o].base
    /\ p.births \subseteq pods \cap native  \* the native baseline
    /\ rec[o].remove \subseteq p.births
    /\ Len(p.issued) + rec[o].add <= MaxDevice

\* The same operation is given its reservation again, unless that expired.
RuntimeReserve ==
    /\ pc.at = "reserve"
    /\ hold.state = "consumed" /\ hold.gen = gen.id /\ OwnsGeneration(Present)
    /\ rec[pc.op].fleet = hold.gen  \* the lease is of the start that held it
    /\ \/ /\ Present.delta.op = pc.op
          /\ Delta.live \/ Delta.state = "committed"
          /\ UNCHANGED <<pop, gen>>
       \/ /\ Present.delta.op # pc.op /\ Reservable(Present, pc.op)
          /\ \E slots \in Lowest(rec[pc.op].add, FreeSlots(Saved(Present))) :
                pop' = Reserved(Present, pc.op, slots)
          /\ gen' = [gen EXCEPT !.alloc = Present.births]
    /\ pc' = [pc EXCEPT !.at = "keep"]
    /\ UNCHANGED <<hold, handle, ledger, world, ports, proof, measuring, history>>

DeltaExpires ==
    /\ Delta.live /\ Delta.state \notin {"committed", "expired"}
    /\ pop' = [pop EXCEPT !.delta.live = FALSE]
    /\ UNCHANGED <<gen, hold, handle, ledger, world, ports, adapter, measuring, history>>

\* _owned: a handle is good for its change and its generation.
Owned(o) == Delta.op = o /\ pop.gen = gen.id

\* authorize: the CAS that lets the controller write.
Authorized(o, phase) ==
    /\ Owned(o)
    /\ \/ /\ Delta.state \in {"retiring", "committed"}
                \cup (IF phase = "adding" THEN {"adding", "added_ready"} ELSE {})
          /\ UNCHANGED <<pop, gen>>
       \/ /\ Delta.live
          /\ \/ phase = "adding" /\ Delta.state = "reserved"
             \/ phase = "retiring" /\ Delta.state = "added_ready"
             \/ phase = "retiring" /\ Delta.state = "reserved" /\ Delta.add = {}
          /\ pop' = [pop EXCEPT !.delta.state = phase]
          /\ gen' = IF phase = "adding" THEN [gen EXCEPT !.alloc = pop.births \cup Delta.add] ELSE gen

-----------------------------------------------------------------------------
\* The controller (PopulationRuntime.reconcile, under UEController._lock)

Reconciles(state) ==
    /\ Delta.state = state /\ pop.gen = gen.id
Up(devices) == devices \subseteq pods \cap native
Gone(devices) == devices \cap (pods \cup native) = {}

\* An expired change of the present generation gets no new write.
ReconcileExpired ==
    /\ \E state \in {"adding", "retiring"} : Reconciles(state)
    /\ ~Delta.live
    /\ pop' = [pop EXCEPT !.delta.state = "recovery_required"]
    /\ UNCHANGED <<gen, hold, handle, ledger, world, ports, adapter, measuring, history>>

\* A bug: the journal is not asked whether the write was dispatched before.
UnmarkedAlways(w) == TRUE

Unmarked(w) == w \notin pop.writes

\* mark_write, then the native call, which may be lost.
Dispatch(w) ==
    /\ Delta.live /\ Unmarked(w)
    /\ pop' = [pop EXCEPT !.writes = @ \cup {w}]
    /\ sent' = [sent EXCEPT ![w] = @ + 1]
    /\ flight' \in {flight, flight \cup {w}}
    /\ UNCHANGED <<gen, hold, handle, ledger, pods, native, ports, adapter, measuring, crashes>>

\* The first added device that has no Pod.
Create(d) ==
    /\ Reconciles("adding")
    /\ d \in Delta.add \ pods /\ \A e \in Delta.add \ pods : d <= e
    /\ Dispatch(<<d, "create">>)

\* The first departing device that is not gone.
Departing(d) ==
    /\ Reconciles("retiring")
    /\ d \in Delta.remove /\ ~Gone({d})
    /\ \A e \in Delta.remove : e < d => Gone({e})

Deregister(d) == Departing(d) /\ d \in pods \cap native /\ Dispatch(<<d, "deregister">>)
Delete(d) == Departing(d) /\ d \in pods \ native /\ Dispatch(<<d, "delete">>)

\* update: births, the last tombstones, revision and allocation together.
Committed ==
    LET births == (pop.births \cup Delta.add) \ Delta.remove
    IN  /\ pop' = Saved([pop EXCEPT !.births = births, !.rev = Delta.base + 1,
                           !.tomb = IF Delta.remove = {} THEN @ ELSE Delta.remove,
                           !.delta.state = "committed"])
        /\ gen' = [gen EXCEPT !.alloc = births]

\* The additions are observed, the survivors unchanged.
ReconcileAdded ==
    /\ Reconciles("adding") /\ Delta.live
    /\ Up(pop.births \cup Delta.add)
    /\ IF Delta.remove = {} THEN Committed
       ELSE pop' = [pop EXCEPT !.delta.state = "added_ready"] /\ UNCHANGED gen
    /\ UNCHANGED <<hold, handle, ledger, world, ports, adapter, measuring, history>>

ReconcileRetired ==
    /\ Reconciles("retiring") /\ Delta.live
    /\ Gone(Delta.remove) /\ Up((pop.births \cup Delta.add) \ Delta.remove)
    /\ Committed
    /\ UNCHANGED <<hold, handle, ledger, world, ports, adapter, measuring, history>>

\* The cluster and the core network apply a call at last.
Deliver(w) ==
    /\ w \in flight /\ flight' = flight \ {w}
    /\ LET d == w[1] IN
       CASE w[2] = "create" -> pods' = pods \cup {d} /\ native' = native \cup {d}
         [] w[2] = "deregister" -> native' = native \ {d} /\ UNCHANGED pods
         [] w[2] = "delete" -> pods' = pods \ {d} /\ UNCHANGED native
    /\ UNCHANGED <<journal, ledger, ports, adapter, measuring, history>>

-----------------------------------------------------------------------------
\* What the adapter reads back (PopulationRuntime.readback)

Seen == Delta.state \in {"adding", "added_ready", "retiring", "committed"}
Retires == Delta.state \in {"retiring", "committed"}
Cohort == (pop.births \cup Delta.add) \ (IF Retires THEN Delta.remove ELSE {})
Absent == Delta.remove = {} \/ (Retires /\ Gone(Delta.remove))
Ready == Seen /\ Up(Cohort) /\ Absent
AdditionsReady ==
    \/ Delta.add = {} \/ Ready
    \/ Delta.state \in {"adding", "added_ready"} /\ Up(Cohort)

-----------------------------------------------------------------------------
\* The adapter (FormalPopulationAdapter.change), one call at a time

Me == pc.op
Now == IF Me \in Ops THEN rec[Me].phase ELSE "none"
Goto(at) == pc' = [pc EXCEPT !.at = at]

\* _authority: the lease is active, the round not in cleanup.
Authority == Me \in Ops /\ round = "active" /\ rec[Me].fleet = fleet

\* checkpoint: only the operation the ledger awaits moves its phase.
Checkpoint(phase) ==
    /\ Authority /\ snap.pending = Me
    /\ rec' = [rec EXCEPT ![Me].phase = phase]

\* The measurement lock is the adapter's from the withdrawal to the
\* retirement, and for the publication.
Locked ==
    \/ pc.at \in {"exclude", "retire", "retired", "publish"}
    \/ pc.at \in {"port", "note"} /\ Now = "withdrawn_pending"

\* change, for a new operation (reserve of the ledger) or one to resume, that
\* no release has marked and no fence keeps out.
Submit(o) ==
    /\ pc = Idle /\ round = "active" /\ release = "none"
    /\ \/ /\ rec[o].phase = "none" /\ snap.pending = NoOne
          /\ \E add \in 0..MaxAdd, remove \in SUBSET snap.members :
                /\ add > 0 \/ remove # {}
                /\ rec' = [rec EXCEPT ![o] = [phase |-> "reserved", fleet |-> fleet,
                                              base |-> snap.rev, add |-> add, remove |-> remove]]
          /\ snap' = [snap EXCEPT !.pending = o]
       \/ /\ rec[o].phase \notin {"none", "completed"} /\ rec[o].fleet = fleet
          /\ UNCHANGED <<rec, snap>>
    /\ pc' = [op |-> o, at |-> "resume"]
    /\ UNCHANGED <<journal, round, fleet, world, ports, proof, measuring, history>>

\* reservation_dispatch: noted before the controller is asked.
StartReservation ==
    /\ pc.at = "resume" /\ Now = "reserved"
    /\ Authority /\ snap.pending = Me
    /\ Goto("reserve")
    /\ UNCHANGED <<journal, ledger, world, ports, proof, measuring, history>>

KeepReservation ==
    /\ pc.at = "keep"
    /\ Checkpoint("held") /\ Goto("resume")
    /\ UNCHANGED <<journal, snap, round, fleet, world, ports, proof, measuring, history>>

\* _phase: checkpoint the intention, call the port, checkpoint its receipt;
\* an intention found in the ledger is resumed.
Intention == [held |-> "capacity_pending", capacity_pending |-> "capacity_pending",
              capacity |-> "admissions_pending", admissions_pending |-> "admissions_pending",
              consume_pending |-> "inherited_pending", adding |-> "inherited_pending",
              inherited_pending |-> "inherited_pending",
              inherited |-> "withdrawn_pending", withdrawn_pending |-> "withdrawn_pending"]
Receipt == [capacity_pending |-> "capacity", admissions_pending |-> "admissions",
            inherited_pending |-> "inherited", withdrawn_pending |-> "withdrawn"]

\* A consume_pending whose command never reached the controller.
Unconsumed == Now = "consume_pending" /\ Delta.add # {} /\ Delta.state = "reserved"

\* Policies are inherited on proof of the additions, and withdrawn under the
\* measurement lock.
PortAllowed ==
    /\ Intention[Now] = "inherited_pending" => Owned(Me) /\ AdditionsReady /\ ~Unconsumed
    /\ Intention[Now] = "withdrawn_pending" => window = {}

StartPort ==
    /\ pc.at = "resume" /\ Now \in DOMAIN Intention
    /\ PortAllowed
    /\ IF Intention[Now] = Now THEN Authority /\ UNCHANGED rec
       ELSE Checkpoint(Intention[Now])
    /\ Goto("port")
    /\ UNCHANGED <<journal, snap, round, fleet, world, ports, proof, measuring, history>>

\* The ports: admissions precede the devices, policies follow them, and a
\* departing device loses both.
Port(served) ==
    CASE Now = "capacity_pending" -> UNCHANGED <<admitted, policy>>
      [] Now = "admissions_pending" -> admitted' = admitted \cup (served \cap Delta.add) /\ UNCHANGED policy
      [] Now = "inherited_pending" -> policy' = policy \cup (served \cap Delta.add) /\ UNCHANGED admitted
      [] Now = "withdrawn_pending" ->
            policy' = policy \ (served \cap Delta.remove) /\ admitted' = admitted \ (served \cap Delta.remove)

CallPort ==
    /\ pc.at = "port" /\ Authority
    /\ Port(Device) /\ Goto("note")
    /\ UNCHANGED <<journal, ledger, world, release, proof, measuring, history>>

PortFails ==
    /\ pc.at = "port" /\ rec[Me].fleet = fleet
    /\ \E served \in SUBSET (Delta.add \cup Delta.remove) : Port(served)
    /\ pc' = Idle
    /\ UNCHANGED <<journal, ledger, world, release, proof, measuring, history>>

NotePort ==
    /\ pc.at = "note"
    /\ Checkpoint(Receipt[Now])
    /\ Goto(IF Now = "withdrawn_pending" THEN "exclude" ELSE "resume")
    /\ UNCHANGED <<journal, snap, round, fleet, world, ports, proof, measuring, history>>

StartConsume ==
    /\ pc.at = "resume" /\ Now = "admissions"
    /\ Checkpoint("consume_pending") /\ Goto("consume")
    /\ UNCHANGED <<journal, snap, round, fleet, world, ports, proof, measuring, history>>

\* consume_population, on the way or after a restart that found it undone.
Consume ==
    /\ Authority
    /\ \/ /\ pc.at = "consume" /\ Goto("consumed")
          /\ IF Delta.add # {} THEN Authorized(Me, "adding") ELSE UNCHANGED <<pop, gen>>
       \/ /\ pc.at = "resume" /\ Unconsumed
          /\ Authorized(Me, "adding") /\ UNCHANGED pc
    /\ UNCHANGED <<hold, handle, ledger, world, ports, proof, measuring, history>>

NoteConsumed ==
    /\ pc.at = "consumed"
    /\ Checkpoint("adding") /\ Goto("resume")
    /\ UNCHANGED <<journal, snap, round, fleet, world, ports, proof, measuring, history>>

\* A bug: the departing devices stay in the sampling view.
ExcludeNobody ==
    /\ pc.at = "exclude"
    /\ Checkpoint("retire_pending") /\ Goto("retire")
    /\ UNCHANGED snap
    /\ UNCHANGED <<journal, round, fleet, world, ports, proof, measuring, history>>

\* The departing devices leave the sampling before they are retired.
Exclude ==
    /\ pc.at = "exclude"
    /\ Checkpoint("retire_pending") /\ Goto("retire")
    /\ snap' = [snap EXCEPT !.excluded = rec[Me].remove]
    /\ UNCHANGED <<journal, round, fleet, world, ports, proof, measuring, history>>

Unretired == Now = "retire_pending" /\ Delta.state \in {"reserved", "added_ready"}

\* retire_population, on the way or after a restart that found it undone.
Retire ==
    /\ Authority
    /\ \/ pc.at = "retire" /\ Goto("retired")
       \/ pc.at = "resume" /\ Unretired /\ UNCHANGED pc
    /\ Authorized(Me, "retiring")
    /\ UNCHANGED <<hold, handle, ledger, world, ports, proof, measuring, history>>

NoteRetired ==
    /\ pc.at = "retired"
    /\ Checkpoint("retiring") /\ Goto("resume")
    /\ UNCHANGED <<journal, snap, round, fleet, world, ports, proof, measuring, history>>

\* A complete readback is carried into the publication.
Readback ==
    /\ pc.at = "resume" /\ Now \in {"retire_pending", "retiring", "native_ready"}
    /\ ~Unretired /\ Owned(Me) /\ Ready /\ window = {}
    /\ proof' = [rev |-> pop.rev, members |-> Cohort]
    /\ IF Now = "native_ready" THEN UNCHANGED rec ELSE Checkpoint("native_ready")
    /\ Goto("publish")
    /\ UNCHANGED <<journal, snap, round, fleet, world, ports, measuring, history>>

\* A bug: native readiness is taken for the controller's commit.
PublishableReady == snap.rev = rec[Me].base /\ ~dirty

\* The readback is of the committed revision, the ledger of the one before.
Publishable == proof.rev = rec[Me].base + 1 /\ snap.rev = rec[Me].base /\ ~dirty

\* commit: cohort, revision and the end of the operation in one transaction.
Publish ==
    /\ pc.at = "publish" /\ Publishable
    /\ Checkpoint("completed")
    /\ snap' = [rev |-> rec[Me].base + 1, members |-> proof.members, pending |-> NoOne, excluded |-> {}]
    /\ pc' = Idle /\ proof' = NoProof
    /\ UNCHANGED <<journal, round, fleet, world, ports, measuring, history>>

\* Any call raises, or finds nothing to do yet.
AdapterFails ==
    /\ pc # Idle
    /\ pc' = Idle /\ proof' = NoProof
    /\ UNCHANGED <<journal, ledger, world, ports, measuring, history>>

-----------------------------------------------------------------------------
\* A release of the intent (close_owned_fleet, population_release.py, _release).
\* It waits for the adapter's call and not for a window that is running.

\* The journal is good for the lease of the fleet that wrote it (owns_lease).
JournalMine == Delta = NoDelta \/ pop.gen = fleet

Releasable == round \in {"active", "ended", "stopping", "stopped"}

\* The change the ledger awaits is the one of the journal.
ChangeMine == snap.pending # NoOne /\ Delta.op = snap.pending /\ JournalMine

\* authority, then quiesce_population: the change under way is marked and
\* gets no further write.  One the runtime was never asked for is only marked.
FreezeChange ==
    /\ Releasable /\ release = "none" /\ pc = Idle
    /\ \/ /\ ChangeMine /\ rec[snap.pending].phase # "reserved"
          /\ pop' = IF Unresolved THEN [pop EXCEPT !.delta.state = "quiesced"] ELSE pop
          /\ release' = "freezing"
       \/ /\ snap.pending # NoOne /\ Delta.op # snap.pending /\ rec[snap.pending].phase = "reserved"
          /\ release' = "frozen" /\ UNCHANGED pop
    /\ UNCHANGED <<gen, hold, handle, ledger, world, admitted, policy, adapter, measuring, history>>

\* The policies of the added devices are taken back, then every admission (all
\* of them, or none for good); a call that fails leaves the rest to a retry.
UndoChange ==
    /\ release = "freezing" /\ ChangeMine /\ pc = Idle
    /\ \E undone \in SUBSET Delta.add : policy' = policy \ undone
    /\ admitted' \in {admitted, {}}
    /\ release' = IF admitted' = {} THEN "frozen" ELSE "freezing"
    /\ UNCHANGED <<journal, ledger, world, adapter, measuring, history>>

\* begin_fleet_closing: no change is under way, or the release froze it.
CloseFleet ==
    /\ Releasable /\ pc = Idle
    /\ release = "frozen" \/ (release = "none" /\ snap.pending = NoOne)
    /\ release' = "closing"
    /\ UNCHANGED <<journal, ledger, world, admitted, policy, adapter, measuring, history>>

\* _release restores policies and admissions before the round is drained.
RestorePolicies ==
    /\ release = "closing" /\ admitted \cup policy # {}
    /\ admitted' \in {admitted, {}} /\ policy' \in SUBSET policy
    /\ UNCHANGED <<journal, ledger, world, release, adapter, measuring, history>>

-----------------------------------------------------------------------------
\* Measurements and the cleanup of the round (coordinator.py)

\* _measure, under the measurement lock: the published devices, less those
\* that are leaving (population_sampling_view).  A turn of the hold that was
\* renewed before a release may begin one after it.
BeginWindow ==
    /\ round = "active" /\ window = {} /\ ~Locked /\ ~dirty
    /\ window' = snap.members \ snap.excluded
    /\ window' # {}
    /\ UNCHANGED <<journal, ledger, world, ports, adapter, dirty, history>>

EndWindow ==
    /\ window # {} /\ window' = {}
    /\ UNCHANGED <<journal, ledger, world, ports, adapter, dirty, history>>

\* A release, a drain or a failed execution: the round is cleaned up.
Close ==
    /\ round \in {"starting", "active"}
    /\ round' = "ended"
    /\ UNCHANGED <<journal, snap, rec, fleet, world, ports, adapter, measuring, history>>

\* quiesce: the change gets no further write; the stop may pass it.
Quiesce ==
    /\ round = "ended" /\ window = {} /\ JournalMine
    /\ pop' = IF Unresolved THEN [pop EXCEPT !.delta.state = "quiesced"] ELSE pop
    /\ round' = "stopping"
    /\ UNCHANGED <<gen, hold, handle, snap, rec, fleet, world, ports, adapter, measuring, history>>

\* ue_stop: a generation of no device, unless the fleet is empty already.
StopFleet ==
    /\ round = "stopping"
    /\ MayStop /\ ~HoldActive
    /\ IF gen.alloc = {} THEN UNCHANGED gen ELSE gen.id < MaxGen /\ Launch({})
    /\ round' = "stopped"
    /\ UNCHANGED <<hold, handle, pop, snap, rec, fleet, world, ports, adapter, measuring, history>>

\* The Pods of the earlier generation are retired.
RetirePods ==
    /\ round = "stopped" /\ <<pods, native, flight>> # <<{}, {}, {}>>
    /\ pods' = {} /\ native' = {} /\ flight' = {}
    /\ UNCHANGED <<journal, ledger, ports, adapter, measuring, history>>

\* confirm_stopped, then the release of the round, on proof of absence.
ConfirmStopped ==
    /\ round = "stopped"
    /\ <<pods, native, flight>> = <<{}, {}, {}>> /\ admitted \cup policy = {}
    /\ JournalMine
    /\ Delta # NoDelta => /\ Delta.state \in {"quiesced", "expired", "committed"}
                          /\ gen.id > pop.gen \/ (pop.births = {} /\ pop.rev > 0)
    /\ pop' = IF Delta = NoDelta THEN pop ELSE Saved([pop EXCEPT !.delta.state = "expired"])
    /\ round' = "none" /\ release' = "none"
    /\ UNCHANGED <<gen, hold, handle, snap, rec, fleet, world, admitted, policy, adapter, measuring, history>>

\* A restart forgets the adapter's call and the running window.
Crash ==
    /\ crashes < MaxCrash /\ round # "none"
    /\ crashes' = crashes + 1
    /\ pc' = Idle /\ proof' = NoProof
    /\ window' = {} /\ dirty' = (dirty \/ window # {})
    /\ UNCHANGED <<journal, ledger, world, ports, sent>>

-----------------------------------------------------------------------------
Holding ==
    \/ \E o \in Owners : ReserveHold(o) \/ ReleaseHold(o) \/ ConsumeHold(o)
    \/ HoldExpires \/ OrdinaryStart \/ OrdinaryStop \/ Establish

Change ==
    \/ \E o \in Ops : Submit(o)
    \/ StartReservation \/ RuntimeReserve \/ KeepReservation
    \/ StartPort \/ CallPort \/ PortFails \/ NotePort
    \/ StartConsume \/ Consume \/ NoteConsumed
    \/ Exclude \/ Retire \/ NoteRetired \/ Readback \/ Publish \/ AdapterFails

Reconcile ==
    \/ DeltaExpires \/ ReconcileExpired \/ ReconcileAdded \/ ReconcileRetired
    \/ \E d \in Device : Create(d) \/ Deregister(d) \/ Delete(d)
    \/ \E w \in Write : Deliver(w)

Release ==
    FreezeChange \/ UndoChange \/ CloseFleet \/ RestorePolicies

Cleanup ==
    Close \/ Quiesce \/ StopFleet \/ RetirePods \/ ConfirmStopped

Next ==
    Holding \/ Change \/ Reconcile \/ Release \/ Cleanup \/ BeginWindow \/ EndWindow \/ Crash

Spec == Init /\ [][Next]_vars

\* Calls and windows end; release and cleanup go on until the round is released.
CleansUp ==
    /\ WF_vars(AdapterFails) /\ WF_vars(EndWindow) /\ WF_vars(Quiesce) /\ WF_vars(CloseFleet)
    /\ WF_vars(RestorePolicies /\ admitted' \cup policy' = {})
    /\ WF_vars(StopFleet) /\ WF_vars(RetirePods) /\ WF_vars(ConfirmStopped)

FairSpec == Spec /\ CleansUp

-----------------------------------------------------------------------------
\* A native write is handed to the driver at most once, whatever was lost or
\* restarted (mark_write and the reading of the journal before a create).
DispatchedOnce == \A w \in Write : sent[w] <= 1

\* No subscriber slot serves two devices of one fleet, however many of them
\* departed or were only reserved (quarantined_subscriber_slots).
Quarantined ==
    \A i, j \in 1..Len(pop.issued) : pop.issued[i] = pop.issued[j] => i = j

\* A device is created only when admitted, and leaves only when no policy,
\* admission or measurement uses it (the order of the phases of change).
Covered == [][\A w \in Write : sent'[w] > sent[w] =>
                  IF w[2] = "create" THEN w[1] \in admitted
                  ELSE w[1] \notin policy \cup admitted \cup window]_vars

\* The published population is the committed one or the one before it, and
\* what is measured is under policy, but for devices on their way out whose
\* withdrawal was interrupted (commit, _measure), until a release closes the
\* fleet: it restores policies without waiting for the window.
PublishedProved ==
    round = "active" =>
        /\ release # "closing" =>
              window \subseteq policy \cup (IF snap.pending = NoOne THEN {} ELSE rec[snap.pending].remove)
        /\ pop.gen = fleet => /\ pop.rev \in {snap.rev, snap.rev + 1}
                              /\ pop.rev = snap.rev => snap.members = pop.births
                              /\ pop.rev # snap.rev => snap.pending = Delta.op

\* While a hold is active no other launch changes the generation, and what a
\* hold launches follows the generation it was held on.
HoldExclusive ==
    [][gen'.id # gen.id /\ hold.state = "held" =>
          IF hold'.state = "consumed" THEN HoldActive /\ gen'.id = hold.base + 1
          ELSE ~HoldActive]_vars

\* A formal fleet that closes is stopped, one whose population nobody changed
\* included (intents/README.md: "for every formal traffic lease").
UnchangedFleetStops ==
    (round = "ended" /\ \A o \in Ops : rec[o].fleet # fleet) ~> (round = "none")

=============================================================================

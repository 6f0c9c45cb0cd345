-------------------------- MODULE QSASlots_proofs --------------------------
(***************************************************************************)
(* The lease table, proved for any number of rows, generations and request *)
(* IDs, any admissible geometry and one to eight slots: its invariants,    *)
(* that a retired lease stays retired, and that it implements QSACustody.  *)
(***************************************************************************)
EXTENDS QSASlots, TLAPS

\* The fields of a lease have the kinds the table indexes by, and NoLease is none.
LEMMA LeaseFields ==
    \A l \in Leases : /\ l.req_pool_idx \in Rows
                      /\ l.generation \in Generations
                      /\ l.slot \in Slots
                      /\ l # NoLease
BY NoLeaseAssumption DEF Leases

\* Each method that only moves a lease between phases.
LEMMA PhaseStep ==
    ASSUME SlotsInv, NEW lease \in Leases, NEW phase \in Phases,
           active[lease.req_pool_idx] = lease,
           SetPhase(lease, phase),
           UNCHANGED <<active, last_generation, free_slots, prefill_owner>>,
           prefill_owner = lease =>
              phase \in {"prefill", "copying", "failed", "releasing"},
           phase \in {"prefill", "copying"} => prefill_owner = lease
    PROVE  SlotsInv'
<1>1. lease.req_pool_idx \in Rows
  BY LeaseFields
<1>2. phases' = [phases EXCEPT ![lease.req_pool_idx] = phase]
  BY DEF SetPhase
<1>3. SlotsTypeOK'
  BY <1>1, <1>2 DEF SlotsInv, SlotsTypeOK
<1>4. SlotConservation'
  BY DEF SlotsInv, SlotConservation
<1>5. phase # "none"
  BY DEF Phases
<1>6. LeaseIdentity'
  BY <1>1, <1>2, <1>5, NoLeaseAssumption DEF SlotsInv, SlotsTypeOK, LeaseIdentity
<1>7. LaneExclusive'
  BY <1>1, <1>2, LeaseFields DEF SlotsInv, SlotsTypeOK, LaneExclusive
<1> QED
  BY <1>3, <1>4, <1>6, <1>7 DEF SlotsInv

\* The table as __init__ leaves it satisfies the inductive invariant.
LEMMA InitInv == SlotsInit => SlotsInv
<1> SUFFICES ASSUME SlotsInit PROVE SlotsInv
  OBVIOUS
<1> USE DEF SlotsInit
<1>1. SlotsTypeOK
  BY DEF SlotsTypeOK
<1>2. SlotConservation
  BY DEF SlotConservation
<1>3. LeaseIdentity
  <2>1. \A r \in Rows : active[r] = NoLease /\ phases[r] = "none"
    OBVIOUS
  <2> QED
    BY <2>1, Zenon DEF LeaseIdentity
<1>4. LaneExclusive
  BY DEF LaneExclusive
<1> QED
  BY <1>1, <1>2, <1>3, <1>4 DEF SlotsInv

\* acquire, given the slot it popped.
LEMMA AcquireStep ==
    ASSUME SlotsInv, NEW row \in Rows, NEW generation \in Generations, NEW rid \in Rids,
           Acquire(row, generation, rid)
    PROVE  SlotsInv'
<1>1. PICK slot \in Slots :
         /\ FirstFree(slot)
         /\ active' = [active EXCEPT ![row] =
              [req_pool_idx |-> row, generation |-> generation, rid |-> rid, slot |-> slot]]
         /\ prefill_owner' =
              [req_pool_idx |-> row, generation |-> generation, rid |-> rid, slot |-> slot]
         /\ free_slots' = [free_slots EXCEPT ![slot] = @ - 1]
  BY DEF Acquire
<1> DEFINE lease ==
      [req_pool_idx |-> row, generation |-> generation, rid |-> rid, slot |-> slot]
<1>2. /\ lease \in Leases
      /\ lease.req_pool_idx = row
      /\ lease.generation = generation
      /\ lease.slot = slot
  BY DEF Leases
<1>3. /\ active[row] = NoLease
      /\ prefill_owner = NoLease
      /\ active' = [active EXCEPT ![row] = lease]
      /\ prefill_owner' = lease
      /\ free_slots' = [free_slots EXCEPT ![slot] = @ - 1]
      /\ last_generation' = [last_generation EXCEPT ![row] = generation]
      /\ phases' = [phases EXCEPT ![row] = "prefill"]
  BY <1>1 DEF Acquire
<1> HIDE DEF lease
<1>4. free_slots[slot] = 1 /\ ~\E r \in Rows : active[r] # NoLease /\ active[r].slot = slot
  BY <1>1 DEF FirstFree, SlotsInv, SlotConservation
<1>5. SlotsTypeOK'
  BY <1>2, <1>3, <1>4, IdentityAssumption DEF SlotsInv, SlotsTypeOK, Phases
<1>6. SlotConservation'
  <2>1. ASSUME NEW s \in Slots
        PROVE  free_slots'[s] =
                  IF \E r \in Rows : active'[r] # NoLease /\ active'[r].slot = s THEN 0 ELSE 1
    <3>1. CASE s = slot
      BY <1>2, <1>3, <1>4, <3>1, LeaseFields DEF SlotsInv, SlotsTypeOK
    <3>2. CASE s # slot
      BY <1>2, <1>3, <3>2, LeaseFields DEF SlotsInv, SlotsTypeOK, SlotConservation
    <3> QED
      BY <3>1, <3>2
  <2>2. ASSUME NEW q \in Rows, NEW r \in Rows,
               q # r, active'[q] # NoLease, active'[r] # NoLease
        PROVE  active'[q].slot # active'[r].slot
    BY <1>2, <1>3, <1>4, <2>2 DEF SlotsInv, SlotsTypeOK, SlotConservation
  <2> QED
    BY <2>1, <2>2 DEF SlotConservation
<1>7. LeaseIdentity'
  BY <1>2, <1>3, LeaseFields DEF SlotsInv, SlotsTypeOK, LeaseIdentity
<1>8. LaneExclusive'
  BY <1>2, <1>3, LeaseFields DEF SlotsInv, SlotsTypeOK, LeaseIdentity, LaneExclusive
<1> QED
  BY <1>5, <1>6, <1>7, <1>8 DEF SlotsInv

\* finish_handoff keeps the invariant: it only gives up the lane it owns.
LEMMA FinishHandoffStep ==
    ASSUME SlotsInv, NEW lease \in Leases, NEW done \in BOOLEAN, FinishHandoff(lease, done)
    PROVE  SlotsInv'
<1> USE DEF FinishHandoff, Require, SetPhase
<1>1. SlotsTypeOK'
  BY LeaseFields DEF SlotsInv, SlotsTypeOK, Phases
<1>2. SlotConservation'
  BY DEF SlotsInv, SlotConservation
<1>3. LeaseIdentity'
  BY LeaseFields DEF SlotsInv, SlotsTypeOK, LeaseIdentity
<1>4. LaneExclusive'
  <2>1. ASSUME NEW r \in Rows, phases'[r] \in {"prefill", "copying"}
        PROVE  FALSE
    <3>1. r # lease.req_pool_idx /\ phases[r] \in {"prefill", "copying"}
      BY <2>1, LeaseFields DEF SlotsInv, SlotsTypeOK
    <3>2. active[r] = lease
      BY <3>1 DEF SlotsInv, LaneExclusive
    <3>3. active[r].req_pool_idx = r
      BY <3>2, LeaseFields DEF SlotsInv, LeaseIdentity
    <3> QED
      BY <3>1, <3>2, <3>3
  <2> QED
    BY <2>1 DEF LaneExclusive
<1> QED
  BY <1>1, <1>2, <1>3, <1>4 DEF SlotsInv

\* drain keeps the invariant: the slot stays out of the free list.
LEMMA DrainStep ==
    ASSUME SlotsInv, NEW lease \in Leases, Drain(lease)
    PROVE  SlotsInv'
<1> USE DEF Drain, Require, SetPhase
<1>1. SlotsTypeOK'
  BY LeaseFields DEF SlotsInv, SlotsTypeOK, Phases
<1>2. SlotConservation'
  BY DEF SlotsInv, SlotConservation
<1>3. LeaseIdentity'
  BY LeaseFields DEF SlotsInv, SlotsTypeOK, LeaseIdentity
<1>4. LaneExclusive'
  <2>1. CASE prefill_owner = lease
    <3>1. ASSUME NEW r \in Rows, phases'[r] \in {"prefill", "copying"}
          PROVE  FALSE
      <4>1. r # lease.req_pool_idx /\ phases[r] \in {"prefill", "copying"}
        BY <3>1, LeaseFields DEF SlotsInv, SlotsTypeOK
      <4>2. active[r] = lease
        BY <4>1, <2>1 DEF SlotsInv, LaneExclusive
      <4>3. active[r].req_pool_idx = r
        BY <4>2, LeaseFields DEF SlotsInv, LeaseIdentity
      <4> QED
        BY <4>1, <4>2, <4>3
    <3> QED
      BY <2>1, <3>1 DEF LaneExclusive
  <2>2. CASE prefill_owner # lease
    BY <2>2, LeaseFields DEF SlotsInv, SlotsTypeOK, LaneExclusive
  <2> QED
    BY <2>1, <2>2
<1> QED
  BY <1>1, <1>2, <1>3, <1>4 DEF SlotsInv

\* commit_release keeps the invariant: the one slot it frees was held by the
\* lease it removes, and by no other.
LEMMA CommitReleaseStep ==
    ASSUME SlotsInv, NEW lease \in Leases, CommitRelease(lease)
    PROVE  SlotsInv'
<1> USE DEF CommitRelease, Require
<1> DEFINE row == lease.req_pool_idx
<1>0. /\ row \in Rows
      /\ lease.slot \in Slots
      /\ lease # NoLease
      /\ active[row] = lease
      /\ active' = [active EXCEPT ![row] = NoLease]
      /\ free_slots' = [free_slots EXCEPT ![lease.slot] = @ + 1]
  BY LeaseFields
<1>1. SlotsTypeOK'
  BY <1>0 DEF SlotsInv, SlotsTypeOK
<1>2. SlotConservation'
  <2>1. \A r \in Rows \ {row} : active[r] # NoLease => active[r].slot # lease.slot
    BY <1>0 DEF SlotsInv, SlotConservation
  <2>2. ASSUME NEW s \in Slots
        PROVE  free_slots'[s] =
                  IF \E r \in Rows : active'[r] # NoLease /\ active'[r].slot = s THEN 0 ELSE 1
    <3>1. CASE s = lease.slot
      <4>1. free_slots[s] = 0
        BY <1>0, <3>1 DEF SlotsInv, SlotConservation
      <4>2. ~\E r \in Rows : active'[r] # NoLease /\ active'[r].slot = s
        BY <1>0, <2>1, <3>1 DEF SlotsInv, SlotsTypeOK
      <4> QED
        BY <1>0, <3>1, <4>1, <4>2 DEF SlotsInv, SlotsTypeOK
    <3>2. CASE s # lease.slot
      <4>1. (\E r \in Rows : active'[r] # NoLease /\ active'[r].slot = s)
               <=> (\E r \in Rows : active[r] # NoLease /\ active[r].slot = s)
        BY <1>0, <3>2 DEF SlotsInv, SlotsTypeOK
      <4>2. free_slots'[s] = free_slots[s]
        BY <1>0, <3>2 DEF SlotsInv, SlotsTypeOK
      <4> QED
        BY <4>1, <4>2 DEF SlotsInv, SlotConservation
    <3> QED
      BY <3>1, <3>2
  <2>3. ASSUME NEW q \in Rows, NEW r \in Rows,
               q # r, active'[q] # NoLease, active'[r] # NoLease
        PROVE  active'[q].slot # active'[r].slot
    BY <1>0, <2>3 DEF SlotsInv, SlotsTypeOK, SlotConservation
  <2> QED
    BY <2>2, <2>3 DEF SlotConservation
<1>3. LeaseIdentity'
  BY <1>0 DEF SlotsInv, SlotsTypeOK, LeaseIdentity
<1>4. LaneExclusive'
  BY <1>0 DEF SlotsInv, SlotsTypeOK, LaneExclusive
<1> QED
  BY <1>1, <1>2, <1>3, <1>4 DEF SlotsInv

\* The invariant is inductive: every call of the table, and a raised one, keeps it.
LEMMA StepInv == SlotsInv /\ [SlotsNext]_slotVars => SlotsInv'
<1> SUFFICES ASSUME SlotsInv, [SlotsNext]_slotVars PROVE SlotsInv'
  OBVIOUS
<1>1. CASE UNCHANGED slotVars
  BY <1>1 DEF slotVars, SlotsInv, SlotsTypeOK, SlotConservation, LeaseIdentity, LaneExclusive
<1>2. ASSUME NEW row \in Rows, NEW generation \in Generations, NEW rid \in Rids,
             Acquire(row, generation, rid)
      PROVE  SlotsInv'
  BY <1>2, AcquireStep
<1>3. ASSUME NEW lease \in Leases, BeginHandoff(lease)
      PROVE  SlotsInv'
  BY <1>3, PhaseStep DEF BeginHandoff, Require, Phases
<1>4. ASSUME NEW lease \in Leases, NEW done \in BOOLEAN, FinishHandoff(lease, done)
      PROVE  SlotsInv'
  BY <1>4, FinishHandoffStep
<1>5. ASSUME NEW lease \in Leases, AdmitDecode(lease)
      PROVE  SlotsInv'
  <2>1. prefill_owner # lease
    BY <1>5, LeaseFields DEF AdmitDecode, Require, SlotsInv, LaneExclusive
  <2> QED
    BY <1>5, <2>1, PhaseStep DEF AdmitDecode, Require, Phases
<1>6. ASSUME NEW lease \in Leases, Drain(lease)
      PROVE  SlotsInv'
  BY <1>6, DrainStep
<1>7. ASSUME NEW lease \in Leases, NEW left \in {"failed", "releasing"},
             DrainRaises(lease, left)
      PROVE  SlotsInv'
  BY <1>7, PhaseStep DEF DrainRaises, Require, Phases
<1>8. ASSUME NEW lease \in Leases, MarkFailed(lease)
      PROVE  SlotsInv'
  BY <1>8, PhaseStep DEF MarkFailed, Require, Phases
<1>9. ASSUME NEW lease \in Leases, NEW group_open \in BOOLEAN,
             LogicalFlushed(lease, group_open)
      PROVE  SlotsInv'
  <2>1. prefill_owner # lease
    BY <1>9, LeaseFields DEF LogicalFlushed, Require, SlotsInv, LaneExclusive
  <2> QED
    BY <1>9, <2>1, PhaseStep DEF LogicalFlushed, Require, Phases
<1>10. ASSUME NEW lease \in Leases, CommitRelease(lease)
       PROVE  SlotsInv'
  BY <1>10, CommitReleaseStep
<1> QED
  BY <1>1, <1>2, <1>3, <1>4, <1>5, <1>6, <1>7, <1>8, <1>9, <1>10 DEF SlotsNext

\* The lease table keeps its four invariants together, whatever calls arrive.
THEOREM SlotsInvariant == SlotsSpec => []SlotsInv
BY InitInv, StepInv, PTL DEF SlotsSpec

\* The lease table keeps its types: every table entry is a lease of its kind
\* and no count of a free slot is negative.
THEOREM SlotsTypeCorrect == SlotsSpec => []SlotsTypeOK
<1>1. SlotsInv => SlotsTypeOK
  BY DEF SlotsInv
<1> QED
  BY InitInv, StepInv, <1>1, PTL DEF SlotsSpec

\* No slot is lost, and none is handed out twice.
THEOREM SlotsConserved == SlotsSpec => []SlotConservation
<1>1. SlotsInv => SlotConservation
  BY DEF SlotsInv
<1> QED
  BY InitInv, StepInv, <1>1, PTL DEF SlotsSpec

\* The staging lane has one owner, and only a lease before its drain owns it.
THEOREM LaneHasOneOwner == SlotsSpec => []LaneExclusive
<1>1. SlotsInv => LaneExclusive
  BY DEF SlotsInv
<1> QED
  BY InitInv, StepInv, <1>1, PTL DEF SlotsSpec

\* Every active lease sits in its own row under that row's last generation.
THEOREM LeasesIdentified == SlotsSpec => []LeaseIdentity
<1>1. SlotsInv => LeaseIdentity
  BY DEF SlotsInv
<1> QED
  BY InitInv, StepInv, <1>1, PTL DEF SlotsSpec

----------------------------------------------------------------------------
(* Physical addresses.                                                     *)

\* Rings of different slots are disjoint ranges behind the staging lane.
LEMMA RingRange ==
    \A s \in Slots : /\ s \in 0..7
                     /\ RingStart(s) \in Nat
                     /\ RingStart(s) >= PageSize + StagingTokens
                     /\ RingStart(s) + 4 <= RawPoolSize + PageSize - 1
BY GeometryAssumption DEF Slots, RingStart, RawPoolSize

\* The rings of two slots do not overlap.
LEMMA RingsApart ==
    \A s, t \in Slots : s # t => RingStart(s) + 4 < RingStart(t) \/ RingStart(t) + 4 < RingStart(s)
BY GeometryAssumption DEF Slots, RingStart

\* Active leases never share a raw row, with each other or with the lane.
THEOREM RingsDisjoint == SlotsSpec => []BackingDisjoint
<1>1. SlotsInv => BackingDisjoint
  <2> SUFFICES ASSUME SlotsInv, NEW q \in Rows, active[q] # NoLease
               PROVE  /\ RingSlice(active[q].slot) \cap StagingSlice(0, StagingTokens) = {}
                      /\ RingSlice(active[q].slot) \subseteq 0..(RawPoolSize + PageSize - 1)
                      /\ \A r \in Rows \ {q} : active[r] # NoLease =>
                           RingSlice(active[q].slot) \cap RingSlice(active[r].slot) = {}
                      /\ \A seq_len \in 1..StagingTokens :
                           RingWriteLocation(active[q].slot, seq_len)
                              \in RingSlice(active[q].slot) \ {RingStart(active[q].slot)}
    BY DEF BackingDisjoint
  <2>1. active[q].slot \in Slots
    BY LeaseFields DEF SlotsInv, SlotsTypeOK
  <2>2. RingSlice(active[q].slot) \cap StagingSlice(0, StagingTokens) = {}
    <3>1. /\ RingStart(active[q].slot) \in Nat
          /\ RingStart(active[q].slot) >= PageSize + StagingTokens
      BY <2>1, RingRange
    <3>2. PageSize \in Nat /\ StagingTokens \in Nat
      BY GeometryAssumption
    <3> QED
      BY <3>1, <3>2 DEF RingSlice, StagingSlice
  <2>3. RingSlice(active[q].slot) \subseteq 0..(RawPoolSize + PageSize - 1)
    BY <2>1, RingRange, GeometryAssumption DEF RingSlice, RawPoolSize
  <2>4. ASSUME NEW r \in Rows \ {q}, active[r] # NoLease
        PROVE  RingSlice(active[q].slot) \cap RingSlice(active[r].slot) = {}
    <3>1. active[r].slot \in Slots /\ active[r].slot # active[q].slot
      BY <2>4, LeaseFields DEF SlotsInv, SlotsTypeOK, SlotConservation
    <3> QED
      BY <2>1, <3>1, RingRange, RingsApart DEF RingSlice
  <2>5. ASSUME NEW seq_len \in 1..StagingTokens
        PROVE  RingWriteLocation(active[q].slot, seq_len)
                  \in RingSlice(active[q].slot) \ {RingStart(active[q].slot)}
    <3>1. (seq_len - 1) % 4 \in 0..3
      BY GeometryAssumption
    <3> QED
      BY <2>1, <3>1, RingRange DEF RingSlice, RingWriteLocation
  <2> QED
    BY <2>2, <2>3, <2>4, <2>5
<1> QED
  BY InitInv, StepInv, <1>1, PTL DEF SlotsSpec

----------------------------------------------------------------------------
(* Identities and custody.                                                 *)

\* No step but acquire activates a lease, and acquire's is a new one.
LEMMA ActiveGrowth ==
    ASSUME SlotsInv, [SlotsNext]_slotVars, NEW l \in Leases, l \notin Active, l \in Active'
    PROVE  l.generation > last_generation[l.req_pool_idx]
<1>1. PICK r \in Rows : active'[r] = l
  BY DEF Active
<1>2. ASSUME active' = active \/ \E q \in Rows : active' = [active EXCEPT ![q] = NoLease]
      PROVE  FALSE
  BY <1>1, <1>2, LeaseFields DEF Active, SlotsInv, SlotsTypeOK
<1>3. ASSUME NEW row \in Rows, NEW generation \in Generations, NEW rid \in Rids,
             Acquire(row, generation, rid)
      PROVE  l.generation > last_generation[l.req_pool_idx]
  <2>1. PICK slot \in Slots : active' = [active EXCEPT ![row] =
             [req_pool_idx |-> row, generation |-> generation, rid |-> rid, slot |-> slot]]
    BY <1>3 DEF Acquire
  <2>2. r = row
    BY <1>1, <2>1, LeaseFields DEF Active, SlotsInv, SlotsTypeOK
  <2>3. l.req_pool_idx = row /\ l.generation = generation
    BY <1>1, <2>1, <2>2 DEF SlotsInv, SlotsTypeOK
  <2> QED
    BY <1>3, <2>3 DEF Acquire
<1>4. ASSUME NEW lease \in Leases, CommitRelease(lease)
      PROVE  FALSE
  BY <1>2, <1>4, LeaseFields DEF CommitRelease
<1> QED
  BY <1>2, <1>3, <1>4 DEF SlotsNext, slotVars, BeginHandoff, FinishHandoff, AdmitDecode,
     Drain, DrainRaises, MarkFailed, LogicalFlushed

\* A retired lease stays retired: no stale callback addresses a later one.
THEOREM RetirementIsFinal == SlotsSpec => RetiredForever
<1>1. SlotsInv /\ [SlotsNext]_slotVars
         => [\A l \in Leases :
                (l.generation <= last_generation[l.req_pool_idx] /\ l \notin Active)
                   => l \notin Active']_slotVars
  <2> SUFFICES ASSUME SlotsInv, [SlotsNext]_slotVars, NEW l \in Leases,
                      l.generation <= last_generation[l.req_pool_idx],
                      l \notin Active, l \in Active'
               PROVE  FALSE
    OBVIOUS
  <2>1. l.generation > last_generation[l.req_pool_idx]
    BY ActiveGrowth
  <2>2. l.generation \in Nat /\ last_generation[l.req_pool_idx] \in Nat
    BY LeaseFields, IdentityAssumption DEF SlotsInv, SlotsTypeOK
  <2> QED
    BY <2>1, <2>2
<1> QED
  BY InitInv, StepInv, <1>1, PTL DEF SlotsSpec, RetiredForever

\* The holder of a slot, read from any set of leases no two of which share it.
LEMMA ChosenHolder ==
    ASSUME NEW A, NEW s, \A l, m \in A : l.slot = s /\ m.slot = s => l = m
    PROVE  /\ \A l \in A : l.slot = s => (CHOOSE m \in A : m.slot = s) = l
OBVIOUS

\* Two active leases of one slot are the same lease.
LEMMA UniqueSlots ==
    ASSUME SlotsInv
    PROVE  \A l, m \in Active : l.slot = m.slot => l = m
BY DEF Active, SlotsInv, SlotConservation

\* HolderOf reads the table backwards.
LEMMA HolderIs ==
    ASSUME SlotsInv, NEW s \in Slots
    PROVE  /\ \A l \in Active : l.slot = s => HolderOf(s) = l
           /\ (\A l \in Active : l.slot # s) => HolderOf(s) = NoLease
BY UniqueSlots, ChosenHolder DEF HolderOf

\* An active lease is found in its own row, of its own slot.
LEMMA ActiveFacts ==
    ASSUME SlotsInv, NEW l \in Active
    PROVE  /\ l \in Leases
           /\ active[l.req_pool_idx] = l
           /\ HolderOf(l.slot) = l
<1>1. l \in Leases /\ active[l.req_pool_idx] = l
  BY DEF Active, SlotsInv, SlotsTypeOK, LeaseIdentity
<1> QED
  BY <1>1, LeaseFields, HolderIs

\* The parts of the refinement mapping.
HeldBy == [s \in Slots |-> HolderOf(s)]
Spent == {l \in Leases : l.generation <= last_generation[l.req_pool_idx]}
Using == {l \in Active : phases[l.req_pool_idx] # "logical_flushed"}

\* A step that leaves the active leases alone is a use, or leaves the lane.
LEMMA UseStep ==
    ASSUME SlotsInv, UNCHANGED <<active, last_generation>>,
           prefill_owner' \in {prefill_owner, NoLease}
    PROVE  Custody!Use \/ Custody!LeaveLane
<1>1. Active' = Active /\ HeldBy' = HeldBy /\ Spent' = Spent
  BY DEF Active, HeldBy, HolderOf, Spent
<1>2. Using' \subseteq {HeldBy[s] : s \in Slots} \ {NoLease}
  <2> SUFFICES ASSUME NEW l \in Active PROVE l \in {HeldBy[s] : s \in Slots} \ {NoLease}
    BY <1>1 DEF Using
  <2>1. l.slot \in Slots /\ l # NoLease
    BY ActiveFacts, LeaseFields
  <2> QED
    BY <2>1, ActiveFacts DEF HeldBy
<1> QED
  BY <1>1, <1>2 DEF Custody!Use, Custody!LeaveLane, Custody!Held, HeldBy, Spent, Using

\* acquire is the abstract Take: the slot and the lane go to a fresh holder.
LEMMA TakeStep ==
    ASSUME SlotsInv, SlotsInv',
           NEW row \in Rows, NEW generation \in Generations, NEW rid \in Rids,
           Acquire(row, generation, rid)
    PROVE  \E s \in Slots, l \in Leases : Custody!Take(s, l)
<1>1. PICK slot \in Slots :
         /\ FirstFree(slot)
         /\ active' = [active EXCEPT ![row] =
              [req_pool_idx |-> row, generation |-> generation, rid |-> rid, slot |-> slot]]
         /\ prefill_owner' =
              [req_pool_idx |-> row, generation |-> generation, rid |-> rid, slot |-> slot]
  BY DEF Acquire
<1> DEFINE lease ==
      [req_pool_idx |-> row, generation |-> generation, rid |-> rid, slot |-> slot]
<1>2. /\ lease \in Leases
      /\ lease.req_pool_idx = row
      /\ lease.generation = generation
      /\ lease.slot = slot
      /\ lease # NoLease
  BY LeaseFields DEF Leases
<1>3. /\ active[row] = NoLease
      /\ prefill_owner = NoLease
      /\ generation > last_generation[row]
      /\ active' = [active EXCEPT ![row] = lease]
      /\ prefill_owner' = lease
      /\ last_generation' = [last_generation EXCEPT ![row] = generation]
      /\ phases' = [phases EXCEPT ![row] = "prefill"]
  BY <1>1 DEF Acquire
<1> HIDE DEF lease
<1>4. Active' = Active \cup {lease}
  BY <1>2, <1>3 DEF Active, SlotsInv, SlotsTypeOK
<1>5. \A l \in Active : l.slot # slot /\ l.req_pool_idx # row
  BY <1>1, <1>3, ActiveFacts, LeaseFields
     DEF FirstFree, SlotsInv, SlotConservation, Active
<1>6. HeldBy[slot] = NoLease
  BY <1>5, HolderIs DEF HeldBy
<1>7. HeldBy' = [HeldBy EXCEPT ![slot] = lease]
  <2>1. \A l, m \in Active' : l.slot = m.slot => l = m
    BY <1>2, <1>4, <1>5, UniqueSlots
  <2>2. HolderOf(slot)' = lease
    BY <2>1, <1>2, <1>4, ChosenHolder DEF HolderOf
  <2>3. ASSUME NEW t \in Slots, t # slot
        PROVE  HolderOf(t)' = HolderOf(t)
    <3>1. CASE \E l \in Active : l.slot = t
      <4>1. PICK l \in Active : l.slot = t
        BY <3>1
      <4>2. (CHOOSE m \in Active' : m.slot = t) = l
        BY <2>1, <4>1, <1>4, ChosenHolder
      <4> QED
        BY <4>1, <4>2, <1>4, HolderIs DEF HolderOf
    <3>2. CASE ~\E l \in Active : l.slot = t
      BY <3>2, <2>3, <1>2, <1>4 DEF HolderOf
    <3> QED
      BY <3>1, <3>2
  <2> QED
    BY <2>2, <2>3 DEF HeldBy
<1>8. lease \in Leases \ Spent /\ Spent \cup {lease} \subseteq Spent'
  <2>1. generation \in Nat /\ \A r \in Rows : last_generation[r] \in Nat
    BY IdentityAssumption DEF SlotsInv, SlotsTypeOK
  <2>2. lease \notin Spent
    BY <1>2, <1>3, <2>1 DEF Spent
  <2>3. \A l \in Leases : l.generation \in Nat /\ l.req_pool_idx \in Rows
    BY LeaseFields, IdentityAssumption
  <2>4. \A r \in Rows : last_generation[r] <= last_generation'[r]
    BY <1>3, <2>1 DEF SlotsInv, SlotsTypeOK
  <2>5. \A r \in Rows : last_generation'[r] \in Nat
    BY <2>1, <1>3 DEF SlotsInv, SlotsTypeOK
  <2>6. last_generation'[row] = generation
    BY <1>3 DEF SlotsInv, SlotsTypeOK
  <2>7. ASSUME NEW l \in Spent PROVE l \in Spent'
    BY <2>1, <2>3, <2>4, <2>5 DEF Spent
  <2> QED
    BY <1>2, <2>1, <2>2, <2>6, <2>7 DEF Spent
<1>9. Using' = Using \cup {lease}
  BY <1>2, <1>3, <1>4, <1>5, ActiveFacts, LeaseFields DEF Using, SlotsInv, SlotsTypeOK
<1> QED
  BY <1>2, <1>3, <1>6, <1>7, <1>8, <1>9 DEF Custody!Take, HeldBy, Spent, Using

\* commit_release is the abstract give-back of one slot by its flushed holder.
LEMMA GiveBackStep ==
    ASSUME SlotsInv, NEW lease \in Leases, CommitRelease(lease)
    PROVE  Custody!GiveBack({lease.slot})
<1> DEFINE row == lease.req_pool_idx
<1>1. /\ row \in Rows
      /\ lease.slot \in Slots
      /\ lease # NoLease
  BY LeaseFields
<1>2. /\ active[row] = lease
      /\ phases[row] = "logical_flushed"
      /\ active' = [active EXCEPT ![row] = NoLease]
      /\ phases' = [phases EXCEPT ![row] = "none"]
      /\ UNCHANGED <<last_generation, prefill_owner>>
  BY DEF CommitRelease, Require
<1>3. lease \in Active
  BY <1>1, <1>2 DEF Active
<1>4. Active' = Active \ {lease}
  <2>1. \A r \in Rows \ {row} : active[r] # lease
    BY <1>1 DEF SlotsInv, LeaseIdentity
  <2>2. active'[row] = NoLease /\ \A r \in Rows \ {row} : active'[r] = active[r]
    <3>1. DOMAIN active = Rows
      BY DEF SlotsInv, SlotsTypeOK
    <3> HIDE DEF row
    <3> QED
      BY <1>1, <1>2, <3>1
  <2>3. ASSUME NEW l \in Active' PROVE l \in Active \ {lease}
    <3>1. PICK r \in Rows : l = active'[r] /\ l # NoLease
      BY <2>3 DEF Active
    <3>2. r # row /\ l = active[r]
      BY <2>2, <3>1
    <3> QED
      BY <2>1, <3>1, <3>2 DEF Active
  <2>4. ASSUME NEW l \in Active, l # lease PROVE l \in Active'
    <3>1. PICK r \in Rows : l = active[r] /\ l # NoLease
      BY <2>4 DEF Active
    <3>2. r # row /\ l = active'[r]
      BY <1>2, <2>2, <2>4, <3>1
    <3> QED
      BY <3>1, <3>2 DEF Active
  <2> QED
    BY <2>3, <2>4
<1>5. \A l \in Active \ {lease} : l.slot # lease.slot /\ l.req_pool_idx # row
  BY <1>2, <1>3, UniqueSlots, ActiveFacts
<1>6. HeldBy[lease.slot] = lease
  BY <1>1, <1>3, ActiveFacts DEF HeldBy
<1>7. HeldBy' = [s \in Slots |-> IF s \in {lease.slot} THEN NoLease ELSE HeldBy[s]]
  <2>1. HolderOf(lease.slot)' = NoLease
    BY <1>4, <1>5 DEF HolderOf
  <2>2. ASSUME NEW t \in Slots, t # lease.slot
        PROVE  HolderOf(t)' = HolderOf(t)
    <3>1. CASE \E l \in Active : l.slot = t
      <4>1. PICK l \in Active : l.slot = t
        BY <3>1
      <4>2. l \in Active' /\ \A k, m \in Active' : k.slot = m.slot => k = m
        BY <4>1, <2>2, <1>4, UniqueSlots
      <4>3. (CHOOSE m \in Active' : m.slot = t) = l
        BY <4>1, <4>2, ChosenHolder
      <4> QED
        BY <4>1, <4>2, <4>3, HolderIs DEF HolderOf
    <3>2. CASE ~\E l \in Active : l.slot = t
      BY <3>2, <1>4 DEF HolderOf
    <3> QED
      BY <3>1, <3>2
  <2> QED
    BY <2>1, <2>2 DEF HeldBy
<1>8. lease # prefill_owner /\ lease \notin Using
  BY <1>1, <1>2 DEF Using, SlotsInv, LaneExclusive
<1>9. Using' = Using
  BY <1>1, <1>2, <1>4, <1>5, <1>8, ActiveFacts, LeaseFields DEF Using, SlotsInv, SlotsTypeOK
<1>10. Spent' = Spent
  BY <1>2 DEF Spent
<1> QED
  BY <1>1, <1>2, <1>6, <1>7, <1>8, <1>9, <1>10 DEF Custody!GiveBack, HeldBy, Spent, Using

\* The lease table implements the custody of the backing: a slot and the lane
\* go to a fresh lease together, and a slot comes back only when the release
\* has declared its lease flushed.
THEOREM SlotsImplementCustody == SlotsSpec => ImplementsCustody
<1>1. SlotsInit => Custody!Init
  <2> SUFFICES ASSUME SlotsInit PROVE Custody!Init
    OBVIOUS
  <2>1. Active = {}
    BY DEF SlotsInit, Active
  <2>2. \A s \in Slots : HolderOf(s) = NoLease
    BY <2>1 DEF HolderOf
  <2>3. \A l \in Leases : ~(l.generation <= last_generation[l.req_pool_idx])
    <3> SUFFICES ASSUME NEW l \in Leases
                 PROVE  ~(l.generation <= last_generation[l.req_pool_idx])
      OBVIOUS
    <3>1. l.req_pool_idx \in Rows /\ l.generation \in Nat /\ l.generation # 0
      BY LeaseFields, IdentityAssumption
    <3>2. last_generation[l.req_pool_idx] = 0
      BY <3>1 DEF SlotsInit
    <3> QED
      BY <3>1, <3>2
  <2> QED
    BY <2>1, <2>2, <2>3 DEF Custody!Init, SlotsInit
<1>2. SlotsInv /\ SlotsInv' /\ [SlotsNext]_slotVars => [Custody!Next]_(Custody!vars)
  <2> SUFFICES ASSUME SlotsInv, SlotsInv', [SlotsNext]_slotVars
               PROVE  [Custody!Next]_(Custody!vars)
    OBVIOUS
  <2>1. CASE UNCHANGED slotVars
    BY <2>1 DEF slotVars, Custody!vars, HolderOf, Active
  <2>2. ASSUME NEW row \in Rows, NEW generation \in Generations, NEW rid \in Rids,
               Acquire(row, generation, rid)
        PROVE  Custody!Next
    BY <2>2, TakeStep DEF Custody!Next
  <2>3. ASSUME UNCHANGED <<active, last_generation>>,
               prefill_owner' \in {prefill_owner, NoLease}
        PROVE  Custody!Next
    BY <2>3, UseStep DEF Custody!Next
  <2>4. ASSUME NEW lease \in Leases, CommitRelease(lease)
        PROVE  Custody!Next
    BY <2>4, GiveBackStep, LeaseFields DEF Custody!Next
  <2> QED
    BY <2>1, <2>2, <2>3, <2>4 DEF SlotsNext, BeginHandoff, FinishHandoff, AdmitDecode,
       Drain, DrainRaises, MarkFailed, LogicalFlushed
<1> QED
  BY InitInv, StepInv, <1>1, <1>2, PTL DEF SlotsSpec, ImplementsCustody, Custody!Spec

=============================================================================

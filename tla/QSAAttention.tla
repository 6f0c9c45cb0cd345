---------------------------- MODULE QSAAttention ----------------------------
(***************************************************************************)
(* The attention layer of the target model (model_compat/qsa_attention.py  *)
(* and the kernels it launches): where the K/V of a forward are stored and *)
(* in what scale, what the owner of the requests does with them, and which *)
(* rows each read path takes its tokens from.                              *)
(*                                                                         *)
(* One layer and one request at a time. A selection takes all tokens the   *)
(* request has (a context no longer than the top-k); which ones a longer   *)
(* one takes, and by which kernel, is the indexer's business. FP8 K/V of a *)
(* layer whose checkpoint has a scale are stored divided by it and must be *)
(* multiplied by it once. Forwards under context parallelism, and those    *)
(* whose caller has stored the K/V itself (save_kv_cache is false), are    *)
(* left out.                                                               *)
(***************************************************************************)
EXTENDS QSAConfig

CONSTANTS
    Machines,       \* [device, trtllm, fused, ragged]: what the machine offers
    LayerKinds,     \* [fp8, scale]: the pool's type and the layer's scale
    MaxAttended,    \* how many tokens a request grows to
    MaxServed       \* how many requests are explored

ASSUME AttentionAssumption == {MaxAttended, MaxServed} \subseteq Nat

VARIABLES
    backend,        \* QwenSparseAttnBackend, as its constructor hooks leave it
    ragged,         \* the FA2 graph wrapper: "none", "planned" or "unavailable"
    serial,         \* which request this is
    length,         \* how many of its tokens are stored
    moved,          \* qsa_hisparse.offloaded
    kv,             \* location -> the row stored there last
    host,           \* position -> the row its slab has there
    call,           \* the forward that runs
    attended        \* what the attention read: positions, rows and factors

attentionVars == <<backend, ragged, serial, length, moved, kv, host, call, attended>>

NoBackend == [device |-> "none"]
NoCall == [kind |-> "none", step |-> "none"]

AttentionInit ==
    /\ backend = NoBackend /\ ragged = "none"
    /\ serial = 0 /\ length = 0 /\ moved = FALSE
    /\ kv = <<>> /\ host = <<>> /\ call = NoCall /\ attended = {}

Compat == stage = "serving" /\ activated.compat /\ scope # "unknown"
Owned == owner.kind # "none"
Offloading == owner.mode \in {"p2-offload", "offload"}

\* _fused_kv_eligible keeps the fused kernel off under an owner.
FusedEligible(m) == m.fused /\ ~Owned

\* Q02 decides the scope once per backend. An owner's validation admits FP8 on
\* CUDA alone.
BuildBackend ==
    /\ Compat /\ backend = NoBackend /\ (activated.mode = "none" \/ cache # "none")
    /\ \E m \in Machines, l \in LayerKinds :
          /\ Owned => m.device = "cuda" /\ l.fp8
          /\ backend' = [device |-> m.device, trtllm |-> m.trtllm, ragged |-> m.ragged,
                         fused |-> FusedEligible(m), target |-> scope = "target",
                         fp8 |-> l.fp8, scale |-> l.scale]
    /\ UNCHANGED <<ragged, serial, length, moved, kv, host, call, attended>>

\* _plan_fa2_graph_wrapper: a size is planned, or unavailable from then on.
PlanRagged ==
    /\ backend # NoBackend /\ call = NoCall /\ owner.graph /\ backend.ragged
    /\ ragged = "none" /\ ragged' \in {"planned", "unavailable"}
    /\ UNCHANGED <<backend, serial, length, moved, kv, host, call, attended>>

----------------------------------------------------------------------------
(* A forward begins: the owner's begin_batch, then the indexer.            *)

\* _kv_descales: unit unless the pool is FP8 and the scale a positive one.
Descaled == backend.fp8 /\ backend.scale = "other"

\* A chunk of a prompt; a verification of drafts needs a process without owner.
BeginExtend(kind, n) ==
    /\ backend # NoBackend /\ call = NoCall /\ ~moved /\ length + n <= MaxAttended
    /\ kind = "verify" => ~Owned /\ length > 0
    /\ serial > 0
    /\ call' = [kind |-> kind, first |-> length, last |-> length + n - 1, step |-> "begun",
                graph |-> FALSE, live |-> FALSE]
    /\ UNCHANGED <<backend, ragged, serial, length, moved, kv, host, attended>>

\* What a location holds, if anything was stored there.
Missing == [position |-> -1, of |-> 0, divided |-> FALSE]
At(store, x) == IF x \in DOMAIN store THEN store[x] ELSE Missing

Ring(p) == <<"ring", p % 4>>
Written(S, rows) == [x \in S \cup DOMAIN kv |-> IF x \in S THEN rows[x] ELSE kv[x]]
Home(p) == IF owner.mode = "p2-offload" THEN <<"staging", p>> ELSE <<"logical", p>>
FullBlocks == {p \in 0..(length - 1) : p \div 4 < length \div 4}

\* A token; an offloading owner has moved the request to the host before.
DecodeToken ==
    /\ backend # NoBackend /\ call = NoCall /\ length > 0 /\ length < MaxAttended
    /\ \E graph \in BOOLEAN :
          /\ Owned => graph = owner.graph
          /\ graph => backend.device = "cuda"
          /\ call' = [kind |-> "decode", first |-> length, last |-> length, step |-> "begun",
                      graph |-> graph, live |-> FALSE]
    /\ IF Offloading /\ ~moved
         THEN LET tail == {p \in 0..(length - 1) : p \notin FullBlocks}
              IN  /\ host' = [p \in FullBlocks \cup DOMAIN host |->
                                 IF p \in FullBlocks THEN At(kv, Home(p)) ELSE host[p]]
                  /\ kv' = Written({Ring(p) : p \in tail},
                              [x \in {Ring(p) : p \in tail} |->
                                  At(kv, Home(CHOOSE p \in tail : Ring(p) = x))])
                  /\ moved' = TRUE
         ELSE UNCHANGED <<host, kv, moved>>
    /\ UNCHANGED <<backend, ragged, serial, length, attended>>

----------------------------------------------------------------------------
(* Storing the K/V of the forward.                                         *)

Storable == call.step = "begun"

Span == call.first..call.last
Row(p, divided) == [position |-> p, of |-> serial, divided |-> divided]

\* Mutant: an FP8 layer with a scale takes the fused kernel too.
FusableAnyScale ==
    backend.fused /\ backend.device = "cuda" /\ call.kind \in {"decode", "verify"}

\* _try_fused_kv_attention, which Q13 keeps from layers with a scale.
Fusable ==
    /\ backend.fused /\ backend.device = "cuda" /\ call.kind \in {"decode", "verify"}
    /\ backend.target => ~Descaled

\* One kernel stores the rows as they are and reads the selection as it is.
Fused ==
    /\ Storable /\ Fusable
    /\ LET S == {<<"logical", p>> : p \in Span}
       IN  kv' = Written(S, [x \in S |-> Row(x[2], FALSE)])
    /\ call' = [call EXCEPT !.step = "attended"]
    /\ attended' = {[at |-> p, row |-> At(kv', <<"logical", p>>), factor |-> FALSE] :
                       p \in 0..call.last}
    /\ UNCHANGED <<backend, ragged, serial, length, moved, host>>

\* Mutant: the owner's locations are used for prompts only.
LocationPrompt(p) ==
    IF owner.mode = "p2-offload" /\ call.kind = "extend" THEN <<"staging", p>>
    ELSE <<"logical", p>>

\* write_locations of the owner, or the scheduler's own.
Location(p) ==
    IF moved THEN Ring(p)
    ELSE IF owner.mode = "p2-offload" THEN <<"staging", p>> ELSE <<"logical", p>>

\* Mutant: the pool divides the live K/V in place.
StoredLive(divides) == divides

\* _store_kv hands the pool a copy where it divides.
StoredCopy(divides) == FALSE

\* _store_kv: divided by the layer's scale in the target model.
StoreRows ==
    /\ Storable
    /\ LET divides == backend.target /\ Descaled
           S == {Location(p) : p \in Span}
       IN  /\ kv' = Written(S, [x \in S |->
                       Row(CHOOSE p \in Span : Location(p) = x, divides)])
           /\ call' = [call EXCEPT !.step = "stored", !.live = StoredCopy(divides)]
    /\ UNCHANGED <<backend, ragged, serial, length, moved, host, attended>>

\* Mutant: the newest block reaches the host only after the attention.
ClosesLate == FALSE

\* after_store: the owner closes a block that is full.
Closes == moved /\ (call.last + 1) % 4 = 0

AfterStore ==
    /\ call.step = "stored" /\ call.kind = "decode" /\ Owned
    /\ LET block == (call.last - 3)..call.last
       IN  host' = IF Closes
                     THEN [p \in block \cup DOMAIN host |->
                              IF p \in block THEN At(kv, Ring(p)) ELSE host[p]]
                     ELSE host
    /\ call' = [call EXCEPT !.step = "noted"]
    /\ UNCHANGED <<backend, ragged, serial, length, moved, kv, attended>>

----------------------------------------------------------------------------
(* Reading.                                                                *)

Readable ==
    \/ call.step = "stored" /\ ~(call.kind = "decode" /\ Owned)
    \/ call.step = "noted"

Table(p) == At(kv, <<"logical", p>>)

\* selected: full blocks from the host, the rest from the ring.
Compact(p) == IF p \div 4 < (call.last + 1) \div 4 THEN At(host, p) ELSE At(kv, Ring(p))

\* Mutant: the paged kernel of FlashInfer is used under an owner too.
PagedAnyOwner == backend.trtllm /\ call.kind # "extend"

\* _resolve_trtllm_sparse_decode, off under an owner: that path takes its rows
\* by the request table, whatever buffers were selected.
Paged == backend.trtllm /\ call.kind # "extend" /\ ~Owned

\* Mutant: a prompt with a prefix is packed in the query's type, unscaled.
FactorDecode == backend.target /\ Descaled /\ call.kind # "extend"

\* _kv_descale_kwargs: what a read of the cache multiplies by.
Factor == backend.target /\ Descaled

Read(p, row, factor) == [at |-> p, row |-> row, factor |-> factor]

\* A prompt without prefix: the K/V it just made, and no scale.
FromPrompt(p) == Read(p, Row(p, call.live), FALSE)

\* A chunk with a prefix: the cache, packed through prefill_slots.
FromPacked(p) == Read(p, At(kv, Home(p)), Factor)

\* Without CUDA: the slots of the request table.
FromReference(p) == Read(p, Table(p), Factor)

\* FlashInfer's paged kernel: the request table, scaled as it is gathered.
FromTable(p) == Read(p, Table(p), Factor)

\* What selected gathered of a request that moved, else the table.
FromSelected(p) == Read(p, IF moved THEN Compact(p) ELSE Table(p), Factor)

\* forward_extend and _forward_paged_attention.
Reads(p) ==
    IF backend.device # "cuda" THEN FromReference(p)
    ELSE IF call.kind # "extend" THEN (IF Paged THEN FromTable(p) ELSE FromSelected(p))
    ELSE IF call.first = 0 THEN FromPrompt(p) ELSE FromPacked(p)

\* _can_run_fa2_graph: the planned wrapper, else flash attention; the same rows.
RunsRagged ==
    ragged = "planned" /\ owner.mode = "p2-offload" /\ owner.graph /\ moved /\ call.graph

Attend ==
    /\ Readable
    /\ attended' = {Reads(p) : p \in 0..call.last}
    /\ call' = [call EXCEPT !.step = IF RunsRagged THEN "ragged" ELSE "attended"]
    /\ UNCHANGED <<backend, ragged, serial, length, moved, kv, host>>

EndCall ==
    /\ call.step \in {"attended", "ragged"}
    /\ length' = call.last + 1 /\ call' = NoCall /\ attended' = {}
    /\ UNCHANGED <<backend, ragged, serial, moved, kv, host>>

\* The scheduler's next request (external): what is stored stays behind.
NextServed ==
    /\ backend # NoBackend /\ call = NoCall /\ serial < MaxServed
    /\ serial = 0 \/ length > 0
    /\ serial' = serial + 1 /\ length' = 0 /\ moved' = FALSE
    /\ UNCHANGED <<backend, ragged, kv, host, call, attended>>

AttentionNext ==
    \/ BuildBackend \/ PlanRagged \/ NextServed
    \/ \E n \in 1..3 : BeginExtend("extend", n)
    \/ \E n \in 1..2 : BeginExtend("verify", n)
    \/ DecodeToken
    \/ Fused \/ StoreRows \/ AfterStore \/ Attend \/ EndCall

----------------------------------------------------------------------------
(* Property.                                                               *)

\* Whatever path a layer takes, its attention reads for each token of the
\* request a row that this very request stored for that position, multiplied by
\* the layer's scale exactly if the row was divided by it.
AttentionExact ==
    \A a \in attended :
       a.row.position = a.at /\ a.row.of = serial /\ a.row.divided = a.factor
=============================================================================

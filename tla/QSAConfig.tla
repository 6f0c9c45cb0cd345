----------------------------- MODULE QSAConfig -----------------------------
(***************************************************************************)
(* From an activated plugin to an owner of requests: the memory pools are  *)
(* priced and built (patches/hisparse/pools.py), the attention backend     *)
(* attaches the owner its mode names (qsa_backend.py, the constructors of  *)
(* runtime.py and single_request.py, config.py), and the prefix cache is   *)
(* built over it (lifecycle.py). Each step reads the mode, the arguments   *)
(* and the budget for itself and must agree with the others.               *)
(***************************************************************************)
EXTENDS QSAActivation

CONSTANTS
    Context,        \* context_length, 262144
    Page,           \* page_size, 64
    RawCell,        \* bytes of one token's raw K and V on all layers
    QsaCell,        \* bytes of one token's compressed keys
    RingBytes,      \* bytes of one request's rings
    ArgumentSpace   \* the server arguments tried

ASSUME ConfigAssumption ==
    /\ {Context, Page, RawCell, QsaCell, RingBytes} \subseteq Nat \ {0}
    /\ Context % Page = 0
    /\ \A a \in ArgumentSpace :
          {a.requests, a.total, a.budget} \subseteq Nat /\ a.memory \in Int

VARIABLES
    arguments,      \* the server arguments and the memory they leave
    pools,          \* [step, bias, cell, raw, size]
    owner,          \* the runtime attached: its kind, mode and what it was given
    cache           \* the prefix cache built: "none", "private" or "upstream"

configVars == <<arguments, pools, owner, cache>>

NoArguments == [requests |-> 0]
NoOwner == [kind |-> "none", mode |-> "none", requests |-> 0, graph |-> FALSE, prefix |-> FALSE]

ConfigInit ==
    /\ arguments = NoArguments
    /\ pools = [step |-> "none", bias |-> 0, cell |-> 0, raw |-> 0, size |-> 0]
    /\ owner = NoOwner
    /\ cache = "none"

Mode == environment.mode
Starting == stage = "serving" /\ activated.mode # "none"
OnlyStops == Stop /\ UNCHANGED <<environment, package, hooks, live, patched, activated,
                                 frozen, record, scope, asked, meddled, rebound>>

\* QSAHiSparseSlots.raw_pool_size.
RawSize(requests) == Context + 5 * requests

Counts == {2, 4, 8}
Bounded(a) == a.requests \in Counts /\ a.total = a.requests * Context

----------------------------------------------------------------------------
(* The pools.                                                              *)

\* Mutant: the raw staging is priced without the rows of the rings.
BiasStagingOnly(a) == RawCell * (Context + Page) + QsaCell * Page + a.requests * RingBytes

\* What p2-offload reserves: raw staging, padding and rings.
Bias(a) == RawCell * (RawSize(a.requests) + Page) + QsaCell * Page + a.requests * RingBytes

\* C01: the pool configurator prices a token.
PricePools ==
    /\ Starting /\ pools.step = "none"
    /\ \E a \in ArgumentSpace :
          /\ arguments' = a
          /\ IF Mode = "p2-offload" /\ ~Bounded(a)
               THEN UNCHANGED pools /\ OnlyStops
               ELSE /\ pools' = [pools EXCEPT !.step = "priced",
                          !.bias = IF Mode = "p2-offload" THEN Bias(a) ELSE 0,
                          !.cell = IF Mode = "p2-offload" THEN QsaCell
                                   ELSE RawCell + QsaCell]
                    /\ UNCHANGED activationVars
    /\ UNCHANGED <<owner, cache>>

\* C02 and the configurator: whole pages of what is left, at most what the
\* arguments ask for.
LogicalSize ==
    LET left == arguments.memory - pools.bias
        fits == IF left < 0 THEN 0 ELSE left \div pools.cell
        whole == (fits \div Page) * Page
    IN  IF whole < arguments.total THEN whole ELSE arguments.total

\* K01, K02, K03: the pool, with a raw staging pool of its own in p2-offload.
BuildPools ==
    /\ Starting /\ pools.step = "priced"
    /\ IF Mode = "p2-offload" /\ LogicalSize # arguments.requests * Context
         THEN UNCHANGED pools /\ OnlyStops
         ELSE /\ pools' = [pools EXCEPT !.step = "built", !.size = LogicalSize,
                    !.raw = IF Mode = "p2-offload" THEN RawSize(arguments.requests)
                            ELSE LogicalSize]
              /\ UNCHANGED activationVars
    /\ UNCHANGED <<arguments, owner, cache>>

----------------------------------------------------------------------------
(* The owner and its cache.                                                *)

P2 == Mode \in {"p2-offload", "p2-resident"}
WantsGraph == Mode = "p2-offload" /\ arguments.graph

\* validate_configuration.
Validated ==
    /\ arguments.budget > 0 => P2
    /\ P2 => arguments.requests \in Counts
    /\ LET requests == IF P2 THEN arguments.requests ELSE 1
       IN  /\ arguments.requests = requests
           /\ arguments.total = requests * Context
           /\ pools.size = requests * Context
    /\ arguments.graph = WantsGraph
    /\ arguments.bounded

\* Mutant: the multi-request runtime takes a budget in either mode.
PrefixAllowedP2 == arguments.budget > 0 => P2

\* The runtime keeps host prefixes only when it offloads.
PrefixAllowed == arguments.budget > 0 => Mode = "p2-offload"

RawFits == pools.raw = IF Mode = "p2-offload" THEN RawSize(arguments.requests) ELSE pools.size

\* Q03: the mode names the owner; another model stops the process.
AttachOwner ==
    /\ Starting /\ pools.step = "built" /\ owner = NoOwner /\ Mode # "none"
    /\ scope # "unknown"
    /\ IF scope = "target" /\ Validated /\ RawFits /\ (P2 => PrefixAllowed)
         THEN /\ owner' = [kind |-> IF P2 THEN "leases" ELSE "single", mode |-> Mode,
                           requests |-> arguments.requests, graph |-> WantsGraph,
                           prefix |-> P2 /\ Mode = "p2-offload" /\ arguments.budget > 0]
              /\ UNCHANGED activationVars
         ELSE UNCHANGED owner /\ OnlyStops
    /\ UNCHANGED <<arguments, pools, cache>>

\* qsa_private_host_prefix_active.
PrivatePrefix == P2 /\ arguments.budget > 0

\* M05: the private cache where it is active, else what the pin builds.
BuildCache ==
    /\ Starting /\ owner # NoOwner /\ cache = "none"
    /\ IF PrivatePrefix /\ arguments.hierarchical
         THEN UNCHANGED cache /\ OnlyStops
         ELSE /\ cache' = IF PrivatePrefix THEN "private" ELSE "upstream"
              /\ UNCHANGED activationVars
    /\ UNCHANGED <<arguments, pools, owner>>

ConfigNext == PricePools \/ BuildPools \/ AttachOwner \/ BuildCache

----------------------------------------------------------------------------
(* Property.                                                               *)

\* What three places price, build and check apart is one thing: the pools of
\* an offloading process fit in the memory that was free; the raw pool holds
\* one staging and the rings of as many leases as the owner admits; and the
\* private prefix cache is built exactly over an owner that keeps prefixes.
StartAgrees ==
    /\ pools.step = "built" /\ Mode = "p2-offload" =>
          RawCell * (pools.raw + Page) + QsaCell * (pools.size + Page)
              + arguments.requests * RingBytes <= arguments.memory
    /\ owner.kind # "none" =>
          /\ pools.size = owner.requests * Context
          /\ Mode = "p2-offload" => pools.raw = Context + 5 * owner.requests
    /\ cache # "none" => ((cache = "private") <=> owner.prefix)
=============================================================================

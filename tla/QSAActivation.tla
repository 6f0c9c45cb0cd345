--------------------------- MODULE QSAActivation ---------------------------
(***************************************************************************)
(* Plugin activation in one scheduler process: plugin.py, features.py,     *)
(* patching.py, fingerprint.py, patches/framework.py and scope.py.         *)
(*                                                                         *)
(* The plugin registers hooks and attaches members to names of SGLang that *)
(* other plugins may hook or rebind too, before it loads and after. It     *)
(* must end fully applied, and verified, or stop the process: its errors   *)
(* derive from BaseException because SGLang's loader swallows the rest.    *)
(*                                                                         *)
(* A name stands for a dotted path. live[n] is the object it resolves to,  *)
(* as the chain of those who bound it: <<>> when absent. A hook is known   *)
(* by who wrote it and by the source it is registered under.               *)
(***************************************************************************)
EXTENDS Integers, Sequences, FiniteSets, SequencesExt

CONSTANTS
    Names,          \* the dotted paths the model tells apart
    Inside,         \* pairs: the first path lies below the second
    Upstream,       \* the names SGLang itself defines
    Properties,     \* those of them that are properties
    Configure,      \* configure_scheduler_process, which FW1 hooks
    Packages,       \* what the plugin may declare, with its manifest and pins
    Environments,   \* values of the two feature switches
    MaxForeign      \* how many hooks or bindings others make

ASSUME ActivationAssumption ==
    /\ Inside \subseteq Names \X Names
    /\ Configure \in Upstream /\ Upstream \subseteq Names /\ Properties \subseteq Upstream
    /\ MaxForeign \in Nat
    /\ \A p \in Packages :
          /\ IsFiniteSet(DOMAIN p.hooks)
          /\ \A d \in ToSet(p.hooks) \cup ToSet(p.attached) : d.target \in Names

VARIABLES
    environment,    \* the switches as the process sees them now
    package,        \* the declarations, the manifest, and the names whose
                    \* module differs from the fingerprints
    hooks,          \* HookRegistry._hooks
    live,           \* name -> the chain of its bindings
    patched,        \* HookRegistry._patched
    activated,      \* _activated
    frozen,         \* _frozen_hooks, and _applied with _frozen_depends
    stage,
    record,         \* the activation record file
    scope,          \* target_model_active's cache
    asked,          \* history: the features every load was asked for
    meddled,        \* history: the names others registered a hook on
    rebound         \* history: the names others bound since activation

activationVars == <<environment, package, hooks, live, patched, activated, frozen,
                    stage, record, scope, asked, meddled, rebound>>

----------------------------------------------------------------------------
(* Features and declarations.                                              *)

Modes == {"p2-offload", "p2-resident", "offload", "resident"}
Inactive == [compat |-> FALSE, mode |-> "none"]

\* read_features accepts 0 or 1, a known mode, and a mode only with compat.
Malformed(e) ==
    \/ e.compat \notin {"", "0", "1"}
    \/ e.mode \notin Modes \cup {"none"}
    \/ e.mode # "none" /\ e.compat # "1"

ReadFeatures(e) == [compat |-> e.compat = "1", mode |-> e.mode]

ActiveFeatures(f) ==
    (IF f.compat THEN {"model_compat"} ELSE {}) \cup
    (IF f.mode # "none" THEN {"hisparse"} ELSE {})

Wanted(f) == ActiveFeatures(f) \cup {"framework"}

\* Which of the declared hooks and members are wanted, by their place.
Specs(f) == {i \in DOMAIN package.hooks : package.hooks[i].of \in Wanted(f)}
Attaches(f) == {i \in DOMAIN package.attached : package.attached[i].of \in Wanted(f)}

Declared(i) == package.hooks[i]
Member(i) == package.attached[i]

Targets(f) == {Declared(i).target : i \in Specs(f)}
AttachedNames(f) == {Member(i).target : i \in Attaches(f)}
Depends(f) == {d.target : d \in {d \in package.depends : d.of \in Wanted(f)}} \ Targets(f)
Protected(f) == Targets(f) \cup AttachedNames(f) \cup Depends(f)

\* _overlaps.
Overlaps(a, b) == a = b \/ <<a, b>> \in Inside \/ <<b, a>> \in Inside

\* _check_manifest: rows for every feature, and both lists the same.
ManifestAgrees(f) ==
    /\ \A feature \in ActiveFeatures(f) : \E row \in package.manifest : row.of = feature
    /\ {row \in package.manifest : row.of \in ActiveFeatures(f) \cup {"framework"}}
         = {Declared(i) : i \in Specs(f)} \cup {Member(i) : i \in Attaches(f)}

Replaces(f) == {i \in Specs(f) : Declared(i).kind \in {"replace", "class"}}

\* collect: what it refuses before the manifest is read.
WellDeclared(f) ==
    /\ \A i, j \in Specs(f) : Declared(i) = Declared(j) => i = j
    /\ \A i, j \in Replaces(f) : Declared(i).target = Declared(j).target => i = j
    /\ \A i, j \in Specs(f) :
          Declared(i).kind = "class" => <<Declared(j).target, Declared(i).target>> \notin Inside
    /\ \A i, j \in Attaches(f) : Member(i).target = Member(j).target => i = j
    /\ AttachedNames(f) \cap Targets(f) = {}

\* Mutant: the modules of dependencies are not fingerprinted.
PinnedTargetsOnly(f) == Targets(f) \cap package.drifted = {}

\* fingerprint.verify: every module read has the pinned bytes.
Pinned(f) == (Targets(f) \cup Depends(f)) \cap package.drifted = {}

\* _existing_entries.
Unexplained(f) ==
    {n \in Names : hooks[n] # <<>> /\ \E p \in Protected(f) : Overlaps(n, p)}

Activatable(f) ==
    /\ ~package.broken
    /\ WellDeclared(f) /\ ManifestAgrees(f)
    /\ Pinned(f)
    /\ Targets(f) \cap Properties = {}
    /\ Unexplained(f) = {}

----------------------------------------------------------------------------
(* The plugin's load, as often as the loader calls it.                     *)

ActivationInit ==
    /\ environment \in Environments
    /\ package \in Packages
    /\ hooks = [n \in Names |-> <<>>]
    /\ live = [n \in Names |-> IF n \in Upstream THEN <<"upstream">> ELSE <<>>]
    /\ patched = {}
    /\ activated = Inactive
    /\ frozen = [hooks |-> hooks, live |-> live]
    /\ stage = "loading"
    /\ record = Inactive
    /\ scope = "unknown"
    /\ asked = {} /\ meddled = {} /\ rebound = {}

Stop == stage' = "stopped"
Requested == ReadFeatures(environment)
Asks == asked' = asked \cup {Requested}

\* Switches that name no supported combination stop the process.
LoadMalformed ==
    /\ stage = "loading" /\ Malformed(environment)
    /\ Stop
    /\ UNCHANGED <<environment, package, hooks, live, patched, activated, frozen,
                   record, scope, asked, meddled, rebound>>

\* With no switch set the load changes nothing.
LoadInactive ==
    /\ stage = "loading" /\ ~Malformed(environment) /\ ActiveFeatures(Requested) = {}
    /\ Asks
    /\ UNCHANGED <<environment, package, hooks, live, patched, activated, frozen,
                   stage, record, scope, meddled, rebound>>

Loadable ==
    /\ stage = "loading" /\ ~Malformed(environment) /\ ActiveFeatures(Requested) # {}
    /\ Asks

\* Mutant: a second load never compares the features.
LoadAgainAnyhow ==
    /\ Loadable /\ activated # Inactive
    /\ UNCHANGED <<environment, package, hooks, live, patched, activated, frozen,
                   stage, record, scope, meddled, rebound>>

\* A second load is idempotent, and refuses other features.
LoadAgain ==
    /\ Loadable /\ activated # Inactive
    /\ IF activated = Requested THEN UNCHANGED stage ELSE Stop
    /\ UNCHANGED <<environment, package, hooks, live, patched, activated, frozen,
                   record, scope, meddled, rebound>>

\* Any failure on the enabled path is a PluginActivationError.
LoadRefused ==
    /\ Loadable /\ activated = Inactive /\ ~Activatable(Requested)
    /\ Stop
    /\ UNCHANGED <<environment, package, hooks, live, patched, activated, frozen,
                   record, scope, meddled, rebound>>

Ours == [by |-> "plugin", source |-> "plugin"]
Registered(f) == [n \in Names |-> hooks[n] \o
                    [i \in 1..Cardinality({i \in Specs(f) : Declared(i).target = n}) |-> Ours]]
Applied(S) == [n \in Names |-> IF n \in S THEN Append(live[n], "plugin") ELSE live[n]]
Attachable(f) == \A a \in AttachedNames(f) : live[a] = <<>>

\* Mutant: a member the owner already defines is left out, with a warning.
LoadFailsOn ==
    /\ Loadable /\ activated = Inactive /\ Activatable(Requested) /\ ~Attachable(Requested)
    /\ hooks' = Registered(Requested)
    /\ live' = Applied(Targets(Requested))
    /\ patched' = patched \cup Targets(Requested)
    /\ activated' = Requested
    /\ frozen' = [hooks |-> hooks', live |-> live']
    /\ UNCHANGED <<environment, package, stage, record, scope, meddled, rebound>>

\* Hooks are registered and some applied when one of them, or an attach whose
\* name the owner already defines, raises.
LoadFails ==
    /\ Loadable /\ activated = Inactive /\ Activatable(Requested)
    /\ \E S \in SUBSET Targets(Requested) :
          /\ S = Targets(Requested) => ~Attachable(Requested)
          /\ live' = Applied(S) /\ patched' = patched \cup S
    /\ hooks' = Registered(Requested)
    /\ Stop
    /\ UNCHANGED <<environment, package, activated, frozen, record, scope,
                   meddled, rebound>>

\* activate: our targets only, then the attached members.
LoadActivates ==
    /\ Loadable /\ activated = Inactive
    /\ Activatable(Requested) /\ Attachable(Requested)
    /\ hooks' = Registered(Requested)
    /\ live' = Applied(Targets(Requested) \cup AttachedNames(Requested))
    /\ patched' = patched \cup Targets(Requested)
    /\ activated' = Requested
    /\ frozen' = [hooks |-> hooks', live |-> live']
    /\ rebound' = {}
    /\ UNCHANGED <<environment, package, stage, record, scope, meddled>>

----------------------------------------------------------------------------
(* What others do in the process (external), and the loader's own steps.   *)

Foreign == Cardinality(meddled) + Cardinality(rebound)

\* Another plugin registers a hook, perhaps claiming this plugin's source.
Registers(n) ==
    /\ stage \in {"loading", "loaded", "published"} /\ Foreign < MaxForeign
    /\ \E source \in {"plugin", "other"} :
          hooks' = [hooks EXCEPT ![n] = Append(@, [by |-> "other", source |-> source])]
    /\ meddled' = meddled \cup {n}
    /\ UNCHANGED <<environment, package, live, patched, activated, frozen,
                   stage, record, scope, asked, rebound>>

\* Another plugin binds a name itself; paths below it may resolve elsewhere.
Binds(n) ==
    /\ stage \in {"loading", "loaded", "published"} /\ Foreign < MaxForeign
    /\ \E S \in SUBSET {m \in Names : <<m, n>> \in Inside /\ live[m] # <<>>} :
          /\ live' = [m \in Names |-> IF m \in S \cup {n} THEN Append(live[m], "other")
                                      ELSE live[m]]
          /\ rebound' = rebound \cup S \cup {n}
    /\ UNCHANGED <<environment, package, hooks, patched, activated, frozen,
                   stage, record, scope, asked, meddled>>

\* Somebody edits the switches after the loads so far (once).
EnvironmentChanges ==
    /\ stage = "loading" /\ ~Malformed(environment) /\ asked = {Requested}
    /\ \E e \in Environments : environment' = e
    /\ UNCHANGED <<package, hooks, live, patched, activated, frozen, stage, record,
                   scope, asked, meddled, rebound>>

\* apply_hooks: every registered name that is not patched yet.
FinalPass ==
    /\ stage = "loading" /\ asked # {}
    /\ LET due == {n \in Names : hooks[n] # <<>>} \ patched
       IN  /\ live' = [n \in Names |-> IF n \in due THEN Append(live[n], "other") ELSE live[n]]
           /\ patched' = patched \cup due
    /\ stage' = "loaded"
    /\ UNCHANGED <<environment, package, hooks, activated, frozen, record, scope,
                   asked, meddled, rebound>>

\* publish: the model's configuration can be read from here on.
Publish ==
    /\ stage = "loaded" /\ stage' = "published"
    /\ UNCHANGED <<environment, package, hooks, live, patched, activated, frozen,
                   record, scope, asked, meddled, rebound>>

----------------------------------------------------------------------------
(* verify_final, which FW1 runs before configure_scheduler_process.        *)

\* _foreign_overlaps.
ForeignOverlaps ==
    {n \in Names : /\ \E h \in ToSet(hooks[n]) : h.source # "plugin"
                   /\ \E p \in Protected(activated) : Overlaps(n, p)}

\* Mutant: only entries under a foreign source count.
LateNone == {}

\* Entries added since activation, and entries elsewhere claiming our source.
Late ==
    {n \in Names :
        IF n \in Targets(activated) THEN hooks[n] # frozen.hooks[n]
        ELSE \E h \in ToSet(hooks[n]) : h.source = "plugin"}

\* Mutant: a dependency rebound after activation is not noticed.
ChangedTargets == {n \in Targets(activated) : live[n] # frozen.live[n]}

\* Targets, dependencies and attached members that are not what they were.
Changed == {n \in Protected(activated) : live[n] # frozen.live[n]}

VerifyPasses ==
    activated # Inactive /\ ForeignOverlaps = {} /\ Late = {} /\ Changed = {}

\* The hook runs unless somebody bound the name over it.
HookRuns == Last(live[Configure]) = "plugin"

ConfigureVerified ==
    /\ stage = "published" /\ "plugin" \in ToSet(live[Configure])
    /\ VerifyPasses
    /\ \E directory \in BOOLEAN : record' = IF directory THEN activated ELSE record
    /\ stage' = "serving"
    /\ UNCHANGED <<environment, package, hooks, live, patched, activated, frozen,
                   scope, asked, meddled, rebound>>

ConfigureRefused ==
    /\ stage = "published" /\ "plugin" \in ToSet(live[Configure])
    /\ ~VerifyPasses
    /\ Stop
    /\ UNCHANGED <<environment, package, hooks, live, patched, activated, frozen,
                   record, scope, asked, meddled, rebound>>

\* Without the hook nothing verifies, and no record is written.
ConfigureUnhooked ==
    /\ stage = "published" /\ ~HookRuns
    /\ stage' = "serving"
    /\ UNCHANGED <<environment, package, hooks, live, patched, activated, frozen,
                   record, scope, asked, meddled, rebound>>

\* The first hook that asks: the architectures of the published model. The
\* answer is cached; a model that cannot be classed stops the process.
DecideScope ==
    /\ stage = "serving" /\ activated # Inactive /\ scope = "unknown"
    /\ \E architectures \in SUBSET {"target", "other"} :
          IF Cardinality(architectures) = 1
            THEN scope' \in architectures /\ UNCHANGED stage
            ELSE Stop /\ UNCHANGED scope
    /\ UNCHANGED <<environment, package, hooks, live, patched, activated, frozen,
                   record, asked, meddled, rebound>>

ActivationNext ==
    \/ LoadMalformed \/ LoadInactive \/ LoadAgain \/ LoadRefused \/ LoadFails \/ LoadActivates
    \/ \E n \in Names : Registers(n) \/ Binds(n)
    \/ EnvironmentChanges \/ FinalPass \/ Publish
    \/ ConfigureVerified \/ ConfigureRefused \/ ConfigureUnhooked \/ DecideScope

----------------------------------------------------------------------------
(* Properties.                                                             *)

Hooked == {n \in Names : "plugin" \in ToSet(live[n])}

\* A record the launcher trusts says what is true when it is written: the
\* process read pinned modules, every declared hook and member is bound last,
\* nobody else ever registered on or around a protected name, and none of
\* them was bound by anyone else since activation.
RecordTrue ==
    [][record' # record =>
          /\ record' = activated
          /\ (Targets(activated) \cup Depends(activated)) \cap package.drifted = {}
          /\ \A n \in Targets(activated) \cup AttachedNames(activated) :
                live[n] # <<>> /\ Last(live[n]) = "plugin"
          /\ \A n \in meddled, p \in Protected(activated) : ~Overlaps(n, p)
          /\ rebound \cap Protected(activated) = {}]_activationVars

\* A process that serves is patched entirely with the features every load was
\* asked for, or not at all: no failure half-way leaves it running.
AllOrNothing ==
    stage = "serving" =>
        /\ asked = {activated} \/ (activated # Inactive /\ asked = {activated, Inactive})
        /\ Hooked = IF activated = Inactive THEN {}
                    ELSE Targets(activated) \cup AttachedNames(activated)

ActivationSpec == ActivationInit /\ [][ActivationNext]_activationVars
=============================================================================

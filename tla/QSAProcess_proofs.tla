------------------------- MODULE QSAProcess_proofs -------------------------
(***************************************************************************)
(* A scheduler process, proved for any plugin package, any requests and    *)
(* any sizes. The plugin is active whole or not at all and its record says *)
(* what is bound (QSAActivation); the pools are what the arguments asked   *)
(* for (QSAConfig); a writeback that no event covers keeps the lease whose *)
(* slot it reads, and a replay writes only the rings of its batch          *)
(* (QSAGraph); the slab and the pages of phase 1 have one owner, and each  *)
(* forward runs on the storage its kind needs (QSASingleRequest); and the  *)
(* attention reads the rows its own request stored, scaled as they were    *)
(* stored (QSAAttention).                                                  *)
(* The theorems are of the whole process, whatever its other parts do.     *)
(***************************************************************************)
EXTENDS QSAProcess, SequenceTheorems, FiniteSetTheorems, TLAPS

----------------------------------------------------------------------------
(* The plugin.                                                             *)

Entries == [by : {"plugin", "other"}, source : {"plugin", "other"}]

Objects == {"upstream", "plugin", "other"}

PluginTypes ==
    /\ package \in Packages
    /\ hooks \in [Names -> Seq(Entries)] /\ live \in [Names -> Seq(Objects)]
    /\ meddled \subseteq Names /\ rebound \subseteq Names
    /\ stage \in {"loading", "loaded", "published", "serving", "stopped"}

\* In a process that was not stopped every load asked for nothing or for what
\* is active.
AskedFor ==
    stage # "stopped" =>
        /\ asked \subseteq {activated, Inactive}
        /\ activated # Inactive => activated \in asked
        /\ stage # "loading" => asked # {}

\* What is bound is what the features declare.
Bound(f) == IF f = Inactive THEN {} ELSE Targets(f) \cup AttachedNames(f)
BoundWhole == stage # "stopped" => Hooked = Bound(activated)

\* What verify_final compares with, and what happened since.
FrozenTrue ==
    activated # Inactive =>
        /\ Pinned(activated)
        /\ \A n \in Targets(activated) : \A i \in DOMAIN frozen.hooks[n] :
              frozen.hooks[n][i].by = "plugin"
        /\ \A n \in Bound(activated) : frozen.live[n] # <<>> /\ Last(frozen.live[n]) = "plugin"
        /\ \A n \in Names : Len(frozen.live[n]) <= Len(live[n])
        /\ \A n \in rebound : Len(frozen.live[n]) < Len(live[n])

\* Whoever registers leaves an entry that is not the plugin's.
MeddledShows ==
    \A n \in meddled : \E i \in DOMAIN hooks[n] : hooks[n][i].by = "other"

PluginInv == PluginTypes /\ AskedFor /\ BoundWhole /\ FrozenTrue /\ MeddledShows

\* Appending to a chain puts one more object over it.
LEMMA Appended ==
  ASSUME NEW S, NEW chain \in Seq(S), NEW e \in S
  PROVE  /\ Append(chain, e) \in Seq(S)
         /\ Append(chain, e) # <<>> /\ Last(Append(chain, e)) = e
         /\ Len(Append(chain, e)) = Len(chain) + 1
         /\ ToSet(Append(chain, e)) = ToSet(chain) \cup {e}
<1> DEFINE s == Append(chain, e)
<1>1. /\ s \in Seq(S) /\ Len(s) = Len(chain) + 1
      /\ \A i \in 1..Len(chain) : s[i] = chain[i]
      /\ s[Len(chain) + 1] = e
  BY AppendProperties
<1>2. Len(chain) \in Nat /\ DOMAIN chain = 1..Len(chain) /\ DOMAIN s = 1..(Len(chain) + 1)
  BY <1>1, LenProperties
<1> HIDE DEF s
<1>3. s # <<>> /\ Last(s) = e
  BY <1>1, <1>2 DEF Last
<1>4. ToSet(s) = ToSet(chain) \cup {e}
  <2>1. ASSUME NEW x \in ToSet(s) PROVE x \in ToSet(chain) \cup {e}
    <3>1. PICK i \in DOMAIN s : x = s[i]
      BY <2>1 DEF ToSet
    <3>2. CASE i = Len(chain) + 1
      BY <1>1, <3>1, <3>2
    <3>3. CASE i \in DOMAIN chain
      BY <1>1, <1>2, <3>1, <3>3 DEF ToSet
    <3> QED
      BY <1>2, <3>2, <3>3
  <2>2. ASSUME NEW x \in ToSet(chain) PROVE x \in ToSet(s)
    <3>1. PICK i \in DOMAIN chain : x = chain[i]
      BY <2>2 DEF ToSet
    <3> QED
      BY <1>1, <1>2, <3>1 DEF ToSet
  <2>3. e \in ToSet(s)
    <3>1. Len(chain) + 1 \in DOMAIN s
      BY <1>2
    <3> QED
      BY <1>1, <3>1 DEF ToSet
  <2> QED
    BY <2>1, <2>2, <2>3
<1> QED
  BY <1>1, <1>3, <1>4 DEF s

\* A load that asks for no feature asks for the inactive process.
LEMMA AskedNothing == ActiveFeatures(Requested) = {} <=> Requested = Inactive
<1>1. Requested.compat = (environment.compat = "1") /\ Requested.mode = environment.mode
  BY DEF Requested, ReadFeatures
<1>2. ASSUME ActiveFeatures(Requested) = {} PROVE Requested = Inactive
  <2>1. ~Requested.compat /\ Requested.mode = "none"
    BY <1>2 DEF ActiveFeatures
  <2>2. (environment.compat = "1") = FALSE /\ environment.mode = "none"
    BY <1>1, <2>1
  <2> QED
    BY <2>2, Zenon DEF Requested, ReadFeatures, Inactive
<1>3. ASSUME Requested = Inactive PROVE ActiveFeatures(Requested) = {}
  BY <1>3 DEF Inactive, ActiveFeatures
<1> QED
  BY <1>2, <1>3

\* What a plugin declares does not change while its package does not.
LEMMA PackageKept ==
  ASSUME UNCHANGED package, NEW f
  PROVE  /\ Targets(f)' = Targets(f) /\ AttachedNames(f)' = AttachedNames(f)
         /\ Bound(f)' = Bound(f) /\ Pinned(f)' = Pinned(f)
<1>1. Targets(f)' = Targets(f)
  BY DEF Targets, Specs, Declared
<1>2. AttachedNames(f)' = AttachedNames(f)
  BY DEF AttachedNames, Attaches, Member
<1>3. Depends(f)' = Depends(f)
  BY <1>1 DEF Depends
<1> QED
  BY <1>1, <1>2, <1>3 DEF Bound, Pinned

\* The declared names are names.
LEMMA DeclaredNames ==
  ASSUME package \in Packages, NEW f
  PROVE  /\ Targets(f) \subseteq Names /\ AttachedNames(f) \subseteq Names
           /\ Bound(f) \subseteq Names
<1>1. \A i \in DOMAIN package.hooks : package.hooks[i].target \in Names
  BY ActivationAssumption DEF ToSet
<1>2. \A i \in DOMAIN package.attached : package.attached[i].target \in Names
  BY ActivationAssumption DEF ToSet
<1> QED
  BY <1>1, <1>2 DEF Targets, Specs, Declared, AttachedNames, Attaches, Member, Bound

\* The process begins with nobody's hooks and SGLang's own objects.
LEMMA PluginInit == ActivationInit => PluginInv
<1> SUFFICES ASSUME ActivationInit PROVE PluginInv
  OBVIOUS
<1>1. PluginTypes
  <2>1. <<>> \in Seq(Entries) /\ <<>> \in Seq(Objects) /\ <<"upstream">> \in Seq(Objects)
    <3>1. "upstream" \in Objects
      BY DEF Objects
    <3> QED
      BY <3>1, EmptySeq
  <2>2. \A n \in Names : (IF n \in Upstream THEN <<"upstream">> ELSE <<>>) \in Seq(Objects)
    BY <2>1
  <2> QED
    BY <2>1, <2>2 DEF ActivationInit, PluginTypes
<1>2. AskedFor /\ FrozenTrue /\ MeddledShows
  BY DEF ActivationInit, AskedFor, FrozenTrue, MeddledShows
<1>3. BoundWhole
  <2>1. ASSUME NEW n \in Names PROVE "plugin" \notin ToSet(live[n])
    <3>1. live[n] = <<"upstream">> \/ live[n] = <<>>
      BY DEF ActivationInit
    <3> QED
      BY <3>1 DEF ToSet
  <2> QED
    BY <2>1 DEF ActivationInit, BoundWhole, Bound, Hooked
<1> QED
  BY <1>1, <1>2, <1>3 DEF PluginInv

\* Loads and configurations that touch no hook and no name, or only stop.
LEMMA PluginQuiet ==
  ASSUME PluginInv, UNCHANGED <<package, hooks, live, activated, frozen, meddled, rebound>>,
         AskedFor',
         stage' \in {"loading", "loaded", "published", "serving", "stopped"},
         stage = "stopped" => stage' = "stopped"
  PROVE  PluginInv'
<1>1. PluginTypes'
  BY DEF PluginInv, PluginTypes
<1>2. PICK f : f = activated /\ f = activated'
  OBVIOUS
<1>3. Targets(f)' = Targets(f) /\ Bound(f)' = Bound(f) /\ Pinned(f)' = Pinned(f)
  BY PackageKept
<1>4. BoundWhole'
  <2>1. Hooked' = Hooked
    BY DEF Hooked
  <2> QED
    BY <1>2, <1>3, <2>1 DEF PluginInv, BoundWhole
<1>5. FrozenTrue'
  BY <1>2, <1>3 DEF PluginInv, FrozenTrue
<1>6. MeddledShows'
  BY DEF PluginInv, MeddledShows
<1> QED
  BY <1>1, <1>4, <1>5, <1>6 DEF PluginInv

\* What a load registers is the plugin's own, behind what is there.
LEMMA RegisteredOwn ==
  ASSUME PluginInv, NEW f, NEW n \in Names
  PROVE  /\ Registered(f)[n] \in Seq(Entries)
         /\ \A i \in DOMAIN hooks[n] : i \in DOMAIN Registered(f)[n] /\ Registered(f)[n][i] = hooks[n][i]
         /\ hooks[n] = <<>> => \A i \in DOMAIN Registered(f)[n] : Registered(f)[n][i].by = "plugin"
<1> DEFINE mine == {i \in Specs(f) : Declared(i).target = n}
<1>1. Cardinality(mine) \in Nat
  <2>1. IsFiniteSet(DOMAIN package.hooks)
    BY ActivationAssumption DEF PluginInv, PluginTypes
  <2>2. mine \subseteq DOMAIN package.hooks
    BY DEF Specs
  <2> QED
    BY <2>1, <2>2, FS_Subset, FS_CardinalityType
<1>2. PICK k \in Nat : k = Cardinality(mine)
  BY <1>1
<1> DEFINE added == [i \in 1..k |-> Ours]
<1>3. Ours \in Entries /\ Ours.by = "plugin"
  BY DEF Ours, Entries
<1>4. added \in Seq(Entries) /\ Len(added) = k /\ DOMAIN added = 1..k
  BY <1>3
<1>5. Registered(f)[n] = hooks[n] \o added
  BY <1>2 DEF Registered
<1>6. hooks[n] \in Seq(Entries)
  BY DEF PluginInv, PluginTypes
<1> HIDE DEF added
<1>7. /\ hooks[n] \o added \in Seq(Entries)
      /\ Len(hooks[n] \o added) = Len(hooks[n]) + k
      /\ \A i \in 1..Len(hooks[n]) + k :
            (hooks[n] \o added)[i] = IF i <= Len(hooks[n]) THEN hooks[n][i]
                                     ELSE added[i - Len(hooks[n])]
  BY <1>4, <1>6, ConcatProperties
<1>8. Len(hooks[n]) \in Nat /\ DOMAIN hooks[n] = 1..Len(hooks[n])
  BY <1>6, LenProperties
<1>9. DOMAIN Registered(f)[n] = 1..(Len(hooks[n]) + k)
  BY <1>5, <1>7, LenProperties
<1>10. ASSUME hooks[n] = <<>>, NEW i \in DOMAIN Registered(f)[n]
       PROVE  Registered(f)[n][i].by = "plugin"
  <2>1. Len(hooks[n]) = 0
    BY <1>10
  <2>2. Registered(f)[n][i] = added[i]
    BY <1>5, <1>7, <1>8, <1>9, <1>10, <2>1
  <2>3. added[i] = Ours
    BY <1>9, <1>10, <2>1 DEF added
  <2> QED
    BY <1>3, <2>2, <2>3
<1> QED
  BY <1>5, <1>7, <1>8, <1>9, <1>10

\* What a load binds is one object more over the names it binds.
LEMMA AppliedOver ==
  ASSUME PluginInv, NEW S, NEW n \in Names
  PROVE  /\ Applied(S)[n] \in Seq(Objects)
         /\ n \in S => /\ "plugin" \in ToSet(Applied(S)[n])
                       /\ Applied(S)[n] # <<>> /\ Last(Applied(S)[n]) = "plugin"
         /\ n \notin S => Applied(S)[n] = live[n]
<1>1. live[n] \in Seq(Objects)
  BY DEF PluginInv, PluginTypes
<1>2. Applied(S)[n] = IF n \in S THEN Append(live[n], "plugin") ELSE live[n]
  BY DEF Applied
<1>3. CASE n \in S
  <2>1. "plugin" \in Objects
    BY DEF Objects
  <2>2. Applied(S)[n] = Append(live[n], "plugin")
    BY <1>2, <1>3
  <2>3. /\ Applied(S)[n] \in Seq(Objects)
        /\ Applied(S)[n] # <<>> /\ Last(Applied(S)[n]) = "plugin"
        /\ ToSet(Applied(S)[n]) = ToSet(live[n]) \cup {"plugin"}
    <3>1. /\ Append(live[n], "plugin") \in Seq(Objects)
          /\ Append(live[n], "plugin") # <<>> /\ Last(Append(live[n], "plugin")) = "plugin"
          /\ ToSet(Append(live[n], "plugin")) = ToSet(live[n]) \cup {"plugin"}
      BY <1>1, <2>1, Appended
    <3> QED
      BY <2>2, <3>1, Zenon
  <2>4. "plugin" \in ToSet(Applied(S)[n])
    BY <2>3
  <2> QED
    BY <1>3, <2>3, <2>4, Zenon
<1> QED
  BY <1>1, <1>2, <1>3

\* The activation binds what it declares, and records what it bound.
LEMMA PluginActivates ==
  ASSUME PluginInv, LoadActivates
  PROVE  PluginInv'
<1>0. PICK f : f = Requested
  OBVIOUS
<1> DEFINE S == Targets(f) \cup AttachedNames(f)
<1>1. /\ stage = "loading" /\ activated = Inactive /\ activated' = f
      /\ UNCHANGED <<package, stage, meddled>>
      /\ hooks' = Registered(f) /\ live' = Applied(S)
      /\ frozen' = [hooks |-> hooks', live |-> live'] /\ rebound' = {}
      /\ asked' = asked \cup {f}
  BY <1>0 DEF LoadActivates, Loadable, Asks
<1>2. f # Inactive
  BY <1>0, AskedNothing DEF LoadActivates, Loadable
<1>3. Pinned(f) /\ Unexplained(f) = {}
  BY <1>0 DEF LoadActivates, Activatable
<1>4. S \subseteq Names /\ Targets(f) \subseteq Names
  BY DeclaredNames DEF PluginInv, PluginTypes
<1>5. /\ Targets(f)' = Targets(f) /\ AttachedNames(f)' = AttachedNames(f)
      /\ Bound(f)' = Bound(f) /\ Pinned(f)' = Pinned(f) /\ Bound(f) = S
  <2>1. UNCHANGED package
    BY <1>1
  <2> QED
    BY <1>2, <2>1, PackageKept DEF Bound
<1> HIDE DEF S
<1>6. /\ hooks' = [n \in Names |-> hooks'[n]] /\ live' = [n \in Names |-> live'[n]]
  BY <1>1 DEF Registered, Applied
<1>7. PluginTypes'
  <2>1. hooks' \in [Names -> Seq(Entries)]
    BY <1>1, <1>6, RegisteredOwn
  <2>2. live' \in [Names -> Seq(Objects)]
    BY <1>1, <1>6, AppliedOver
  <2> QED
    BY <1>1, <2>1, <2>2 DEF PluginInv, PluginTypes
<1>8. AskedFor'
  BY <1>1 DEF PluginInv, AskedFor
<1>9. BoundWhole'
  <2>1. \A n \in Names : "plugin" \notin ToSet(live[n])
    BY <1>1 DEF PluginInv, BoundWhole, Bound, Hooked
  <2>2. \A n \in Names : "plugin" \in ToSet(live'[n]) <=> n \in S
    BY <1>1, <2>1, AppliedOver
  <2>3. Hooked' = S
    BY <1>4, <2>2 DEF Hooked
  <2> QED
    BY <1>1, <1>5, <2>3 DEF BoundWhole
<1>10. FrozenTrue'
  <2>1. frozen'.hooks = hooks' /\ frozen'.live = live'
    BY <1>1
  <2>2. ASSUME NEW n \in Targets(f), NEW i \in DOMAIN hooks'[n] PROVE hooks'[n][i].by = "plugin"
    <3>1. hooks[n] = <<>>
      BY <1>3, <1>4 DEF Unexplained, Overlaps, Protected
    <3> QED
      BY <1>1, <1>4, <2>2, <3>1, RegisteredOwn
  <2>3. \A n \in S : live'[n] # <<>> /\ Last(live'[n]) = "plugin"
    BY <1>1, <1>4, AppliedOver
  <2>4. \A n \in Names : Len(live'[n]) \in Nat
    BY <1>7, LenProperties DEF PluginTypes
  <2>5. Pinned(activated)' /\ (rebound' = {})
    BY <1>1, <1>3, <1>5
  <2>6. Bound(activated)' = S /\ Targets(activated)' = Targets(f)
    BY <1>1, <1>5
  <2> QED
    BY <2>1, <2>2, <2>3, <2>4, <2>5, <2>6 DEF FrozenTrue
<1>11. MeddledShows'
  <2>1. ASSUME NEW n \in meddled PROVE \E i \in DOMAIN hooks'[n] : hooks'[n][i].by = "other"
    <3>1. n \in Names /\ \E i \in DOMAIN hooks[n] : hooks[n][i].by = "other"
      BY DEF PluginInv, PluginTypes, MeddledShows
    <3> QED
      BY <1>1, <3>1, RegisteredOwn
  <2> QED
    BY <1>1, <2>1 DEF MeddledShows
<1> QED
  BY <1>7, <1>8, <1>9, <1>10, <1>11 DEF PluginInv

\* A load that fails half-way has stopped the process.
LEMMA PluginFails ==
  ASSUME PluginInv, LoadFails
  PROVE  PluginInv'
<1>0. PICK f : f = Requested
  OBVIOUS
<1>1. PICK S : S \in SUBSET Targets(f) /\ live' = Applied(S)
  BY <1>0 DEF LoadFails
<1>2. /\ activated = Inactive /\ stage' = "stopped" /\ hooks' = Registered(f)
      /\ UNCHANGED <<package, activated, frozen, meddled, rebound>>
  BY <1>0 DEF LoadFails, Loadable, Stop
<1>3. /\ hooks' = [n \in Names |-> hooks'[n]] /\ live' = [n \in Names |-> live'[n]]
  BY <1>1, <1>2 DEF Registered, Applied
<1>4. PluginTypes'
  <2>1. hooks' \in [Names -> Seq(Entries)]
    BY <1>2, <1>3, RegisteredOwn
  <2>2. live' \in [Names -> Seq(Objects)]
    BY <1>1, <1>3, AppliedOver
  <2> QED
    BY <1>2, <2>1, <2>2 DEF PluginInv, PluginTypes
<1>5. AskedFor' /\ BoundWhole' /\ FrozenTrue'
  BY <1>2 DEF AskedFor, BoundWhole, FrozenTrue
<1>6. MeddledShows'
  <2>1. ASSUME NEW n \in meddled PROVE \E i \in DOMAIN hooks'[n] : hooks'[n][i].by = "other"
    <3>1. n \in Names /\ \E i \in DOMAIN hooks[n] : hooks[n][i].by = "other"
      BY DEF PluginInv, PluginTypes, MeddledShows
    <3> QED
      BY <1>2, <3>1, RegisteredOwn
  <2> QED
    BY <1>2, <2>1 DEF MeddledShows
<1> QED
  BY <1>4, <1>5, <1>6 DEF PluginInv

\* Others register entries of their own, behind what is there.
LEMMA PluginRegisters ==
  ASSUME PluginInv, NEW n \in Names, Registers(n)
  PROVE  PluginInv'
<1>1. PICK source \in {"plugin", "other"} :
         hooks' = [hooks EXCEPT ![n] = Append(@, [by |-> "other", source |-> source])]
  BY DEF Registers
<1> DEFINE e == [by |-> "other", source |-> source]
<1>2. e \in Entries /\ e.by = "other"
  BY DEF Entries
<1>3. /\ UNCHANGED <<package, live, activated, frozen, stage, asked, rebound>>
      /\ meddled' = meddled \cup {n}
  BY DEF Registers
<1>4. hooks' = [hooks EXCEPT ![n] = Append(hooks[n], e)]
  BY <1>1 DEF PluginInv, PluginTypes
<1> HIDE DEF e
<1>5. hooks[n] \in Seq(Entries)
  BY DEF PluginInv, PluginTypes
<1>6. /\ Append(hooks[n], e) \in Seq(Entries)
      /\ \A i \in DOMAIN hooks[n] : i \in DOMAIN Append(hooks[n], e) /\ Append(hooks[n], e)[i] = hooks[n][i]
      /\ Len(hooks[n]) + 1 \in DOMAIN Append(hooks[n], e)
      /\ Append(hooks[n], e)[Len(hooks[n]) + 1] = e
  BY <1>2, <1>5, AppendProperties, LenProperties
<1>7. /\ hooks' \in [Names -> Seq(Entries)] /\ hooks'[n] = Append(hooks[n], e)
      /\ \A m \in Names \ {n} : hooks'[m] = hooks[m]
  BY <1>4, <1>6 DEF PluginInv, PluginTypes
<1>8. PluginTypes'
  BY <1>3, <1>7 DEF PluginInv, PluginTypes
<1>9. MeddledShows'
  <2>1. ASSUME NEW m \in meddled \ {n} PROVE \E i \in DOMAIN hooks'[m] : hooks'[m][i].by = "other"
    BY <1>7 DEF PluginInv, PluginTypes, MeddledShows
  <2>2. \E i \in DOMAIN hooks'[n] : hooks'[n][i].by = "other"
    BY <1>2, <1>6, <1>7
  <2> QED
    BY <1>3, <2>1, <2>2 DEF MeddledShows
<1>10. PICK f : f = activated /\ f = activated'
  BY <1>3
<1>11. Targets(f)' = Targets(f) /\ Bound(f)' = Bound(f) /\ Pinned(f)' = Pinned(f)
  BY <1>3, PackageKept
<1>12. AskedFor' /\ FrozenTrue'
  BY <1>3, <1>10, <1>11 DEF PluginInv, AskedFor, FrozenTrue
<1>13. BoundWhole'
  <2>1. Hooked' = Hooked
    BY <1>3 DEF Hooked
  <2> QED
    BY <1>3, <1>10, <1>11, <2>1 DEF PluginInv, BoundWhole
<1> QED
  BY <1>8, <1>9, <1>12, <1>13 DEF PluginInv

\* Others bind names, or the loader applies their hooks: chains only grow, by
\* objects that are not the plugin's.
LEMMA PluginOverlaid ==
  ASSUME PluginInv, NEW over \in SUBSET Names, AskedFor',
         live' = [n \in Names |-> IF n \in over THEN Append(live[n], "other") ELSE live[n]],
         UNCHANGED <<package, hooks, activated, frozen, meddled>>,
         rebound' \subseteq rebound \cup over,
         stage # "stopped", stage' \in {"loading", "loaded", "published"}
  PROVE  PluginInv'
<1>1. \A n \in Names : live[n] \in Seq(Objects) /\ "other" \in Objects
  BY DEF PluginInv, PluginTypes, Objects
<1>2. ASSUME NEW n \in Names
      PROVE  /\ live'[n] \in Seq(Objects)
             /\ Len(live'[n]) \in Nat /\ Len(live[n]) \in Nat /\ Len(live[n]) <= Len(live'[n])
             /\ n \in over => Len(live'[n]) = Len(live[n]) + 1
             /\ "plugin" \in ToSet(live'[n]) <=> "plugin" \in ToSet(live[n])
  <2>1. Len(live[n]) \in Nat
    BY <1>1, LenProperties
  <2>2. CASE n \in over
    <3>1. live'[n] = Append(live[n], "other")
      BY <2>2
    <3>2. /\ Append(live[n], "other") \in Seq(Objects)
          /\ Len(Append(live[n], "other")) = Len(live[n]) + 1
          /\ ToSet(Append(live[n], "other")) = ToSet(live[n]) \cup {"other"}
      BY <1>1, Appended
    <3> QED
      BY <2>1, <3>1, <3>2
  <2>3. CASE n \notin over
    BY <1>1, <2>1, <2>3
  <2> QED
    BY <2>2, <2>3
<1>3. PluginTypes'
  BY <1>2 DEF PluginInv, PluginTypes
<1>4. MeddledShows'
  BY DEF PluginInv, MeddledShows
<1>5. PICK f : f = activated /\ f = activated'
  OBVIOUS
<1>6. Targets(f)' = Targets(f) /\ Bound(f)' = Bound(f) /\ Pinned(f)' = Pinned(f)
  BY PackageKept
<1>7. BoundWhole'
  <2>1. Hooked' = Hooked
    BY <1>2 DEF Hooked
  <2> QED
    BY <1>5, <1>6, <2>1 DEF PluginInv, BoundWhole
<1>8. FrozenTrue'
  <2> SUFFICES ASSUME activated # Inactive PROVE FrozenTrue'
    BY DEF FrozenTrue
  <2>1. /\ \A n \in Names : Len(frozen.live[n]) <= Len(live[n])
        /\ \A n \in rebound : Len(frozen.live[n]) < Len(live[n])
    BY DEF PluginInv, FrozenTrue
  <2> DEFINE was(n) == Len(frozen.live[n])
  <2>2. \A n \in Names : was(n) <= Len(live'[n])
    BY <1>2, <2>1, SMTT(30)
  <2>3. \A n \in rebound' : was(n) < Len(live'[n])
    BY <1>2, <2>1 DEF PluginInv, PluginTypes
  <2> QED
    BY <1>5, <1>6, <2>2, <2>3 DEF PluginInv, FrozenTrue
<1> QED
  BY <1>3, <1>4, <1>7, <1>8 DEF PluginInv

\* Every step of the process keeps the invariant of its plugin.
LEMMA PluginInvNext == PluginInv /\ [Next]_processVars => PluginInv'
<1> SUFFICES ASSUME PluginInv, [Next]_processVars PROVE PluginInv'
  OBVIOUS
<1> DEFINE Quiet == UNCHANGED <<package, hooks, live, activated, frozen, meddled, rebound>>
<1> USE DEF Stop
<1>1. CASE UNCHANGED activationVars
  <2>1. Quiet /\ UNCHANGED <<stage, asked>>
    BY <1>1 DEF activationVars
  <2>2. AskedFor'
    BY <2>1 DEF PluginInv, AskedFor
  <2> QED
    BY <2>1, <2>2, PluginQuiet DEF PluginInv, PluginTypes
<1>2. CASE LoadMalformed \/ LoadRefused \/ ConfigureRefused \/ OnlyStops
  <2>1. Quiet /\ stage' = "stopped"
    BY <1>2 DEF LoadMalformed, LoadRefused, ConfigureRefused, OnlyStops
  <2>2. AskedFor'
    BY <2>1 DEF AskedFor
  <2> QED
    BY <2>1, <2>2, PluginQuiet
<1>3. CASE LoadInactive
  <2>1. Quiet /\ UNCHANGED stage /\ asked' = asked \cup {Inactive} /\ stage = "loading"
    BY <1>3, AskedNothing DEF LoadInactive, Asks
  <2>2. AskedFor'
    BY <2>1 DEF PluginInv, AskedFor
  <2> QED
    BY <2>1, <2>2, PluginQuiet
<1>4. CASE LoadAgain
  <2>1. Quiet /\ stage = "loading" /\ activated # Inactive /\ asked' = asked \cup {Requested}
    BY <1>4 DEF LoadAgain, Loadable, Asks
  <2>2. (stage' = stage /\ activated = Requested) \/ stage' = "stopped"
    BY <1>4 DEF LoadAgain
  <2>3. AskedFor'
    <3>1. CASE stage' = "stopped"
      BY <3>1 DEF AskedFor
    <3>2. CASE stage' = stage /\ activated = Requested
      <4>1. activated \in asked'
        BY <2>1, <3>2
      <4>2. asked' \subseteq {activated, Inactive}
        BY <2>1, <3>2 DEF PluginInv, AskedFor
      <4> QED
        BY <2>1, <3>2, <4>1, <4>2 DEF AskedFor
    <3> QED
      BY <2>2, <3>1, <3>2
  <2> QED
    BY <2>1, <2>2, <2>3, PluginQuiet
<1>5. CASE LoadFails
  BY <1>5, PluginFails
<1>6. CASE LoadActivates
  BY <1>6, PluginActivates
<1>7. ASSUME NEW n \in Names, Registers(n) PROVE PluginInv'
  BY <1>7, PluginRegisters
<1>8. ASSUME NEW n \in Names, Binds(n) PROVE PluginInv'
  <2>1. PICK S \in SUBSET {m \in Names : <<m, n>> \in Inside /\ live[m] # <<>>} :
          /\ live' = [m \in Names |-> IF m \in S \cup {n} THEN Append(live[m], "other")
                                      ELSE live[m]]
          /\ rebound' = rebound \cup S \cup {n}
    BY <1>8 DEF Binds
  <2>2. /\ UNCHANGED <<package, hooks, activated, frozen, meddled, stage, asked>>
        /\ stage \in {"loading", "loaded", "published"}
    BY <1>8 DEF Binds
  <2>3. AskedFor'
    BY <2>2 DEF PluginInv, AskedFor
  <2>4. PICK over \in SUBSET Names : over = S \cup {n}
    BY <2>1
  <2>5. live' = [m \in Names |-> IF m \in over THEN Append(live[m], "other") ELSE live[m]]
    BY <2>1, <2>4
  <2>6. rebound' \subseteq rebound \cup over
    BY <2>1, <2>4
  <2> QED
    BY <2>2, <2>3, <2>5, <2>6, PluginOverlaid
<1>9. CASE EnvironmentChanges
  <2>1. Quiet /\ UNCHANGED <<stage, asked>>
    BY <1>9 DEF EnvironmentChanges
  <2>2. AskedFor'
    BY <2>1 DEF PluginInv, AskedFor
  <2> QED
    BY <2>1, <2>2, PluginQuiet DEF PluginInv, PluginTypes
<1>10. CASE FinalPass
  <2>1. PICK due : /\ due = {n \in Names : hooks[n] # <<>>} \ patched
                   /\ live' = [n \in Names |-> IF n \in due THEN Append(live[n], "other")
                                               ELSE live[n]]
    BY <1>10 DEF FinalPass
  <2>2. /\ UNCHANGED <<package, hooks, activated, frozen, meddled, rebound, asked>>
        /\ stage = "loading" /\ stage' = "loaded" /\ asked # {}
    BY <1>10 DEF FinalPass
  <2>3. AskedFor'
    BY <2>2 DEF PluginInv, AskedFor
  <2> QED
    BY <2>1, <2>2, <2>3, PluginOverlaid
<1>11. CASE Publish \/ ConfigureVerified \/ ConfigureUnhooked
  <2>1. /\ Quiet /\ UNCHANGED asked /\ stage \in {"loaded", "published"}
        /\ stage' \in {"published", "serving"}
    BY <1>11 DEF Publish, ConfigureVerified, ConfigureUnhooked
  <2>2. AskedFor'
    BY <2>1 DEF PluginInv, AskedFor
  <2> QED
    BY <2>1, <2>2, PluginQuiet
<1>12. CASE DecideScope
  <2>1. Quiet /\ UNCHANGED asked /\ stage = "serving" /\ stage' \in {"serving", "stopped"}
    BY <1>12 DEF DecideScope
  <2>2. AskedFor'
    BY <2>1 DEF PluginInv, AskedFor
  <2> QED
    BY <2>1, <2>2, PluginQuiet
<1>13. UNCHANGED activationVars \/ ActivationNext \/ OnlyStops
  BY DEF Next, Activates, Starts, ConfigNext, PricePools, BuildPools, AttachOwner, BuildCache,
         Serves, Decodes, Attends, processVars
<1> QED
  BY <1>1, <1>2, <1>3, <1>4, <1>5, <1>6, <1>7, <1>8, <1>9, <1>10, <1>11, <1>12, <1>13
     DEF ActivationNext

\* A process that serves is patched entirely, with the features every load was
\* asked for, or not at all: whatever fails half-way stops it (activate, and
\* the BaseException that SGLang's loader does not swallow).
THEOREM PluginAllOrNothing == Spec => []AllOrNothing
<1>1. Init => PluginInv
  BY PluginInit DEF Init
<1>2. PluginInv => AllOrNothing
  BY DEF PluginInv, AskedFor, BoundWhole, Bound, AllOrNothing
<1> QED
  BY <1>1, <1>2, PluginInvNext, PTL DEF Spec

\* verify_final passes only where nobody came near a protected name: an entry
\* of others is foreign, late, or was there at activation, which refused it; and
\* a name that others bound is no longer what it was.
LEMMA VerifiedTrue ==
  ASSUME PluginInv, VerifyPasses
  PROVE  /\ (Targets(activated) \cup Depends(activated)) \cap package.drifted = {}
         /\ \A n \in Targets(activated) \cup AttachedNames(activated) :
               live[n] # <<>> /\ Last(live[n]) = "plugin"
         /\ \A n \in meddled, p \in Protected(activated) : ~Overlaps(n, p)
         /\ rebound \cap Protected(activated) = {}
<1>1. activated # Inactive /\ ForeignOverlaps = {} /\ Late = {} /\ Changed = {}
  BY DEF VerifyPasses
<1>2. (Targets(activated) \cup Depends(activated)) \cap package.drifted = {}
  BY <1>1 DEF PluginInv, FrozenTrue, Pinned
<1>3. Targets(activated) \subseteq Names /\ AttachedNames(activated) \subseteq Names
  BY DeclaredNames DEF PluginInv, PluginTypes
<1>4. \A n \in Names \cap Protected(activated) : live[n] = frozen.live[n]
  BY <1>1 DEF Changed
<1>5. ASSUME NEW n \in Targets(activated) \cup AttachedNames(activated)
      PROVE  live[n] # <<>> /\ Last(live[n]) = "plugin"
  <2>1. live[n] = frozen.live[n]
    BY <1>3, <1>4 DEF Protected
  <2>2. frozen.live[n] # <<>> /\ Last(frozen.live[n]) = "plugin"
    BY <1>1 DEF PluginInv, FrozenTrue, Bound
  <2> QED
    BY <2>1, <2>2
<1>6. ASSUME NEW n \in meddled, NEW p \in Protected(activated), Overlaps(n, p) PROVE FALSE
  <2>1. n \in Names /\ hooks[n] \in Seq(Entries)
    BY DEF PluginInv, PluginTypes
  <2>2. PICK i \in DOMAIN hooks[n] : hooks[n][i].by = "other"
    BY DEF PluginInv, MeddledShows
  <2>3. hooks[n][i] \in ToSet(hooks[n]) /\ hooks[n][i].source \in {"plugin", "other"}
    <3>1. hooks[n][i] \in Entries
      BY <2>1, <2>2
    <3>2. hooks[n][i] \in ToSet(hooks[n])
      BY <2>2 DEF ToSet
    <3> QED
      BY <3>1, <3>2 DEF Entries
  <2>4. hooks[n][i].source = "plugin"
    BY <1>1, <1>6, <2>1, <2>3 DEF ForeignOverlaps
  <2>5. n \in Targets(activated) /\ hooks[n] = frozen.hooks[n]
    BY <1>1, <2>1, <2>3, <2>4 DEF Late
  <2>6. hooks[n][i].by = "plugin"
    BY <1>1, <2>2, <2>5 DEF PluginInv, FrozenTrue
  <2> QED
    BY <2>2, <2>6
<1>7. ASSUME NEW n \in rebound, n \in Protected(activated) PROVE FALSE
  <2>1. n \in Names /\ Len(live[n]) \in Nat
    BY LenProperties DEF PluginInv, PluginTypes
  <2>2. live[n] = frozen.live[n]
    BY <1>4, <1>7, <2>1
  <2>3. Len(frozen.live[n]) < Len(live[n])
    BY <1>1, <1>7 DEF PluginInv, FrozenTrue
  <2> QED
    BY <2>1, <2>2, <2>3
<1> QED
  BY <1>2, <1>5, <1>6, <1>7

\* A record the launcher trusts says what is true when it is written: write_record
\* runs after verify_final alone, which compares what the registry and the names
\* hold with what the activation left there.
THEOREM RecordsAreTrue == Spec => RecordTrue
<1> DEFINE Says ==
      record' # record =>
          /\ record' = activated
          /\ (Targets(activated) \cup Depends(activated)) \cap package.drifted = {}
          /\ \A n \in Targets(activated) \cup AttachedNames(activated) :
                live[n] # <<>> /\ Last(live[n]) = "plugin"
          /\ \A n \in meddled, p \in Protected(activated) : ~Overlaps(n, p)
          /\ rebound \cap Protected(activated) = {}
<1>1. PluginInv /\ [Next]_processVars => [Says]_activationVars
  <2> SUFFICES ASSUME PluginInv, [Next]_processVars, record' # record PROVE Says
    BY Zenon
  <2>1. ConfigureVerified
    BY DEF Next, Activates, Starts, Serves, Decodes, Attends, processVars, activationVars,
           ActivationNext, LoadMalformed, LoadInactive, LoadAgain, LoadRefused, LoadFails,
           LoadActivates, Registers, Binds, EnvironmentChanges, FinalPass, Publish,
           ConfigureRefused, ConfigureUnhooked, DecideScope,
           ConfigNext, PricePools, BuildPools, AttachOwner, BuildCache, OnlyStops
  <2>2. VerifyPasses /\ record' = activated
    BY <2>1 DEF ConfigureVerified
  <2> QED
    BY <2>2, VerifiedTrue
<1>2. Init => PluginInv
  BY PluginInit DEF Init
<1>3. RecordTrue <=> [][Says]_activationVars
  BY Zenon DEF RecordTrue
<1> HIDE DEF Says
<1> QED
  BY <1>1, <1>2, <1>3, PluginInvNext, PTL DEF Spec

----------------------------------------------------------------------------
(* The pools and the owner.                                                *)

Pools == [step : {"none", "priced", "built"}, bias : Int, cell : Nat, raw : Int, size : Int]

StartTypes ==
    /\ pools \in Pools
    /\ pools.step # "none" => arguments \in ArgumentSpace /\ pools.cell # 0

\* Each step comes after the one before it.
Ordered ==
    /\ pools.step # "none" => stage \in {"serving", "stopped"}
    /\ owner = NoOwner \/ owner.kind # "none"
    /\ owner.kind # "none" => pools.step = "built"
    /\ cache # "none" => owner.kind # "none"

\* What p2-offload was priced at is what its bounded arguments cost.
Priced ==
    pools.step = "priced" /\ Mode = "p2-offload" =>
        Bounded(arguments) /\ pools.bias = Bias(arguments) /\ pools.cell = QsaCell

\* An owner keeps prefixes exactly where the private cache is active.
PrefixOwner == owner.kind # "none" => (owner.prefix <=> PrivatePrefix)

StartInv == StartTypes /\ Ordered /\ Priced /\ PrefixOwner /\ StartAgrees

\* No whole pages are more than what they are whole pages of.
LEMMA PagesOf ==
  ASSUME NEW n \in Nat, NEW p \in Nat \ {0}
  PROVE  n \div p \in Nat /\ (n \div p) * p \in Nat /\ (n \div p) * p <= n
  OBVIOUS

\* Fewer tokens cost no more.
LEMMA CostGrows ==
  ASSUME NEW c \in Nat, NEW a \in Nat, NEW b \in Nat, a <= b
  PROVE  c * a <= c * b /\ c * a \in Nat
<1>1. PICK d \in Nat : b = a + d
  <2>1. b - a \in Nat /\ b = a + (b - a)
    OBVIOUS
  <2> QED
    BY <2>1
<1>2. c * b = c * a + c * d
  BY <1>1
<1>3. c * a \in Nat /\ c * d \in Nat
  OBVIOUS
<1> HIDE <1>1
<1> QED
  BY <1>2, <1>3

\* A logical size that is not empty costs no more than what the reservation
\* leaves of the memory.
LEMMA SizeFits ==
  ASSUME pools.bias \in Int, pools.cell \in Nat \ {0}, arguments.memory \in Int,
         arguments.total \in Nat, LogicalSize > 0
  PROVE  LogicalSize \in Nat /\ pools.cell * LogicalSize + pools.bias <= arguments.memory
<1> DEFINE left == arguments.memory - pools.bias
           fits == IF left < 0 THEN 0 ELSE left \div pools.cell
           whole == (fits \div Page) * Page
<1>1. left \in Int /\ Page \in Nat \ {0} /\ (left >= 0 => left \in Nat)
  BY ConfigAssumption
<1>2. fits \in Nat /\ (left >= 0 => fits * pools.cell <= left)
  <2>1. CASE left < 0
    BY <1>1, <2>1
  <2>2. CASE ~(left < 0)
    <3>1. left \in Nat /\ left >= 0
      BY <1>1, <2>2
    <3> HIDE DEF left
    <3>2. left \div pools.cell \in Nat /\ (left \div pools.cell) * pools.cell <= left
      BY <3>1, PagesOf
    <3> QED
      BY <2>2, <3>2
  <2> QED
    BY <2>1, <2>2
<1>3. whole \in Nat /\ whole <= fits
  <2> HIDE DEF fits
  <2> QED
    BY <1>1, <1>2, PagesOf
<1>4. LogicalSize = IF whole < arguments.total THEN whole ELSE arguments.total
  BY DEF LogicalSize
<1> HIDE DEF whole
<1>5. LogicalSize \in Nat /\ LogicalSize <= whole
  BY <1>3, <1>4
<1>6. fits > 0 /\ LogicalSize <= fits
  <2> HIDE DEF fits
  <2> QED
    BY <1>2, <1>3, <1>5
<1>7. left >= 0
  BY <1>1, <1>6
<1> HIDE DEF fits
<1>8. pools.cell * LogicalSize <= pools.cell * fits
  BY <1>2, <1>5, <1>6, CostGrows
<1>9. pools.cell * fits <= left
  <2>1. pools.cell * fits = fits * pools.cell
    BY <1>2
  <2> QED
    BY <1>2, <1>7, <2>1
<1>10. pools.cell * LogicalSize \in Nat
  BY <1>5, CostGrows
<1>11. pools.cell * fits \in Int
  BY <1>2
<1>12. pools.cell * LogicalSize <= left
  BY <1>1, <1>8, <1>9, <1>10, <1>11
<1> QED
  BY <1>5, <1>10, <1>12 DEF left

\* The logical size is a number.
LEMMA SizeTyped ==
  ASSUME pools.bias \in Int, pools.cell \in Nat \ {0}, arguments.memory \in Int,
         arguments.total \in Nat
  PROVE  LogicalSize \in Int
<1> DEFINE left == arguments.memory - pools.bias
<1>1. left < 0 \/ left \in Nat
  OBVIOUS
<1> HIDE DEF left
<1>2. (IF left < 0 THEN 0 ELSE left \div pools.cell) \in Nat
  BY <1>1, PagesOf
<1> DEFINE fits == IF left < 0 THEN 0 ELSE left \div pools.cell
<1>3. fits \in Nat
  BY <1>2
<1> HIDE DEF fits
<1>4. (fits \div Page) * Page \in Nat
  BY <1>3, PagesOf, ConfigAssumption
<1> QED
  BY <1>4 DEF LogicalSize, fits, left

\* A product of positive numbers is positive.
LEMMA ProductPositive == \A a, b \in Nat \ {0} : a * b \in Nat \ {0}
  OBVIOUS

\* No pools, no owner and no cache at first.
LEMMA StartInit == ConfigInit => StartInv
<1> SUFFICES ASSUME ConfigInit PROVE StartInv
  OBVIOUS
<1>1. pools.step = "none" /\ owner = NoOwner /\ owner.kind = "none" /\ cache = "none"
  BY DEF ConfigInit, NoOwner
<1>2. StartTypes
  BY DEF ConfigInit, StartTypes, Pools
<1> QED
  BY <1>1, <1>2 DEF StartInv, Ordered, Priced, PrefixOwner, StartAgrees

\* While the pools, the owner and the cache stay, so does what is true of them:
\* the switches can no longer change when a process serves.
LEMMA StartQuiet ==
  ASSUME StartInv, UNCHANGED configVars,
         stage \in {"serving", "stopped"} =>
             environment' = environment /\ stage' \in {"serving", "stopped"}
  PROVE  StartInv'
<1>1. UNCHANGED <<arguments, pools, owner, cache>>
  BY DEF configVars
<1>2. StartTypes'
  BY <1>1 DEF StartInv, StartTypes
<1>3. Ordered'
  BY <1>1 DEF StartInv, Ordered
<1>4. CASE pools.step = "none"
  BY <1>1, <1>2, <1>3, <1>4 DEF StartInv, Ordered, Priced, PrefixOwner, StartAgrees
<1>5. CASE pools.step # "none"
  <2>1. environment' = environment
    BY <1>5 DEF StartInv, Ordered
  <2>2. Mode' = Mode /\ (PrivatePrefix' <=> PrivatePrefix)
    BY <1>1, <2>1 DEF Mode, PrivatePrefix, P2
  <2>3. Priced' /\ PrefixOwner' /\ StartAgrees'
    BY <1>1, <2>2 DEF StartInv, Priced, PrefixOwner, StartAgrees, Bounded, Bias, RawSize
  <2> QED
    BY <1>2, <1>3, <2>3 DEF StartInv
<1> QED
  BY <1>4, <1>5

\* A step of the start serves on or stops, under the switches it found.
LEMMA StartStep ==
  ASSUME ConfigNext
  PROVE  stage = "serving" /\ stage' \in {"serving", "stopped"} /\ environment' = environment
BY DEF ConfigNext, PricePools, BuildPools, AttachOwner, BuildCache, Starting, OnlyStops, Stop,
       activationVars

\* Pools that are priced are priced at what the arguments cost.
LEMMA StartPrices ==
  ASSUME StartInv, PricePools
  PROVE  StartInv'
<1>1. /\ stage = "serving" /\ stage' \in {"serving", "stopped"} /\ environment' = environment
  BY StartStep DEF ConfigNext
<1>2. /\ pools.step = "none" /\ UNCHANGED <<owner, cache>> /\ arguments' \in ArgumentSpace
  BY DEF PricePools
<1>3. owner.kind = "none" /\ owner = NoOwner /\ cache = "none"
  BY <1>2 DEF StartInv, Ordered, NoOwner
<1>4. \/ pools' = pools
      \/ /\ Mode = "p2-offload" => Bounded(arguments')
         /\ pools' = [pools EXCEPT !.step = "priced",
                        !.bias = IF Mode = "p2-offload" THEN Bias(arguments') ELSE 0,
                        !.cell = IF Mode = "p2-offload" THEN QsaCell ELSE RawCell + QsaCell]
  BY DEF PricePools
<1>5. Mode' = Mode
  BY <1>1 DEF Mode
<1>6. \A a \in ArgumentSpace : Bias(a) \in Int
  BY ConfigAssumption DEF Bias, RawSize
<1>7. PICK bias \in Int, cell \in Nat \ {0} :
         /\ bias = IF Mode = "p2-offload" THEN Bias(arguments') ELSE 0
         /\ cell = IF Mode = "p2-offload" THEN QsaCell ELSE RawCell + QsaCell
  BY <1>2, <1>6, ConfigAssumption
<1>8. \/ pools' = pools
      \/ /\ Mode = "p2-offload" => Bounded(arguments')
         /\ pools' \in Pools /\ pools'.step = "priced" /\ pools'.bias = bias /\ pools'.cell = cell
  BY <1>4, <1>7 DEF StartInv, StartTypes, Pools
<1>9. StartTypes' /\ Ordered'
  BY <1>1, <1>2, <1>3, <1>8 DEF StartInv, StartTypes, Ordered
<1>10. Priced'
  <2>1. ASSUME pools'.step = "priced", Mode' = "p2-offload"
        PROVE  Bounded(arguments') /\ pools'.bias = Bias(arguments') /\ pools'.cell = QsaCell
    BY <1>2, <1>5, <1>7, <1>8, <2>1
  <2> QED
    BY <2>1 DEF Priced, Bounded, Bias, RawSize
<1>11. PrefixOwner' /\ StartAgrees'
  <2>1. pools'.step # "built" /\ owner'.kind = "none" /\ cache' = "none"
    BY <1>2, <1>3, <1>8
  <2> QED
    BY <2>1 DEF PrefixOwner, StartAgrees
<1> QED
  BY <1>9, <1>10, <1>11 DEF StartInv

\* Pools that are built in p2-offload fit in the memory they were priced for.
LEMMA StartBuilds ==
  ASSUME StartInv, BuildPools
  PROVE  StartInv'
<1>1. /\ stage = "serving" /\ stage' \in {"serving", "stopped"} /\ environment' = environment
  BY StartStep DEF ConfigNext
<1>2. pools.step = "priced" /\ UNCHANGED <<arguments, owner, cache>>
  BY DEF BuildPools
<1>3. Mode' = Mode
  BY <1>1 DEF Mode
<1>4. CASE pools' = pools
  BY <1>1, <1>2, <1>4, StartQuiet DEF configVars
<1>5. CASE pools' # pools
  <2>1. PICK size, raw :
           /\ size = LogicalSize
           /\ raw = IF Mode = "p2-offload" THEN RawSize(arguments.requests) ELSE LogicalSize
           /\ Mode = "p2-offload" => size = arguments.requests * Context
           /\ pools' = [pools EXCEPT !.step = "built", !.size = size, !.raw = raw]
    BY <1>5 DEF BuildPools
  <2>2. /\ arguments \in ArgumentSpace /\ arguments.requests \in Nat /\ arguments.total \in Nat
        /\ arguments.memory \in Int /\ pools.bias \in Int /\ pools.cell \in Nat \ {0}
    BY <1>2, ConfigAssumption DEF StartInv, StartTypes, Pools
  <2>3. /\ pools'.step = "built" /\ pools'.size = size /\ pools'.raw = raw
        /\ pools'.bias = pools.bias /\ pools'.cell = pools.cell
    BY <2>1 DEF StartInv, StartTypes, Pools
  <2>4. owner.kind = "none" /\ cache = "none"
    BY <1>2 DEF StartInv, Ordered
  <2>5. size \in Int /\ raw \in Int
    BY <2>1, <2>2, SizeTyped, ConfigAssumption DEF RawSize
  <2>6. StartTypes'
    BY <1>2, <2>1, <2>2, <2>5 DEF StartInv, StartTypes, Pools
  <2>7. Ordered'
    BY <1>1, <1>2, <2>3, <2>4 DEF StartInv, Ordered
  <2>8. Priced' /\ PrefixOwner'
    BY <1>2, <2>3, <2>4 DEF Priced, PrefixOwner
  <2>9. ASSUME Mode = "p2-offload"
        PROVE  RawCell * (raw + Page) + QsaCell * (size + Page) + arguments.requests * RingBytes
                 <= arguments.memory
    <3>1. /\ Bounded(arguments) /\ pools.bias = Bias(arguments) /\ pools.cell = QsaCell
      BY <1>2, <2>9 DEF StartInv, Priced
    <3>2. arguments.requests \in Nat \ {0} /\ Context \in Nat \ {0}
      BY <2>2, <3>1, ConfigAssumption DEF Bounded, Counts
    <3>3. size > 0 /\ size = LogicalSize
      BY <2>1, <2>9, <3>2, ProductPositive
    <3>4. QsaCell * size + Bias(arguments) <= arguments.memory
      BY <2>2, <3>1, <3>3, SizeFits, ConfigAssumption
    <3>5. raw = RawSize(arguments.requests) /\ raw \in Nat /\ size \in Nat
      BY <2>1, <2>2, <2>9, <3>2, ConfigAssumption DEF RawSize
    <3>6. PICK a \in Nat : a = RawCell * (raw + Page)
      BY <3>5, ConfigAssumption
    <3>7. PICK b \in Nat, c \in Nat : b = QsaCell * size /\ c = QsaCell * Page
      BY <3>5, ConfigAssumption
    <3>8. PICK d \in Nat : d = arguments.requests * RingBytes
      BY <2>2, ConfigAssumption
    <3>9. Bias(arguments) = a + c + d
      BY <3>5, <3>6, <3>7, <3>8 DEF Bias
    <3>10. QsaCell * (size + Page) = b + c
      BY <3>5, <3>7, ConfigAssumption
    <3>11. b + (a + c + d) <= arguments.memory
      BY <3>4, <3>7, <3>9
    <3>12. a + (b + c) + d <= arguments.memory
      <4> HIDE <3>4, <3>9, <3>10
      <4> QED
        BY <2>2, <3>11
    <3> QED
      BY <3>6, <3>8, <3>10, <3>12
  <2>10. StartAgrees'
    BY <1>2, <1>3, <2>3, <2>4, <2>9 DEF StartAgrees
  <2> QED
    BY <2>6, <2>7, <2>8, <2>10 DEF StartInv
<1> QED
  BY <1>4, <1>5

\* An owner is attached over pools that are as long as its requests.
LEMMA StartAttaches ==
  ASSUME StartInv, AttachOwner
  PROVE  StartInv'
<1>1. /\ stage = "serving" /\ stage' \in {"serving", "stopped"} /\ environment' = environment
  BY StartStep DEF ConfigNext
<1>2. pools.step = "built" /\ UNCHANGED <<arguments, pools, cache>> /\ owner = NoOwner
  BY DEF AttachOwner
<1>3. Mode' = Mode /\ (PrivatePrefix' <=> PrivatePrefix)
  BY <1>1, <1>2 DEF Mode, PrivatePrefix, P2
<1>4. CASE owner' = owner
  BY <1>1, <1>2, <1>4, StartQuiet DEF configVars
<1>5. CASE owner' # owner
  <2>1. /\ Validated /\ RawFits /\ (P2 => PrefixAllowed)
        /\ owner' = [kind |-> IF P2 THEN "leases" ELSE "single", mode |-> Mode,
                     requests |-> arguments.requests, graph |-> WantsGraph,
                     prefix |-> P2 /\ Mode = "p2-offload" /\ arguments.budget > 0]
    BY <1>5 DEF AttachOwner
  <2>2. /\ owner'.kind # "none" /\ owner'.requests = arguments.requests
        /\ owner'.prefix = (P2 /\ Mode = "p2-offload" /\ arguments.budget > 0)
    BY <2>1
  <2>3. owner'.prefix <=> PrivatePrefix
    BY <2>1, <2>2 DEF PrefixAllowed, PrivatePrefix
  <2>4. pools.size = arguments.requests * Context
    BY <2>1 DEF Validated
  <2>5. Mode = "p2-offload" => pools.raw = Context + 5 * arguments.requests
    BY <2>1 DEF RawFits, RawSize
  <2>6. cache = "none"
    BY <1>2 DEF StartInv, Ordered, NoOwner
  <2>7. StartTypes' /\ Ordered' /\ Priced'
    BY <1>1, <1>2, <2>2, <2>6 DEF StartInv, StartTypes, Ordered, Priced
  <2>8. PrefixOwner'
    BY <1>3, <2>3 DEF PrefixOwner
  <2>9. StartAgrees'
    BY <1>2, <1>3, <2>2, <2>4, <2>5, <2>6 DEF StartInv, StartAgrees
  <2> QED
    BY <2>7, <2>8, <2>9 DEF StartInv
<1> QED
  BY <1>4, <1>5

\* The private cache is built over an owner that keeps prefixes.
LEMMA StartCaches ==
  ASSUME StartInv, BuildCache
  PROVE  StartInv'
<1>1. /\ stage = "serving" /\ stage' \in {"serving", "stopped"} /\ environment' = environment
  BY StartStep DEF ConfigNext
<1>2. /\ owner # NoOwner /\ cache = "none" /\ UNCHANGED <<arguments, pools, owner>>
      /\ cache' = cache \/ cache' = IF PrivatePrefix THEN "private" ELSE "upstream"
  BY DEF BuildCache
<1>3. Mode' = Mode /\ (PrivatePrefix' <=> PrivatePrefix)
  BY <1>1, <1>2 DEF Mode, PrivatePrefix, P2
<1>4. owner.kind # "none" /\ (owner.prefix <=> PrivatePrefix)
  BY <1>2 DEF StartInv, Ordered, PrefixOwner
<1>5. StartTypes' /\ Ordered'
  BY <1>1, <1>2, <1>4 DEF StartInv, StartTypes, Ordered
<1>6. Priced' /\ PrefixOwner'
  BY <1>2, <1>3 DEF StartInv, Priced, PrefixOwner, Bounded, Bias, RawSize
<1>7. StartAgrees'
  <2>1. cache' # "none" => ((cache' = "private") <=> owner'.prefix)
    BY <1>2, <1>4
  <2> QED
    BY <1>2, <1>3, <2>1 DEF StartInv, StartAgrees
<1> QED
  BY <1>5, <1>6, <1>7 DEF StartInv

\* Every step of the process keeps the invariant of its start.
LEMMA StartInvNext == StartInv /\ [Next]_processVars => StartInv'
<1> SUFFICES ASSUME StartInv, [Next]_processVars PROVE StartInv'
  OBVIOUS
<1>1. CASE ConfigNext
  BY <1>1, StartPrices, StartBuilds, StartAttaches, StartCaches DEF ConfigNext
<1>2. CASE UNCHANGED configVars /\ (UNCHANGED activationVars \/ ActivationNext)
  <2>1. stage \in {"serving", "stopped"} =>
            environment' = environment /\ stage' \in {"serving", "stopped"}
    BY <1>2 DEF activationVars, ActivationNext, LoadMalformed, LoadInactive, LoadAgain,
         LoadRefused, LoadFails, LoadActivates, Loadable, Registers, Binds, EnvironmentChanges,
         FinalPass, Publish, ConfigureVerified, ConfigureRefused, ConfigureUnhooked,
         DecideScope, Stop
  <2> QED
    BY <1>2, <2>1, StartQuiet
<1> QED
  BY <1>1, <1>2 DEF Next, Activates, Starts, Serves, Decodes, Attends, processVars

\* What the pool hooks price and build, what the owner's constructor checks and
\* what the cache hook builds agree, whatever the sizes: the pools fit, the raw
\* pool has its rings, and the private cache is over an owner that keeps prefixes.
THEOREM StartsAgree == Spec => []StartAgrees
<1>1. Init => StartInv
  BY StartInit DEF Init
<1>2. StartInv => StartAgrees
  BY DEF StartInv
<1> QED
  BY <1>1, <1>2, StartInvNext, PTL DEF Spec

----------------------------------------------------------------------------
(* The graphs.                                                             *)

Lease(gen, slot, phase, count) == [gen |-> gen, slot |-> slot, phase |-> phase, seq |-> count]
IsLease(l) ==
    /\ l = Lease(l.gen, l.slot, l.phase, l.seq)
    /\ l.gen \in Nat \ {0} /\ l.seq \in Nat /\ l.slot # Reserved

WithPhase(l, phase) == [l EXCEPT !.phase = phase]
Advanced(l) == [l EXCEPT !.seq = @ + 1]

\* A lease is what its four fields are, and so is one that was updated.
LEMMA LeaseFields ==
    \A gen, slot, phase, count :
       LET l == Lease(gen, slot, phase, count)
       IN  l.gen = gen /\ l.slot = slot /\ l.phase = phase /\ l.seq = count
BY SMT DEF Lease

\* Updating a field leaves the other three.
LEMMA LeaseUpdates ==
    \A gen, slot, phase, count, other :
       /\ WithPhase(Lease(gen, slot, phase, count), other) = Lease(gen, slot, other, count)
       /\ Advanced(Lease(gen, slot, phase, count)) = Lease(gen, slot, phase, count + 1)
BY SMT DEF Lease, WithPhase, Advanced

\* The same of any lease, field by field.
LEMMA UpdatedLease ==
    ASSUME NEW l, IsLease(l), NEW phase
    PROVE  /\ IsLease(WithPhase(l, phase)) /\ WithPhase(l, phase).phase = phase
           /\ WithPhase(l, phase).gen = l.gen /\ WithPhase(l, phase).slot = l.slot
           /\ WithPhase(l, phase).seq = l.seq
           /\ IsLease(Advanced(l)) /\ Advanced(l).phase = l.phase
           /\ Advanced(l).gen = l.gen /\ Advanced(l).slot = l.slot
           /\ Advanced(l).seq = l.seq + 1
<1>1. WithPhase(l, phase) = Lease(l.gen, l.slot, phase, l.seq)
  BY LeaseUpdates DEF IsLease
<1>2. Advanced(l) = Lease(l.gen, l.slot, l.phase, l.seq + 1)
  BY LeaseUpdates DEF IsLease
<1> QED
  BY <1>1, <1>2, LeaseFields DEF IsLease

\* A row that has a lease does not look free.
LEMMA NotNoLease == \A l : IsLease(l) => l # NoLease
BY DEF IsLease, NoLease

LeasesTyped ==
    /\ issued \in Nat
    /\ leases = [r \in RequestRows |-> leases[r]]
    /\ \A r \in RequestRows : leases[r] = NoLease \/ IsLease(leases[r])

\* A batch that was loaded names living leases of the rows it names.
BatchLives ==
    step \in {"loaded", "replayed"} =>
       \A i \in DOMAIN graph_batch :
          /\ graph_batch[i].row \in Live
          /\ leases[graph_batch[i].row].gen = graph_batch[i].gen

\* A copy without an event is of a lease that is blocked for it.
UncoveredBlocked ==
    \A c \in submitted : c.event \in BOOLEAN /\ (~c.event => c.gen \in graph_failed)

GraphInv == LeasesTyped /\ BatchLives /\ UncoveredBlocked /\ WritebackHeld

\* The graphs begin with no lease, batch or copy.
LEMMA GraphInvInit == GraphInit => GraphInv
<1> SUFFICES ASSUME GraphInit PROVE GraphInv
  OBVIOUS
<1>1. LeasesTyped
  BY DEF GraphInit, LeasesTyped
<1>2. BatchLives /\ UncoveredBlocked /\ WritebackHeld
  BY DEF GraphInit, BatchLives, UncoveredBlocked, WritebackHeld
<1> QED
  BY <1>1, <1>2 DEF GraphInv

\* Captures and replays that leave leases, batch and copies alone, or drop some
\* of the copies.
LEMMA GraphQuiet ==
    ASSUME GraphInv, UNCHANGED <<leases, issued, graph_batch, graph_failed>>,
           submitted' \subseteq submitted,
           step' \in {"loaded", "replayed"} => step \in {"loaded", "replayed"}
    PROVE  GraphInv'
<1>1. LeasesTyped' /\ Live' = Live
  BY DEF GraphInv, LeasesTyped, Live
<1>2. BatchLives'
  BY <1>1 DEF GraphInv, BatchLives
<1>3. UncoveredBlocked'
  BY DEF GraphInv, UncoveredBlocked
<1>4. WritebackHeld'
  BY <1>1 DEF GraphInv, WritebackHeld
<1> QED
  BY <1>1, <1>2, <1>3, <1>4 DEF GraphInv

\* A prefill's lease is a new one, in a free row.
LEMMA GraphPrefill ==
    ASSUME GraphInv, NEW r \in RequestRows, Prefill(r)
    PROVE  GraphInv'
<1>1. PICK slot \in FreeSlots :
         leases' = [leases EXCEPT ![r] = Lease(issued', slot, "prefill", 0)]
  BY DEF Prefill, Lease
<1>2. issued' \in Nat \ {0}
  BY DEF Prefill, GraphInv, LeasesTyped
<1>3. IsLease(leases'[r])
  BY <1>1, <1>2, LeaseFields DEF IsLease, GraphInv, LeasesTyped, FreeSlots, SlotIds, Reserved
<1>4. \A q \in RequestRows \ {r} : leases'[q] = leases[q]
  BY <1>1 DEF GraphInv, LeasesTyped
<1>5. \A q \in Live : q \in Live' /\ leases'[q] = leases[q]
  BY <1>4 DEF Live, Prefill
<1>6. LeasesTyped'
  BY <1>1, <1>2, <1>3, <1>4 DEF GraphInv, LeasesTyped
<1>7. BatchLives' /\ UncoveredBlocked'
  BY DEF Prefill, AtRest, GraphInv, BatchLives, UncoveredBlocked
<1>8. WritebackHeld'
  <2>1. UNCHANGED <<submitted, graph_failed>>
    BY DEF Prefill
  <2> QED
    BY <1>5, <2>1 DEF GraphInv, WritebackHeld
<1> QED
  BY <1>6, <1>7, <1>8 DEF GraphInv

\* An admission changes the phase of one lease, which was not failed.
LEMMA GraphAdmitted ==
    ASSUME GraphInv, NEW r \in RequestRows, Admitted(r)
    PROVE  GraphInv'
<1>1. /\ leases' = [q \in RequestRows |-> leases'[q]]
      /\ leases'[r] = WithPhase(leases[r], "decode")
      /\ \A q \in RequestRows \ {r} : leases'[q] = leases[q]
  <2>1. leases = [q \in RequestRows |-> leases[q]]
    BY DEF GraphInv, LeasesTyped
  <2>2. leases' = [leases EXCEPT ![r].phase = "decode"]
    BY DEF Admitted
  <2> QED
    BY <2>1, <2>2, Zenon DEF WithPhase
<1>2. r \in Live /\ leases[r].phase = "prefill"
  BY DEF Admitted
<1>3. IsLease(leases[r])
  BY <1>2 DEF Live, GraphInv, LeasesTyped
<1>4. /\ IsLease(leases'[r]) /\ leases'[r] # NoLease
      /\ leases'[r].gen = leases[r].gen /\ leases'[r].slot = leases[r].slot
  BY <1>1, <1>3, UpdatedLease, NotNoLease
<1>5. LeasesTyped'
  BY <1>1, <1>4 DEF GraphInv, LeasesTyped, Admitted
<1>6. Live' = Live
  BY <1>1, <1>2, <1>4 DEF Live
<1>7. BatchLives' /\ UncoveredBlocked'
  BY DEF Admitted, AtRest, GraphInv, BatchLives, UncoveredBlocked
<1>8. WritebackHeld'
  <2>1. \A c \in submitted : \E q \in Live' : leases'[q].gen = c.gen /\ leases'[q].slot = c.slot
    BY <1>1, <1>4, <1>6 DEF GraphInv, WritebackHeld, Live
  <2>2. \A g \in graph_failed : \E q \in Live' : leases'[q].gen = g /\ leases'[q].phase = "failed"
    BY <1>1, <1>2, <1>6 DEF GraphInv, WritebackHeld, Live
  <2> QED
    BY <2>1, <2>2 DEF WritebackHeld, Admitted
<1> QED
  BY <1>5, <1>7, <1>8 DEF GraphInv

\* A release waits for whatever reads the slot, so that no copy is left of it.
LEMMA GraphEndLease ==
    ASSUME GraphInv, NEW r \in RequestRows, EndLease(r)
    PROVE  GraphInv'
<1> DEFINE gen == leases[r].gen
<1>1. \A c \in submitted : c.gen # gen
  BY DEF EndLease, Awaited, GraphInv, UncoveredBlocked
<1>2. /\ leases' = [q \in RequestRows |-> leases'[q]] /\ leases'[r] = NoLease
      /\ \A q \in RequestRows \ {r} : leases'[q] = leases[q]
  BY DEF EndLease, GraphInv, LeasesTyped
<1>3. LeasesTyped'
  BY <1>2 DEF EndLease, GraphInv, LeasesTyped
<1>4. \A q \in Live : leases[q].gen # gen => q \in Live' /\ leases'[q] = leases[q]
  BY <1>2 DEF Live
<1>5. graph_failed' = graph_failed \ {gen}
  BY DEF EndLease
<1>6. WritebackHeld'
  <2>1. \A c \in submitted : \E q \in Live' : leases'[q].gen = c.gen /\ leases'[q].slot = c.slot
    BY <1>1, <1>4 DEF GraphInv, WritebackHeld
  <2>2. \A g \in graph_failed' : \E q \in Live' : leases'[q].gen = g /\ leases'[q].phase = "failed"
    BY <1>4, <1>5 DEF GraphInv, WritebackHeld
  <2> QED
    BY <2>1, <2>2 DEF WritebackHeld, EndLease
<1>7. UncoveredBlocked'
  BY <1>1, <1>5 DEF UncoveredBlocked, EndLease, GraphInv
<1>8. BatchLives'
  BY DEF BatchLives, EndLease, AtRest
<1> QED
  BY <1>3, <1>6, <1>7, <1>8 DEF GraphInv

\* A batch that is loaded names living leases, and ends none.
LEMMA GraphLoadBatch ==
    ASSUME GraphInv, NEW B \in Batches, LoadBatch(B)
    PROVE  GraphInv'
<1>1. B \in [DOMAIN B -> RequestRows]
  BY DEF Batches
<1>2. CASE UNCHANGED <<leases, graph_batch, step>>
  <2>1. UNCHANGED <<leases, issued, graph_batch, graph_failed, submitted, step>>
    BY <1>2 DEF LoadBatch
  <2> QED
    BY <2>1, GraphQuiet
<1>3. CASE Prepare(B) /\ \A i \in DOMAIN B : Steppable(B[i])
  <2>1. /\ leases' = [q \in RequestRows |-> leases'[q]]
        /\ \A q \in RequestRows :
              leases'[q] = IF q \in ToSet(B) THEN Advanced(leases[q]) ELSE leases[q]
    <3>1. leases' = [q \in RequestRows |->
                       IF q \in ToSet(B) THEN [leases[q] EXCEPT !.seq = @ + 1] ELSE leases[q]]
      BY <1>3 DEF Prepare
    <3> QED
      BY <3>1, Zenon DEF Advanced
  <2>2. \A q \in ToSet(B) : q \in RequestRows /\ leases[q] # NoLease
    BY <1>1, <1>3 DEF ToSet, Steppable
  <2>3. \A q \in Live : IsLease(leases[q])
    BY DEF Live, GraphInv, LeasesTyped
  <2>4. \A q \in Live : /\ q \in Live' /\ IsLease(leases'[q])
                        /\ leases'[q].gen = leases[q].gen
                        /\ leases'[q].slot = leases[q].slot
                        /\ leases'[q].phase = leases[q].phase
    BY <2>1, <2>3, UpdatedLease, NotNoLease DEF Live
  <2>5. LeasesTyped'
    <3>1. \A q \in RequestRows : leases'[q] = NoLease \/ IsLease(leases'[q])
      BY <2>1, <2>2, <2>4 DEF Live
    <3> QED
      BY <2>1, <3>1 DEF LoadBatch, GraphInv, LeasesTyped
  <2>6. BatchLives'
    <3>1. DOMAIN graph_batch' = DOMAIN B
      BY <1>3 DEF Prepare
    <3>2. ASSUME NEW i \in DOMAIN B
          PROVE  graph_batch'[i].row = B[i] /\ graph_batch'[i].gen = leases[B[i]].gen
      BY <1>3 DEF Prepare
    <3>3. ASSUME NEW i \in DOMAIN B PROVE B[i] \in Live
      BY <1>1, <1>3 DEF Steppable, Live
    <3> QED
      BY <3>1, <3>2, <3>3, <2>4 DEF BatchLives
  <2>7. WritebackHeld'
    BY <2>4 DEF GraphInv, WritebackHeld, LoadBatch
  <2>8. UncoveredBlocked'
    BY DEF GraphInv, UncoveredBlocked, LoadBatch
  <2> QED
    BY <2>5, <2>6, <2>7, <2>8 DEF GraphInv
<1> QED
  BY <1>2, <1>3 DEF LoadBatch

\* The copies a finished or failed replay leaves are of the batch's leases.
LEMMA WritebacksLive ==
    ASSUME GraphInv, step \in {"loaded", "replayed"}, NEW event \in BOOLEAN,
           NEW c \in Writebacks(event)
    PROVE  /\ c.event = event
           /\ \E i \in DOMAIN graph_batch : c.gen = graph_batch[i].gen
           /\ \E r \in Live : leases[r].gen = c.gen /\ leases[r].slot = c.slot
BY DEF GraphInv, BatchLives, Writebacks, Closing

\* A replay that finished queues copies of living leases, with their events.
LEMMA GraphFinish ==
    ASSUME GraphInv, Finish
    PROVE  GraphInv'
<1>1. submitted' = submitted \cup Writebacks(TRUE)
  BY DEF Finish
<1>2. step \in {"loaded", "replayed"}
  BY DEF Finish
<1>3. LeasesTyped' /\ Live' = Live
  BY DEF Finish, GraphInv, LeasesTyped, Live
<1>4. UncoveredBlocked'
  BY <1>1, <1>2, WritebacksLive DEF Finish, GraphInv, UncoveredBlocked
<1>5. WritebackHeld'
  <2>1. \A c \in submitted' : \E q \in Live : leases[q].gen = c.gen /\ leases[q].slot = c.slot
    BY <1>1, <1>2, WritebacksLive DEF GraphInv, WritebackHeld
  <2> QED
    BY <1>3, <2>1 DEF Finish, GraphInv, WritebackHeld
<1>6. BatchLives'
  BY DEF Finish, BatchLives
<1> QED
  BY <1>3, <1>4, <1>5, <1>6 DEF GraphInv

\* A replay that failed blocks the leases whose copies nothing covers.
LEMMA GraphFailReplay ==
    ASSUME GraphInv, FailReplay
    PROVE  GraphInv'
<1> DEFINE gens == {graph_batch[i].gen : i \in DOMAIN graph_batch} \cap Gens
<1>1. /\ leases' = [q \in RequestRows |-> leases'[q]]
      /\ \A q \in RequestRows :
            leases'[q] = IF leases[q].gen \in gens THEN WithPhase(leases[q], "failed")
                         ELSE leases[q]
  <2>1. leases' = [q \in RequestRows |->
                     IF leases[q].gen \in gens THEN [leases[q] EXCEPT !.phase = "failed"]
                     ELSE leases[q]]
    BY Zenon DEF FailReplay
  <2> QED
    BY <2>1, Zenon DEF WithPhase
<1>2. PICK drained \in BOOLEAN, queued \in BOOLEAN :
         /\ submitted' = IF drained THEN {}
                         ELSE submitted \cup IF queued /\ step = "replayed"
                                               THEN Writebacks(FALSE) ELSE {}
         /\ graph_failed' = graph_failed \cup Blocked(gens, drained)
  BY Zenon DEF FailReplay
<1>3. \A q \in Live : IsLease(leases[q])
  BY DEF Live, GraphInv, LeasesTyped
<1>4. \A g \in gens : /\ g # 0 /\ \E q \in Live : leases[q].gen = g
                      /\ \E i \in DOMAIN graph_batch : g = graph_batch[i].gen
  BY <1>3 DEF Gens, IsLease
<1>5. \A i \in DOMAIN graph_batch : graph_batch[i].gen \in gens
  BY DEF FailReplay, GraphInv, BatchLives, Gens
<1> HIDE DEF gens
<1>6. \A q \in Live : /\ q \in Live' /\ IsLease(leases'[q])
                      /\ leases'[q].gen = leases[q].gen
                      /\ leases'[q].slot = leases[q].slot
                      /\ leases'[q].phase = IF leases[q].gen \in gens THEN "failed"
                                            ELSE leases[q].phase
  BY <1>1, <1>3, UpdatedLease, NotNoLease DEF Live
<1>7. LeasesTyped'
  <2>1. \A q \in RequestRows : leases[q] = NoLease => leases[q].gen \notin gens
    BY <1>4 DEF NoLease
  <2>2. \A q \in RequestRows : leases'[q] = NoLease \/ IsLease(leases'[q])
    BY <1>1, <1>6, <2>1 DEF Live
  <2> QED
    BY <1>1, <2>2 DEF FailReplay, GraphInv, LeasesTyped
<1>8. step \in {"loaded", "replayed"}
  BY DEF FailReplay
<1>9. \A c \in submitted' : c \in submitted \/ (c \in Writebacks(FALSE) /\ ~drained)
  BY <1>2
<1>10. WritebackHeld'
  <2>1. \A c \in submitted' : \E q \in Live : leases[q].gen = c.gen /\ leases[q].slot = c.slot
    BY <1>8, <1>9, WritebacksLive DEF GraphInv, WritebackHeld
  <2>2. \A c \in submitted' : \E q \in Live' : leases'[q].gen = c.gen /\ leases'[q].slot = c.slot
    BY <1>6, <2>1
  <2>3. \A g \in graph_failed' : g \in graph_failed \/ g \in gens
    BY <1>2 DEF Blocked
  <2>4. \A g \in graph_failed' : \E q \in Live' : leases'[q].gen = g /\ leases'[q].phase = "failed"
    BY <1>4, <1>6, <2>3 DEF GraphInv, WritebackHeld
  <2> QED
    BY <2>2, <2>4 DEF WritebackHeld
<1>11. UncoveredBlocked'
  <2>1. \A c \in Writebacks(FALSE) : c.event = FALSE /\ c.gen \in gens
    <3>1. ASSUME NEW c \in Writebacks(FALSE)
          PROVE  c.event = FALSE /\ \E i \in DOMAIN graph_batch : c.gen = graph_batch[i].gen
      BY <1>8, WritebacksLive
    <3> QED
      BY <1>5, <3>1
  <2>2. ~drained => gens \subseteq graph_failed'
    BY <1>2 DEF Blocked
  <2>3. graph_failed \subseteq graph_failed'
    BY <1>2
  <2> QED
    BY <1>9, <2>1, <2>2, <2>3 DEF GraphInv, UncoveredBlocked
<1>12. BatchLives'
  BY DEF FailReplay, BatchLives
<1> QED
  BY <1>7, <1>10, <1>11, <1>12 DEF GraphInv

\* Every step of the process keeps the invariant of its graphs.
LEMMA GraphInvNext == GraphInv /\ [Next]_processVars => GraphInv'
<1> SUFFICES ASSUME GraphInv, [Next]_processVars PROVE GraphInv'
  OBVIOUS
<1>1. CASE UNCHANGED graphVars
  BY <1>1, GraphQuiet DEF graphVars
<1>2. CASE GraphNext
  <2>1. ASSUME NEW n \in Sizes, CaptureBegin(n) PROVE GraphInv'
    <3>1. UNCHANGED <<leases, issued, graph_batch, graph_failed, submitted>>
      BY <2>1 DEF CaptureBegin
    <3>2. step' \in {"loaded", "replayed"} => step \in {"loaded", "replayed"}
      BY <2>1 DEF CaptureBegin, AtRest
    <3> QED
      BY <3>1, <3>2, GraphQuiet
  <2>2. CASE Warmup
    BY <2>2, GraphQuiet DEF Warmup
  <2>3. CASE CaptureEnd
    BY <2>3, GraphQuiet DEF CaptureEnd
  <2>4. ASSUME NEW r \in RequestRows, Prefill(r) \/ Admitted(r) \/ EndLease(r)
        PROVE  GraphInv'
    BY <2>4, GraphPrefill, GraphAdmitted, GraphEndLease
  <2>5. CASE WrittenBack
    <3>1. submitted' \subseteq submitted
      BY <2>5 DEF WrittenBack
    <3> QED
      BY <2>5, <3>1, GraphQuiet DEF WrittenBack
  <2>6. CASE Replay
    BY <2>6, GraphQuiet DEF Replay
  <2>7. CASE Finish
    BY <2>7, GraphFinish
  <2>8. CASE FailReplay
    BY <2>8, GraphFailReplay
  <2>9. ASSUME NEW B \in Batches, LoadBatch(B) PROVE GraphInv'
    BY <2>9, GraphLoadBatch
  <2> QED
    BY <1>2, <2>1, <2>2, <2>3, <2>4, <2>5, <2>6, <2>7, <2>8, <2>9 DEF GraphNext
<1>3. UNCHANGED graphVars \/ GraphNext
  BY DEF Next, Activates, Starts, Serves, Decodes, Attends, processVars
<1> QED
  BY <1>1, <1>2, <1>3

\* A writeback still on the copy stream is of a living lease that holds the
\* slot, whatever failed, and a lease blocked for it never decodes again.
THEOREM WritebacksHeld == Spec => []WritebackHeld
<1>1. Init => GraphInv
  BY GraphInvInit DEF Init
<1>2. GraphInv => WritebackHeld
  BY DEF GraphInv
<1> QED
  BY <1>1, <1>2, GraphInvNext, PTL DEF Spec

----------------------------------------------------------------------------
(* Whose ring a replay writes, and whose newest row.                       *)

\* A row's place holds what the row wrote, or what another row of that place did.
LEMMA PutThere ==
    ASSUME NEW map, NEW at, NEW rows, NEW writer, NEW i \in rows
    PROVE  /\ at[i] \in DOMAIN Put(map, at, rows, writer)
           /\ \E j \in rows : at[j] = at[i] /\ Put(map, at, rows, writer)[at[i]] = writer[j]
<1> DEFINE index(s) == CHOOSE j \in rows : at[j] = s
           There(s) == \E j \in rows : at[j] = s
<1>1. Put(map, at, rows, writer) =
         [s \in DOMAIN map \cup {at[j] : j \in rows} |->
             IF There(s) THEN writer[index(s)] ELSE map[s]]
  BY Zenon DEF Put
<1>2. index(at[i]) \in rows /\ at[index(at[i])] = at[i] /\ There(at[i])
  OBVIOUS
<1> HIDE DEF index, There
<1> QED
  BY <1>1, <1>2

\* Where no row writes, everything stays.
LEMMA PutElsewhere ==
    ASSUME NEW map, NEW at, NEW rows, NEW writer, NEW s, \A i \in rows : at[i] # s
    PROVE  /\ s \in DOMAIN Put(map, at, rows, writer) <=> s \in DOMAIN map
           /\ s \in DOMAIN map => Put(map, at, rows, writer)[s] = map[s]
<1> DEFINE index(t) == CHOOSE j \in rows : at[j] = t
           There(t) == \E j \in rows : at[j] = t
<1>1. Put(map, at, rows, writer) =
         [t \in DOMAIN map \cup {at[j] : j \in rows} |->
             IF There(t) THEN writer[index(t)] ELSE map[t]]
  BY Zenon DEF Put
<1>2. ~There(s) /\ s \notin {at[j] : j \in rows}
  OBVIOUS
<1> HIDE DEF index, There
<1> QED
  BY <1>1, <1>2

SlotsApart == \A q, r \in Live : leases[q].slot = leases[r].slot => q = r

\* A capture has no real row and stores where no lease has its ring.
Unreal(b) == b.real = 0 /\ \A i \in DOMAIN b.locs : b.locs[i] = Reserved

\* Nothing was decoded before the admission, nor is anything while capturing.
Fresh ==
    /\ \A r \in Live : leases[r].phase = "prefill" => leases[r].seq = 0
    /\ step = "capturing" => Unreal(static)

\* The batch that was loaded is the one the runner's buffers hold.
FedIsBatch ==
    step \in {"loaded", "replayed"} =>
       /\ DOMAIN fed = 1..Len(fed) /\ DOMAIN graph_batch = DOMAIN fed
       /\ \A i \in DOMAIN fed : graph_batch[i].row = fed[i]

StaticOwn ==
    step = "loaded" =>
       /\ static.real = Len(fed) /\ Len(fed) \in graphs /\ DOMAIN static.locs = DOMAIN fed
       /\ \A i \in DOMAIN fed :
             /\ leases[fed[i]].phase = "decode"
             /\ static.slots[i] = leases[fed[i]].slot
             /\ static.locs[i] = leases[fed[i]].slot
             /\ static.lens[i] = leases[fed[i]].seq

Awaits(r) == step = "loaded" /\ \E i \in DOMAIN fed : fed[i] = r

\* How many tokens of a lease a replay has stored.
Done(r) == IF Awaits(r) THEN leases[r].seq - 1 ELSE leases[r].seq

\* A ring holds its lease's last token, and the newest row its last block, but
\* for the rows a replay is awaited of.
RingsOwn ==
    /\ \A s \in DOMAIN ring \ {Reserved} : ring[s] # Captured
    /\ \A s \in DOMAIN newest : newest[s] # Captured
    /\ \A r \in Live : leases[r].phase = "decode" =>
          /\ leases[r].seq > 0 /\ ~Awaits(r) => Holds(ring, r)
          /\ Done(r) >= 4 => Holds(newest, r)

ReplayInv == SlotsApart /\ Fresh /\ FedIsBatch /\ StaticOwn /\ RingsOwn

\* The graphs begin with empty rings and buffers.
LEMMA ReplayInvInit == GraphInit => ReplayInv
<1> SUFFICES ASSUME GraphInit PROVE ReplayInv
  OBVIOUS
<1>1. Live = {} /\ step = "idle"
  BY DEF GraphInit, Live
<1>2. DOMAIN ring = {} /\ DOMAIN newest = {}
  BY DEF GraphInit
<1> QED
  BY <1>1, <1>2 DEF ReplayInv, SlotsApart, Fresh, FedIsBatch, StaticOwn, RingsOwn

\* Steps that touch neither leases, buffers nor rings.
LEMMA ReplayQuiet ==
    ASSUME ReplayInv, UNCHANGED <<leases, graph_batch, fed, ring, newest>>,
           \/ UNCHANGED <<step, static, graphs>>
           \/ step # "loaded" /\ step' \notin {"loaded", "replayed", "capturing"}
           \/ step # "loaded" /\ step' = "capturing" /\ Unreal(static')
    PROVE  ReplayInv'
<1>1. Live' = Live /\ SlotsApart'
  BY DEF Live, ReplayInv, SlotsApart
<1>2. Fresh'
  BY <1>1 DEF ReplayInv, Fresh, Unreal
<1>3. FedIsBatch'
  BY DEF ReplayInv, FedIsBatch
<1>4. StaticOwn'
  BY DEF ReplayInv, StaticOwn
<1>5. \A r : Awaits(r)' <=> Awaits(r)
  BY DEF Awaits
<1>6. RingsOwn'
  BY <1>1, <1>5 DEF ReplayInv, RingsOwn, Holds, Done
<1> QED
  BY <1>1, <1>2, <1>3, <1>4, <1>6 DEF ReplayInv

\* A lease begins in a slot nobody has.
LEMMA ReplayPrefill ==
    ASSUME GraphInv, ReplayInv, NEW r \in RequestRows, Prefill(r)
    PROVE  ReplayInv'
<1>1. PICK slot \in FreeSlots :
         leases' = [leases EXCEPT ![r] = Lease(issued', slot, "prefill", 0)]
  BY DEF Prefill, Lease
<1>2. /\ leases'[r] = Lease(issued', slot, "prefill", 0)
      /\ \A q \in RequestRows \ {r} : leases'[q] = leases[q]
  BY <1>1 DEF GraphInv, LeasesTyped
<1>3. /\ leases'[r].slot = slot /\ leases'[r].phase = "prefill" /\ leases'[r].seq = 0
  BY <1>2, LeaseFields
<1>4. UNCHANGED <<graph_batch, fed, ring, newest, static, step>> /\ step = "idle"
  BY DEF Prefill, AtRest
<1>5. \A q \in Live' : q = r \/ (q \in Live /\ leases'[q] = leases[q])
  BY <1>2 DEF Live
<1>6. SlotsApart'
  <2>1. \A q \in Live : leases[q].slot # slot
    BY DEF FreeSlots
  <2> QED
    BY <1>3, <1>5, <2>1 DEF ReplayInv, SlotsApart
<1>7. Fresh'
  BY <1>3, <1>4, <1>5 DEF ReplayInv, Fresh
<1>8. RingsOwn'
  BY <1>3, <1>4, <1>5 DEF ReplayInv, RingsOwn, Holds, Done, Awaits
<1> QED
  BY <1>4, <1>6, <1>7, <1>8 DEF ReplayInv, FedIsBatch, StaticOwn

\* A lease is admitted with nothing decoded, so that no ring is to hold it yet.
LEMMA ReplayAdmitted ==
    ASSUME GraphInv, ReplayInv, NEW r \in RequestRows, Admitted(r)
    PROVE  ReplayInv'
<1>1. /\ leases'[r] = WithPhase(leases[r], "decode")
      /\ \A q \in RequestRows \ {r} : leases'[q] = leases[q]
  <2>1. leases = [q \in RequestRows |-> leases[q]]
    BY DEF GraphInv, LeasesTyped
  <2>2. leases' = [leases EXCEPT ![r].phase = "decode"]
    BY DEF Admitted
  <2> QED
    BY <2>1, <2>2, Zenon DEF WithPhase
<1>2. r \in Live /\ leases[r].phase = "prefill" /\ IsLease(leases[r])
  BY DEF Admitted, Live, GraphInv, LeasesTyped
<1>3. leases'[r].slot = leases[r].slot /\ leases'[r].seq = 0 /\ leases'[r].phase = "decode"
  BY <1>1, <1>2, UpdatedLease DEF ReplayInv, Fresh
<1>4. UNCHANGED <<graph_batch, fed, ring, newest, static, step>> /\ step = "idle"
  BY DEF Admitted, AtRest
<1>5. \A q \in Live' : q = r \/ (q \in Live /\ leases'[q] = leases[q])
  BY <1>1 DEF Live
<1>6. SlotsApart'
  BY <1>2, <1>3, <1>5 DEF ReplayInv, SlotsApart
<1>7. Fresh'
  BY <1>3, <1>4, <1>5 DEF ReplayInv, Fresh
<1>8. RingsOwn'
  BY <1>3, <1>4, <1>5 DEF ReplayInv, RingsOwn, Holds, Done, Awaits
<1> QED
  BY <1>4, <1>6, <1>7, <1>8 DEF ReplayInv, FedIsBatch, StaticOwn

\* A lease that ends asks nothing more of its ring.
LEMMA ReplayEndLease ==
    ASSUME GraphInv, ReplayInv, NEW r \in RequestRows, EndLease(r)
    PROVE  ReplayInv'
<1>1. \A q \in Live' : q \in Live /\ leases'[q] = leases[q]
  BY DEF EndLease, Live, GraphInv, LeasesTyped
<1>2. UNCHANGED <<graph_batch, fed, ring, newest, static, step>> /\ step = "idle"
  BY DEF EndLease, AtRest
<1> QED
  BY <1>1, <1>2 DEF ReplayInv, SlotsApart, Fresh, FedIsBatch, StaticOwn, RingsOwn, Holds,
       Done, Awaits

\* What the preparation of a batch leaves of the living leases.
LEMMA PreparedLeases ==
    ASSUME GraphInv, NEW B, Prepare(B), \A i \in DOMAIN B : Steppable(B[i])
    PROVE  /\ Live' = Live
           /\ \A q \in Live : /\ leases'[q].gen = leases[q].gen
                              /\ leases'[q].slot = leases[q].slot
                              /\ leases'[q].phase = leases[q].phase
                              /\ q \notin ToSet(B) => leases'[q] = leases[q]
                              /\ q \in ToSet(B) => leases'[q].seq = leases[q].seq + 1
<1>1. \A q \in RequestRows :
         leases'[q] = IF q \in ToSet(B) THEN Advanced(leases[q]) ELSE leases[q]
  <2>1. leases' = [q \in RequestRows |->
                     IF q \in ToSet(B) THEN [leases[q] EXCEPT !.seq = @ + 1] ELSE leases[q]]
    BY DEF Prepare
  <2> QED
    BY <2>1, Zenon DEF Advanced
<1>2. \A q \in ToSet(B) : leases[q] # NoLease
  BY DEF ToSet, Steppable
<1>3. \A q \in Live : IsLease(leases[q])
  BY DEF Live, GraphInv, LeasesTyped
<1>4. \A q \in Live : q \in Live'
  BY <1>1, <1>3, UpdatedLease, NotNoLease DEF Live
<1>5. \A q \in Live' : q \in Live
  BY <1>1, <1>2 DEF Live
<1> QED
  BY <1>1, <1>3, <1>4, <1>5, UpdatedLease DEF Live

\* The rows of a batch are prepared, and only they await the replay.
LEMMA ReplayLoadBatch ==
    ASSUME GraphInv, ReplayInv, NEW B \in Batches, LoadBatch(B)
    PROVE  ReplayInv'
<1>1. CASE UNCHANGED <<leases, graph_batch, static, fed, step>>
  <2>1. UNCHANGED <<leases, graph_batch, static, fed, step, ring, newest, graphs>>
    BY <1>1 DEF LoadBatch
  <2> QED
    BY <2>1, ReplayQuiet
<1>2. CASE /\ Prepare(B) /\ fed' = B /\ step' = "loaded" /\ Len(B) \in graphs
           /\ \A i \in DOMAIN B : Steppable(B[i])
  <2>1. PICK n \in Sizes : B \in [1..n -> RequestRows]
    BY DEF Batches
  <2>2. DOMAIN B = 1..Len(B) /\ \A i \in DOMAIN B : B[i] \in RequestRows
    <3>1. n \in Nat /\ DOMAIN B = 1..n
      BY <2>1 DEF Sizes
    <3>2. B \in Seq(RequestRows)
      BY <2>1, <3>1
    <3> QED
      BY <2>1, <3>1, <3>2
  <2>3. \A i \in DOMAIN B : /\ B[i] \in Live /\ B[i] \in ToSet(B)
                            /\ leases[B[i]].phase = "decode"
    BY <1>2, <2>2 DEF Steppable, Live, ToSet
  <2>4. /\ Live' = Live
        /\ \A q \in Live : /\ leases'[q].gen = leases[q].gen
                           /\ leases'[q].slot = leases[q].slot
                           /\ leases'[q].phase = leases[q].phase
                           /\ q \notin ToSet(B) => leases'[q] = leases[q]
                           /\ q \in ToSet(B) => leases'[q].seq = leases[q].seq + 1
    BY <1>2, PreparedLeases
  <2>5. UNCHANGED <<ring, newest, graphs>> /\ step = "idle"
    BY DEF LoadBatch, AtRest
  <2>6. \A q \in Live : q \in ToSet(B) => leases[q].phase = "decode" /\ Awaits(q)'
    BY <1>2, <2>3 DEF ToSet, Awaits
  <2>7. SlotsApart'
    BY <2>4 DEF ReplayInv, SlotsApart
  <2>8. Fresh'
    BY <1>2, <2>4, <2>6 DEF ReplayInv, Fresh
  <2>9. FedIsBatch'
    BY <1>2, <2>2 DEF FedIsBatch, Prepare
  <2>10. StaticOwn'
    <3>1. static'.real = Len(B)
      BY <1>2 DEF Prepare
    <3>2. \A i \in DOMAIN B : static'.slots[i] = leases[B[i]].slot
      BY <1>2 DEF Prepare, StagedSlots
    <3>3. \A i \in DOMAIN B : static'.lens[i] = leases[B[i]].seq + 1
      BY <1>2 DEF Prepare
    <3>4. /\ DOMAIN static'.locs = DOMAIN B
          /\ \A i \in DOMAIN B : static'.locs[i] = leases[B[i]].slot
      BY <1>2 DEF Prepare, StagedSlots
    <3> QED
      BY <1>2, <2>3, <2>4, <2>5, <3>1, <3>2, <3>3, <3>4 DEF StaticOwn
  <2>11. RingsOwn'
    <3>1. \A q \in Live : ~Awaits(q) /\ leases[q].seq \in Nat
      BY <2>5 DEF Awaits, Live, GraphInv, LeasesTyped, IsLease
    <3>2. \A q \in Live : Done(q)' = Done(q)
      <4>1. \A q \in Live : Awaits(q)' <=> q \in ToSet(B)
        BY <1>2, <2>6 DEF Awaits, ToSet
      <4> QED
        BY <2>4, <3>1, <4>1 DEF Done
    <3>3. ASSUME NEW q \in Live, leases'[q].phase = "decode"
          PROVE  /\ (leases[q].seq > 0 /\ ~Awaits(q))' => Holds(ring, q)'
                 /\ Done(q)' >= 4 => Holds(newest, q)'
      BY <2>4, <2>5, <2>6, <3>1, <3>2, <3>3 DEF ReplayInv, RingsOwn, Holds
    <3> QED
      BY <2>4, <2>5, <3>3 DEF ReplayInv, RingsOwn
  <2> QED
    BY <2>7, <2>8, <2>9, <2>10, <2>11 DEF ReplayInv
<1> QED
  BY <1>1, <1>2 DEF LoadBatch

\* A replay stores the token of each row in the slot of the row's lease, and
\* closes its block there: the only row of the slot, the leases' being apart.
LEMMA ReplayReplay ==
    ASSUME GraphInv, ReplayInv, Replay
    PROVE  ReplayInv'
<1> DEFINE rows == DOMAIN fed
           writer == [i \in rows |-> leases[fed[i]].gen]
<1>1. step = "loaded" /\ step' = "replayed"
      /\ UNCHANGED <<leases, graph_batch, static, fed, graphs>>
  BY DEF Replay
<1>2. rows = 1..static.real /\ DOMAIN static.locs = rows
  BY <1>1 DEF ReplayInv, FedIsBatch, StaticOwn
<1>3. \A i \in rows :
         /\ fed[i] \in Live /\ static.slots[i] = leases[fed[i]].slot
         /\ static.locs[i] = leases[fed[i]].slot /\ static.lens[i] = leases[fed[i]].seq
         /\ writer[i] = leases[fed[i]].gen /\ writer[i] # Captured
  <2>1. \A i \in rows : fed[i] \in Live
    BY <1>1, <1>2 DEF ReplayInv, FedIsBatch, GraphInv, BatchLives
  <2>2. \A i \in rows : /\ static.slots[i] = leases[fed[i]].slot
                        /\ static.locs[i] = leases[fed[i]].slot
                        /\ static.lens[i] = leases[fed[i]].seq
    BY <1>1 DEF ReplayInv, StaticOwn
  <2>3. \A q \in Live : leases[q].gen # Captured
    BY DEF Live, GraphInv, LeasesTyped, IsLease, Captured
  <2> QED
    BY <2>1, <2>2, <2>3
<1>4. /\ ring' = Put(ring, static.locs, rows, writer)
      /\ newest' = Put(newest, static.slots, ClosedRows, writer)
  BY <1>2 DEF Replay, Forward
<1>5. ClosedRows \subseteq rows
  BY <1>2 DEF ClosedRows
<1> HIDE DEF rows, writer
<1>6. ASSUME NEW i \in rows
      PROVE  Holds(ring, fed[i])' /\ (i \in ClosedRows => Holds(newest, fed[i])')
  <2>1. \A j \in rows : leases[fed[j]].slot = leases[fed[i]].slot => fed[j] = fed[i]
    BY <1>3 DEF ReplayInv, SlotsApart
  <2>2. Holds(ring, fed[i])'
    BY <1>1, <1>3, <1>4, <2>1, PutThere DEF Holds
  <2>3. i \in ClosedRows => Holds(newest, fed[i])'
    BY <1>1, <1>3, <1>4, <1>5, <2>1, PutThere DEF Holds
  <2> QED
    BY <2>2, <2>3
<1>7. ASSUME NEW r \in Live, leases[r].phase = "decode"
      PROVE  /\ leases[r].seq > 0 => Holds(ring, r)'
             /\ leases[r].seq >= 4 => Holds(newest, r)'
  <2>1. /\ leases[r].seq > 0 /\ ~Awaits(r) => Holds(ring, r)
        /\ Done(r) >= 4 => Holds(newest, r)
    BY <1>7 DEF ReplayInv, RingsOwn
  <2>2. leases[r].seq \in Nat
    BY DEF Live, GraphInv, LeasesTyped, IsLease
  <2>3. CASE \E i \in rows : fed[i] = r
    <3>1. PICK i \in rows : fed[i] = r
      BY <2>3
    <3>2. Holds(ring, r)' /\ (i \in ClosedRows => Holds(newest, r)')
      BY <1>1, <1>6, <3>1 DEF Holds
    <3>3. CASE i \in ClosedRows
      BY <3>2, <3>3
    <3>4. CASE i \notin ClosedRows
      <4>1. (leases[r].seq % 4) # 0
        BY <1>2, <1>3, <3>1, <3>4 DEF ClosedRows
      <4>2. Awaits(r)
        BY <1>1, <3>1 DEF Awaits, rows
      <4>3. leases[r].seq >= 4 => Holds(newest, r)
        BY <2>1, <2>2, <4>1, <4>2 DEF Done
      <4>4. \A j \in ClosedRows : static.slots[j] # leases[r].slot
        <5>1. \A j \in rows : static.slots[j] = leases[r].slot => fed[j] = r
          BY <1>3 DEF ReplayInv, SlotsApart
        <5>2. \A j \in ClosedRows : (static.lens[j] % 4) = 0
          BY DEF ClosedRows
        <5> QED
          BY <1>3, <1>5, <4>1, <5>1, <5>2
      <4> QED
        BY <1>1, <1>4, <3>2, <4>3, <4>4, PutElsewhere DEF Holds
    <3> QED
      BY <3>3, <3>4
  <2>4. CASE \A i \in rows : fed[i] # r
    <3>1. ~Awaits(r) /\ Done(r) = leases[r].seq
      BY <2>4 DEF Awaits, Done, rows
    <3>2. \A j \in rows : static.slots[j] # leases[r].slot /\ static.locs[j] # leases[r].slot
      BY <1>3, <2>4 DEF ReplayInv, SlotsApart
    <3>3. leases[r].seq > 0 => Holds(ring, r)'
      BY <1>1, <1>4, <2>1, <3>1, <3>2, PutElsewhere DEF Holds
    <3>4. leases[r].seq >= 4 => Holds(newest, r)'
      BY <1>1, <1>4, <1>5, <2>1, <3>1, <3>2, PutElsewhere DEF Holds
    <3> QED
      BY <3>3, <3>4
  <2> QED
    BY <2>3, <2>4
<1>8. \A s \in DOMAIN ring' \ {Reserved} : ring'[s] # Captured
  <2> TAKE s \in DOMAIN ring' \ {Reserved}
  <2>1. CASE \E i \in rows : static.locs[i] = s
    BY <1>3, <1>4, <2>1, PutThere
  <2>2. CASE \A i \in rows : static.locs[i] # s
    BY <1>4, <2>2, PutElsewhere DEF ReplayInv, RingsOwn
  <2> QED
    BY <2>1, <2>2
<1>9. \A s \in DOMAIN newest' : newest'[s] # Captured
  <2> TAKE s \in DOMAIN newest'
  <2>1. CASE \E i \in ClosedRows : static.slots[i] = s
    BY <1>3, <1>4, <1>5, <2>1, PutThere
  <2>2. CASE \A i \in ClosedRows : static.slots[i] # s
    BY <1>4, <2>2, PutElsewhere DEF ReplayInv, RingsOwn
  <2> QED
    BY <2>1, <2>2
<1>10. RingsOwn'
  <2>1. Live' = Live /\ \A r : ~Awaits(r)'
    BY <1>1 DEF Live, Awaits
  <2> QED
    BY <1>1, <1>7, <1>8, <1>9, <2>1 DEF RingsOwn, Done
<1>11. SlotsApart' /\ Fresh' /\ FedIsBatch' /\ StaticOwn'
  BY <1>1 DEF ReplayInv, SlotsApart, Fresh, FedIsBatch, StaticOwn, Live
<1> QED
  BY <1>10, <1>11 DEF ReplayInv

\* A capture's forwards have no real row and store in the reserved one.
LEMMA ReplayWarmup ==
    ASSUME GraphInv, ReplayInv, Warmup
    PROVE  ReplayInv'
<1> DEFINE writer == [i \in DOMAIN static.locs |-> Captured]
<1>1. step = "capturing" /\ step' = "warm" /\ Unreal(static)
  BY DEF Warmup, ReplayInv, Fresh
<1>2. /\ ring' = Put(ring, static.locs, DOMAIN static.locs, writer)
      /\ newest' = Put(newest, static.slots, ClosedRows, writer)
  BY DEF Warmup, Forward
<1>3. ClosedRows = {}
  BY <1>1 DEF ClosedRows, Unreal
<1> HIDE DEF writer
<1>4. \A s : s # Reserved => /\ s \in DOMAIN ring' <=> s \in DOMAIN ring
                             /\ s \in DOMAIN ring => ring'[s] = ring[s]
  BY <1>1, <1>2, PutElsewhere DEF Unreal
<1>5. \A s : /\ s \in DOMAIN newest' <=> s \in DOMAIN newest
             /\ s \in DOMAIN newest => newest'[s] = newest[s]
  BY <1>2, <1>3, PutElsewhere
<1>6. UNCHANGED <<leases, graph_batch, fed, static>> /\ Live' = Live
  BY DEF Warmup, Live
<1>7. \A r \in Live : leases[r].slot # Reserved
  BY DEF Live, GraphInv, LeasesTyped, IsLease
<1>8. \A r \in Live : /\ Holds(ring, r) => Holds(ring, r)'
                      /\ Holds(newest, r) => Holds(newest, r)'
  BY <1>4, <1>5, <1>6, <1>7 DEF Holds
<1>9. \A r : ~Awaits(r) /\ ~Awaits(r)'
  BY <1>1 DEF Awaits
<1>10. RingsOwn'
  BY <1>4, <1>5, <1>6, <1>8, <1>9 DEF ReplayInv, RingsOwn, Done
<1> QED
  BY <1>1, <1>6, <1>10 DEF ReplayInv, SlotsApart, Fresh, FedIsBatch, StaticOwn

\* The leases of a replay that failed decode no more, whether or not it stored.
LEMMA ReplayFailReplay ==
    ASSUME GraphInv, ReplayInv, FailReplay
    PROVE  ReplayInv'
<1> DEFINE gens == {graph_batch[i].gen : i \in DOMAIN graph_batch} \cap Gens
<1>1. \A q \in RequestRows :
         leases'[q] = IF leases[q].gen \in gens THEN WithPhase(leases[q], "failed")
                      ELSE leases[q]
  <2>1. leases' = [q \in RequestRows |->
                     IF leases[q].gen \in gens THEN [leases[q] EXCEPT !.phase = "failed"]
                     ELSE leases[q]]
    BY Zenon DEF FailReplay
  <2> QED
    BY <2>1, Zenon DEF WithPhase
<1>2. \A q \in Live : IsLease(leases[q])
  BY DEF Live, GraphInv, LeasesTyped
<1>3. \A g \in gens : g # 0
  BY <1>2 DEF Gens, IsLease
<1>4. \A i \in DOMAIN fed : fed[i] \in Live /\ leases[fed[i]].gen \in gens
  BY DEF FailReplay, GraphInv, BatchLives, Gens, ReplayInv, FedIsBatch
<1> HIDE DEF gens
<1>5. \A q \in Live' : q \in Live
  BY <1>1, <1>3 DEF Live, NoLease
<1>6. \A q \in Live : /\ leases'[q].slot = leases[q].slot
                      /\ leases[q].gen \in gens => leases'[q].phase = "failed"
                      /\ leases[q].gen \notin gens => leases'[q] = leases[q]
  BY <1>1, <1>2, UpdatedLease DEF Live
<1>7. step' = "idle" /\ UNCHANGED <<ring, newest>>
  BY DEF FailReplay
<1>8. SlotsApart'
  BY <1>5, <1>6 DEF ReplayInv, SlotsApart
<1>9. Fresh'
  BY <1>5, <1>6, <1>7 DEF ReplayInv, Fresh
<1>10. RingsOwn'
  <2>1. \A q \in Live' : leases'[q].phase = "decode" =>
           ~Awaits(q) /\ ~Awaits(q)' /\ q \in Live /\ leases'[q] = leases[q]
    BY <1>4, <1>5, <1>6, <1>7 DEF Awaits
  <2> QED
    BY <1>7, <2>1 DEF ReplayInv, RingsOwn, Holds, Done
<1> QED
  BY <1>7, <1>8, <1>9, <1>10 DEF ReplayInv, FedIsBatch, StaticOwn

\* Every step of the process keeps the invariant of its replays.
LEMMA ReplayInvNext == GraphInv /\ ReplayInv /\ [Next]_processVars => ReplayInv'
<1> SUFFICES ASSUME GraphInv, ReplayInv, [Next]_processVars PROVE ReplayInv'
  OBVIOUS
<1>1. CASE UNCHANGED graphVars
  BY <1>1, ReplayQuiet DEF graphVars
<1>2. CASE GraphNext
  <2>1. ASSUME NEW n \in Sizes, CaptureBegin(n) PROVE ReplayInv'
    <3>1. UNCHANGED <<leases, graph_batch, fed, ring, newest, graphs>> /\ step = "idle"
      BY <2>1 DEF CaptureBegin, AtRest
    <3>2. UNCHANGED <<step, static>> \/ (step' = "capturing" /\ static' = Zeroed(n))
      BY <2>1 DEF CaptureBegin
    <3>3. Unreal(Zeroed(n))
      BY DEF Zeroed, Unreal
    <3> QED
      BY <3>1, <3>2, <3>3, ReplayQuiet
  <2>2. CASE Warmup
    BY <2>2, ReplayWarmup
  <2>3. CASE CaptureEnd
    <3>1. UNCHANGED <<leases, graph_batch, fed, ring, newest>> /\ step = "warm" /\ step' = "idle"
      BY <2>3 DEF CaptureEnd
    <3> QED
      BY <3>1, ReplayQuiet
  <2>4. ASSUME NEW r \in RequestRows, Prefill(r) \/ Admitted(r) \/ EndLease(r)
        PROVE  ReplayInv'
    BY <2>4, ReplayPrefill, ReplayAdmitted, ReplayEndLease
  <2>5. CASE WrittenBack
    <3>1. UNCHANGED <<leases, graph_batch, fed, ring, newest, step, static, graphs>>
      BY <2>5 DEF WrittenBack
    <3> QED
      BY <3>1, ReplayQuiet
  <2>6. CASE Replay
    BY <2>6, ReplayReplay
  <2>7. CASE Finish
    <3>1. UNCHANGED <<leases, fed, ring, newest>> /\ step = "replayed" /\ step' = "idle"
      BY <2>7 DEF Finish
    <3> QED
      BY <3>1 DEF ReplayInv, SlotsApart, Fresh, FedIsBatch, StaticOwn, RingsOwn, Holds,
           Done, Awaits, Live
  <2>8. CASE FailReplay
    BY <2>8, ReplayFailReplay
  <2>9. ASSUME NEW B \in Batches, LoadBatch(B) PROVE ReplayInv'
    BY <2>9, ReplayLoadBatch
  <2> QED
    BY <1>2, <2>1, <2>2, <2>3, <2>4, <2>5, <2>6, <2>7, <2>8, <2>9 DEF GraphNext
<1>3. UNCHANGED graphVars \/ GraphNext
  BY DEF Next, Activates, Starts, Serves, Decodes, Attends, processVars
<1> QED
  BY <1>1, <1>2, <1>3

\* While a batch is prepared the static buffers name exactly its leases, and no
\* ring or newest row ever holds what a capture or another lease wrote.
THEOREM ReplaysOwn == Spec => []ReplayOwn
<1>1. Init => GraphInv /\ ReplayInv
  BY GraphInvInit, ReplayInvInit DEF Init
<1>2. ReplayInv => ReplayOwn
  BY DEF ReplayInv, StaticOwn, RingsOwn, Done, Awaits, ReplayOwn
<1> QED
  BY <1>1, <1>2, GraphInvNext, ReplayInvNext, PTL DEF Spec

----------------------------------------------------------------------------
(* The owner of phase 1.                                                   *)

SingleTypes ==
    /\ holder \in Rids \cup {Nobody}
    /\ pages = [r \in Rids |-> pages[r]]
    /\ \E S : copies \in Seq(S)

\* What is offloaded is in a claimed slab with an owner.
OffloadedOwned == offloaded => claimed /\ holder # Nobody

\* A release that awaits the flush left nothing behind but grouped pages.
PendingIdle ==
    pending_release => /\ group /\ forward = NoForward /\ ~offloaded
                       /\ copies = <<>> /\ compute = <<>> /\ pages[holder] = "grouped"

SingleInv == SingleTypes /\ OffloadedOwned /\ PendingIdle /\ OneOwner

\* The owner begins with nothing queued and no page held.
LEMMA SingleInvInit == SingleInit => SingleInv
<1> SUFFICES ASSUME SingleInit PROVE SingleInv
  OBVIOUS
<1>1. SingleTypes
  <2>1. copies \in Seq({})
    BY DEF SingleInit
  <2> QED
    BY <2>1 DEF SingleInit, SingleTypes
<1> QED
  BY <1>1 DEF SingleInit, SingleInv, OffloadedOwned, PendingIdle, OneOwner

\* A request begins when nobody owns the slab: nothing is queued for it.
LEMMA SingleBeginPrefill ==
    ASSUME SingleInv, NEW r \in Rids, NEW n, BeginPrefill(r, n)
    PROVE  SingleInv'
<1>1. holder = Nobody /\ ~group /\ ~crashed
  BY DEF BeginPrefill, Idle, Loops
<1>2. copies = <<>> /\ compute = <<>> /\ ~offloaded /\ ~pending_release
  BY <1>1 DEF SingleInv, OneOwner, OffloadedOwned, PendingIdle
<1>3. UNCHANGED <<copies, compute, offloaded, pending_release>>
  BY DEF BeginPrefill, Crash, storageVars, streamVars
<1>4. holder' \in Rids \cup {Nobody} /\ (~crashed' => holder' = r)
  BY <1>1 DEF BeginPrefill, Crash, leaseVars
<1>5. pages' = [pages EXCEPT ![r] = "held"]
  BY DEF BeginPrefill
<1>6. \A q \in Rids : pages[q] = "none"
  BY <1>1, SingleAssumption DEF SingleInv, OneOwner, Nobody
<1>7. SingleTypes'
  BY <1>3, <1>4, <1>5 DEF SingleInv, SingleTypes
<1>8. OneOwner'
  <2>1. \A q \in Rids : pages'[q] # "none" => q = r
    BY <1>5, <1>6 DEF SingleInv, SingleTypes
  <2> QED
    BY <1>2, <1>3, <1>4, <2>1 DEF OneOwner
<1> QED
  BY <1>2, <1>3, <1>7, <1>8 DEF SingleInv, OffloadedOwned, PendingIdle

\* The owner's own forwards begin outside of a free group.
LEMMA SingleBegins ==
    ASSUME SingleInv, BeginDecode \/ \E n \in 1..2 : BeginChunk(n)
    PROVE  SingleInv'
<1>1. holder # Nobody /\ ~group /\ ~crashed
  BY DEF BeginDecode, BeginChunk, Idle, Loops
<1>2. ~pending_release /\ UNCHANGED <<pending_release, pages, group>>
  BY <1>1 DEF SingleInv, PendingIdle, BeginDecode, BeginChunk, releaseVars
<1>3. UNCHANGED <<holder, generation, copies, compute>>
  BY DEF BeginDecode, BeginChunk, Crash, Handoff, leaseVars, streamVars
<1>4. (claimed' /\ (offloaded' => claimed')) \/ UNCHANGED <<claimed, offloaded>>
  BY DEF BeginDecode, BeginChunk, Crash, Handoff, storageVars
<1>5. SingleTypes'
  BY <1>2, <1>3 DEF SingleInv, SingleTypes
<1>6. OffloadedOwned'
  BY <1>1, <1>3, <1>4 DEF SingleInv, OffloadedOwned
<1>7. OneOwner'
  <2>1. Me' = Me
    BY <1>3 DEF Me
  <2> QED
    BY <1>1, <1>2, <1>3, <1>4, <2>1 DEF SingleInv, OneOwner
<1> QED
  BY <1>2, <1>5, <1>6, <1>7 DEF SingleInv, PendingIdle

\* What the layers of a forward queue is the owner's, whose slab is claimed.
LEMMA SingleLayers ==
    ASSUME SingleInv, StoreLayer \/ SelectLayer \/ EndExtend
    PROVE  SingleInv'
<1>1. UNCHANGED <<holder, generation, claimed, offloaded, pending_release, group, pages,
                  crashed>>
  BY DEF StoreLayer, SelectLayer, EndExtend, leaseVars, storageVars, releaseVars, faultVars
<1>2. Me' = Me
  BY <1>1 DEF Me
<1>3. \/ UNCHANGED <<copies, compute>>
      \/ offloaded /\ copies' = copies
      \/ offloaded /\ \E l, b : copies' = Append(copies, Store(l, b))
  BY DEF StoreLayer, SelectLayer, EndExtend, streamVars
<1>4. SingleTypes' /\ \A i \in DOMAIN copies' : copies'[i].by = Me
  <2>1. CASE copies' = copies
    BY <1>1, <2>1 DEF SingleInv, SingleTypes, OneOwner
  <2>2. ASSUME NEW l, NEW b, copies' = Append(copies, Store(l, b))
        PROVE  SingleTypes' /\ \A i \in DOMAIN copies' : copies'[i].by = Me
    <3>1. PICK S : copies \in Seq(S)
      BY DEF SingleInv, SingleTypes
    <3>2. Store(l, b).by = Me
      BY DEF Store
    <3> DEFINE s == Store(l, b)
    <3> HIDE DEF s
    <3>3. copies \in Seq(S \cup {s})
      BY <3>1
    <3>4. /\ copies' \in Seq(S \cup {s}) /\ DOMAIN copies' = 1..(Len(copies) + 1)
          /\ \A i \in 1..Len(copies) : copies'[i] = copies[i]
          /\ copies'[Len(copies) + 1] = s
      BY <2>2, <3>3, AppendProperties DEF s
    <3>5. DOMAIN copies = 1..Len(copies) /\ Len(copies) \in Nat
      BY <3>1
    <3>6. \A i \in DOMAIN copies' : copies'[i].by = Me
      BY <3>2, <3>4, <3>5 DEF s, SingleInv, OneOwner
    <3> QED
      BY <1>1, <3>4, <3>6 DEF SingleInv, SingleTypes
  <2> QED
    BY <1>3, <2>1, <2>2
<1>5. PendingIdle'
  <2>1. pending_release => forward = NoForward
    BY DEF SingleInv, PendingIdle
  <2>2. ~pending_release
    BY <2>1 DEF StoreLayer, SelectLayer, EndExtend, NoForward
  <2> QED
    BY <1>1, <2>2 DEF PendingIdle
<1>6. OneOwner'
  BY <1>1, <1>2, <1>3, <1>4 DEF SingleInv, OneOwner, OffloadedOwned
<1> QED
  BY <1>1, <1>4, <1>5, <1>6 DEF SingleInv, OffloadedOwned

\* The streams only take from their queues.
LEMMA SingleStreams ==
    ASSUME SingleInv, ComputeRuns \/ CopyRuns
    PROVE  SingleInv'
<1>1. UNCHANGED <<holder, generation, claimed, offloaded, pending_release, group, pages,
                  crashed, forward>>
  BY DEF ComputeRuns, CopyRuns, leaseVars, storageVars, releaseVars, faultVars, batchVars
<1>2. Me' = Me
  BY <1>1 DEF Me
<1>3. ~pending_release /\ holder # Nobody /\ claimed
  BY DEF ComputeRuns, Runnable, CopyRuns, SingleInv, PendingIdle, OneOwner
<1>4. SingleTypes' /\ \A i \in DOMAIN copies' : copies'[i].by = Me
  <2>1. CASE copies' = copies
    BY <1>1, <2>1 DEF SingleInv, SingleTypes, OneOwner
  <2>2. CASE copies # <<>> /\ copies' = Tail(copies)
    <3>1. PICK S : copies \in Seq(S)
      BY DEF SingleInv, SingleTypes
    <3>2. copies' \in Seq(S) /\ \A i \in DOMAIN copies' : \E j \in DOMAIN copies :
             copies'[i] = copies[j]
      <4>1. /\ Tail(copies) \in Seq(S) /\ Len(Tail(copies)) = Len(copies) - 1
            /\ \A i \in 1..Len(Tail(copies)) : Tail(copies)[i] = copies[i + 1]
        BY <2>2, <3>1, HeadTailProperties
      <4> QED
        BY <2>2, <3>1, <4>1
    <3> QED
      BY <1>1, <3>2 DEF SingleInv, SingleTypes, OneOwner
  <2> QED
    BY <2>1, <2>2 DEF ComputeRuns, CopyRuns
<1>5. OneOwner'
  BY <1>1, <1>2, <1>3, <1>4 DEF SingleInv, OneOwner
<1> QED
  BY <1>1, <1>3, <1>4, <1>5 DEF SingleInv, OffloadedOwned, PendingIdle

\* A release waits for both streams, and frees the owner when its pages are.
LEMMA SingleRelease ==
    ASSUME SingleInv, ReleaseOwner
    PROVE  SingleInv'
<1>1. /\ holder \in Rids /\ ~crashed /\ forward = NoForward
      /\ copies = <<>> /\ compute = <<>>
  BY DEF ReleaseOwner, Idle, Loops, Drained, SingleInv, SingleTypes
<1>2. UNCHANGED <<copies, compute, crashed, forward, group>> /\ ~offloaded'
  BY DEF ReleaseOwner, streamVars, faultVars, batchVars
<1>3. pages' = [pages EXCEPT ![holder] = IF group THEN "grouped" ELSE "none"]
  BY DEF ReleaseOwner
<1>4. \/ group /\ pending_release' /\ holder' = holder
      \/ ~group /\ ~pending_release' /\ holder' = Nobody
  BY DEF ReleaseOwner, AfterRelease, Committed
<1>5. \A q \in Rids : q # holder => pages[q] = "none"
  BY <1>1 DEF SingleInv, OneOwner
<1>6. /\ pages' = [q \in Rids |-> pages'[q]]
      /\ pages'[holder] = IF group THEN "grouped" ELSE "none"
      /\ \A q \in Rids : q # holder => pages'[q] = "none"
  BY <1>1, <1>3, <1>5 DEF SingleInv, SingleTypes
<1>7. SingleTypes'
  BY <1>1, <1>2, <1>4, <1>6 DEF SingleInv, SingleTypes
<1>8. OneOwner'
  BY <1>1, <1>2, <1>4, <1>6 DEF OneOwner
<1>9. PendingIdle'
  BY <1>1, <1>2, <1>4, <1>6 DEF PendingIdle
<1> QED
  BY <1>2, <1>7, <1>8, <1>9 DEF SingleInv, OffloadedOwned

\* The flush gives the pages back before anybody else may own the slab.
LEMMA SingleCloseGroup ==
    ASSUME SingleInv, CloseGroup
    PROVE  SingleInv'
<1>1. UNCHANGED <<copies, compute, claimed, offloaded, generation, crashed>> /\ ~crashed
  BY DEF CloseGroup, Idle, Loops, streamVars, storageVars, faultVars
<1>2. pages' = [r \in Rids |-> IF pages[r] = "grouped" THEN "none" ELSE pages[r]]
  BY DEF CloseGroup
<1>3. ~pending_release'
  BY DEF CloseGroup, Committed
<1>4. CASE pending_release
  <2>1. holder' = Nobody /\ copies = <<>> /\ compute = <<>> /\ ~offloaded
    BY <1>4 DEF CloseGroup, Committed, SingleInv, PendingIdle
  <2>2. \A q \in Rids : pages[q] # "none" => pages[q] = "grouped"
    BY <1>1, <1>4 DEF SingleInv, OneOwner, PendingIdle
  <2>3. \A q \in Rids : pages'[q] = "none"
    BY <1>2, <2>2
  <2> QED
    BY <1>1, <1>2, <1>3, <2>1, <2>3
       DEF SingleInv, SingleTypes, OffloadedOwned, PendingIdle, OneOwner
<1>5. CASE ~pending_release
  <2>1. holder' = holder /\ Me' = Me
    BY <1>1, <1>5 DEF CloseGroup, Me
  <2>2. \A q \in Rids : pages'[q] # "none" => pages[q] # "none"
    BY <1>2
  <2> QED
    BY <1>1, <1>2, <1>3, <2>1, <2>2
       DEF SingleInv, SingleTypes, OffloadedOwned, PendingIdle, OneOwner
<1> QED
  BY <1>4, <1>5

\* Every step of the process keeps the invariant of its owner.
LEMMA SingleInvNext == SingleInv /\ [Next]_processVars => SingleInv'
<1> SUFFICES ASSUME SingleInv, [Next]_processVars PROVE SingleInv'
  OBVIOUS
<1>1. CASE UNCHANGED singleVars
  <2>1. UNCHANGED <<holder, generation, claimed, offloaded, pending_release, group, pages,
                    crashed, forward, copies, compute>>
    BY <1>1 DEF singleVars, leaseVars, storageVars, streamVars, batchVars, releaseVars,
                faultVars
  <2> QED
    BY <2>1 DEF SingleInv, SingleTypes, OffloadedOwned, PendingIdle, OneOwner, Me
<1>2. CASE OpenGroup
  <2>1. /\ UNCHANGED <<holder, generation, claimed, offloaded, pending_release, pages,
                       crashed, forward, copies, compute>>
        /\ group'
    BY <1>2 DEF OpenGroup, leaseVars, storageVars, streamVars, batchVars, faultVars
  <2> QED
    BY <2>1 DEF SingleInv, SingleTypes, OffloadedOwned, PendingIdle, OneOwner, Me
<1>3. CASE SingleNext
  BY <1>2, <1>3, SingleBeginPrefill, SingleBegins, SingleLayers, SingleStreams,
     SingleRelease, SingleCloseGroup DEF SingleNext
<1>4. UNCHANGED singleVars \/ SingleNext
  BY DEF Next, Activates, Starts, Serves, Decodes, Attends, processVars
<1> QED
  BY <1>1, <1>3, <1>4

\* The slab and the pages of phase 1 have one owner at a time: what either
\* stream still does is the present owner's, and a request whose pages are not
\* all back with the allocator is that owner.
THEOREM OneOwnerAlways == Spec => []OneOwner
<1>1. Init => SingleInv
  BY SingleInvInit DEF Init
<1>2. SingleInv => OneOwner
  BY DEF SingleInv
<1> QED
  BY <1>1, <1>2, SingleInvNext, PTL DEF Spec

----------------------------------------------------------------------------
(* The storage of phase 1 under its forwards.                              *)

DecodeForwards == [kind : {"decode"}, layer : 1..Layers, stored : BOOLEAN]
Writers == (Rids \cup {Nobody}) \X Nat
Stores == [op : {"store"}, layer : 1..Layers, block : Blocks, by : Writers]
Selects == [op : {"select"}, layer : 1..Layers, latest : Int]
States == [generation : Nat, latest : Int]

StorageForms ==
    /\ seq \in Nat /\ generation \in Nat /\ holder \in Rids \cup {Nobody}
    /\ buffers \in [1..Layers -> {"raw", "ring"}]
    /\ slab \in [1..Layers -> [Blocks -> Writers]]
    /\ states \in Seq(States)

QueueForms ==
    /\ forward \in {NoForward, [kind |-> "extend"]} \cup DecodeForwards
    /\ compute \in Seq(Stores \cup Selects)
    /\ copies \in Seq(Stores)

\* The raw buffers are whole unless they were released or the handoff failed.
RawWhole ==
    /\ ~failed /\ ~raw_released => \A l \in 1..Layers : buffers[l] = "raw"
    /\ ~failed /\ ~releasing /\ ~offloaded /\ holder # Nobody => ~raw_released

\* Nothing is queued but for a request that moved, whose storage is complete.
MovedWhole ==
    IF offloaded
      THEN /\ ~failed /\ claimed /\ holder # Nobody /\ seq \in 1..MaxSeq
           /\ \A l \in 1..Layers : buffers[l] = "ring"
           /\ Len(states) = Layers
      ELSE compute = <<>> /\ copies = <<>>

\* A forward runs for an owner that may decode.
ForwardOwned == forward # NoForward => ~failed /\ ~releasing /\ holder # Nobody

\* How many tokens of a layer are stored already, while the forward comes to it.
Ahead(l) ==
    forward.kind = "decode" /\ (l > forward.layer \/ (l = forward.layer /\ ~forward.stored))
StoredTo(l) == IF Ahead(l) THEN seq - 1 ELSE seq

\* The newest block of a layer is the last complete one of its tokens.
LatestComplete ==
    offloaded => \A l \in 1..Layers : states[l].latest = (StoredTo(l) \div 4) - 1

\* Each complete block is on the host, or its copy is queued.
HostOrQueued ==
    offloaded => \A l \in 1..Layers : \A b \in 0..states[l].latest :
       slab[l][b] = Me \/ \E i \in DOMAIN copies : copies[i].layer = l /\ copies[i].block = b

\* A selection awaits no block that its layer has not come to.
SelectsKnown ==
    \A i \in DOMAIN compute : compute[i].op = "select" =>
       compute[i].latest <= states[compute[i].layer].latest

ForwardInv ==
    /\ StorageForms /\ QueueForms /\ RawWhole /\ MovedWhole /\ ForwardOwned
    /\ LatestComplete /\ HostOrQueued /\ SelectsKnown

\* Nothing is stored, queued or running at first.
LEMMA ForwardInit == SingleInit => ForwardInv
<1> SUFFICES ASSUME SingleInit PROVE ForwardInv
  OBVIOUS
<1>1. <<Nobody, 0>> \in Writers
  BY DEF Writers
<1>2. StorageForms
  BY <1>1 DEF SingleInit, StorageForms
<1>3. QueueForms
  BY DEF SingleInit, QueueForms
<1>4. RawWhole /\ MovedWhole /\ ForwardOwned /\ LatestComplete /\ HostOrQueued /\ SelectsKnown
  BY DEF SingleInit, RawWhole, MovedWhole, ForwardOwned, LatestComplete, HostOrQueued,
         SelectsKnown
<1> QED
  BY <1>2, <1>3, <1>4 DEF ForwardInv

\* Steps that leave storage, streams and forward alone, and crashes.
LEMMA ForwardQuiet ==
    ASSUME ForwardInv,
           UNCHANGED <<generation, storageVars, streamVars, batchVars>>,
           offloaded \/ forward # NoForward => holder' = holder,
           holder' \in Rids \cup {Nobody},
           UNCHANGED failed,
           releasing' => releasing,
           forward # NoForward => ~releasing',
           ~failed /\ ~releasing' /\ ~offloaded /\ holder' # Nobody => ~raw_released
    PROVE  ForwardInv'
<1>1. UNCHANGED <<generation, offloaded, raw_released, buffers, states, claimed, slab, compute,
                  copies, seq, forward>>
  BY DEF storageVars, streamVars, batchVars
<1>2. StorageForms' /\ QueueForms'
  BY <1>1 DEF ForwardInv, StorageForms, QueueForms
<1>3. RawWhole' /\ MovedWhole' /\ ForwardOwned'
  BY <1>1 DEF ForwardInv, RawWhole, MovedWhole, ForwardOwned
<1>4. SelectsKnown'
  BY <1>1 DEF ForwardInv, SelectsKnown
<1>5. LatestComplete'
  BY <1>1 DEF ForwardInv, LatestComplete, StoredTo, Ahead
<1>6. HostOrQueued'
  BY <1>1 DEF ForwardInv, HostOrQueued, Me
<1> QED
  BY <1>2, <1>3, <1>4, <1>5, <1>6 DEF ForwardInv

\* A request that begins finds its raw buffers whole.
LEMMA ForwardBeginPrefill ==
    ASSUME ForwardInv, SingleInv, NEW r \in Rids, NEW n \in Nat, BeginPrefill(r, n)
    PROVE  ForwardInv'
<1>1. holder = Nobody /\ forward = NoForward /\ ~offloaded
  BY DEF BeginPrefill, Idle, SingleInv, OffloadedOwned
<1>2. CASE Crash
  <2>1. /\ UNCHANGED <<generation, storageVars, streamVars, batchVars, holder, failed>>
        /\ releasing' = releasing
    BY <1>2 DEF Crash, leaseVars, BeginPrefill
  <2> QED
    BY <1>1, <2>1, ForwardQuiet DEF ForwardInv, StorageForms
<1>3. CASE ~(failed \/ releasing \/ r \in seen)
  <2>1. /\ ~failed /\ ~releasing /\ holder' = r /\ generation' = generation + 1
        /\ seq' = n /\ forward' = [kind |-> "extend"]
        /\ UNCHANGED <<offloaded, states, claimed, slab, compute, copies, failed, releasing>>
        /\ ~raw_released'
        /\ buffers' = IF raw_released THEN [l \in 1..Layers |-> "raw"] ELSE buffers
    BY <1>3 DEF BeginPrefill, Restored, streamVars, faultVars
  <2>2. compute = <<>> /\ copies = <<>>
    BY <1>1 DEF ForwardInv, MovedWhole
  <2>4. StorageForms'
    BY <2>1 DEF ForwardInv, StorageForms
  <2>3. QueueForms'
    BY <2>1 DEF ForwardInv, QueueForms
  <2>5. RawWhole'
    BY <2>1 DEF ForwardInv, RawWhole, StorageForms
  <2>6. MovedWhole' /\ LatestComplete' /\ HostOrQueued'
    BY <1>1, <2>1, <2>2 DEF MovedWhole, LatestComplete, HostOrQueued
  <2>7. ForwardOwned'
    BY <2>1, SingleAssumption DEF ForwardOwned, Nobody
  <2>8. SelectsKnown'
    BY <2>1, <2>2 DEF SelectsKnown
  <2> QED
    BY <2>3, <2>4, <2>5, <2>6, <2>7, <2>8 DEF ForwardInv
<1> QED
  BY <1>2, <1>3 DEF BeginPrefill

\* A further chunk of a prompt that has not moved.
LEMMA ForwardBeginChunk ==
    ASSUME ForwardInv, SingleInv, NEW n \in Nat, BeginChunk(n)
    PROVE  ForwardInv'
<1>1. holder # Nobody /\ forward = NoForward /\ ~offloaded
  BY DEF BeginChunk, Idle
<1>2. CASE Crash
  <2>1. /\ UNCHANGED <<generation, storageVars, streamVars, batchVars, holder, failed>>
        /\ releasing' = releasing
    BY <1>2 DEF Crash, leaseVars, BeginChunk, releaseVars
  <2> QED
    BY <1>1, <2>1, ForwardQuiet DEF ForwardInv, RawWhole, StorageForms
<1>3. CASE ~(failed \/ releasing)
  <2>1. /\ ~failed /\ ~releasing /\ seq' = seq + n /\ forward' = [kind |-> "extend"]
        /\ UNCHANGED <<holder, generation, offloaded, raw_released, buffers, states, claimed,
                       slab, compute, copies, failed, releasing>>
    BY <1>3 DEF BeginChunk, leaseVars, storageVars, streamVars, faultVars, releaseVars
  <2>2. compute = <<>> /\ copies = <<>>
    BY <1>1 DEF ForwardInv, MovedWhole
  <2>3. QueueForms'
    BY <2>1 DEF ForwardInv, QueueForms
  <2>4. StorageForms'
    BY <2>1 DEF ForwardInv, StorageForms
  <2>5. RawWhole' /\ ForwardOwned'
    BY <1>1, <2>1 DEF ForwardInv, RawWhole, ForwardOwned
  <2>6. MovedWhole' /\ LatestComplete' /\ HostOrQueued'
    BY <1>1, <2>1, <2>2 DEF MovedWhole, LatestComplete, HostOrQueued
  <2>7. SelectsKnown'
    BY <2>1, <2>2 DEF SelectsKnown
  <2> QED
    BY <2>3, <2>4, <2>5, <2>6, <2>7 DEF ForwardInv
<1> QED
  BY <1>2, <1>3 DEF BeginChunk

\* The first decode moves every layer to the rings and the slab, or fails.
LEMMA ForwardHandoff ==
    ASSUME ForwardInv, SingleInv, BeginDecode, ~offloaded, NEW k \in 0..Layers, Handoff(k),
           Decodable, ~(seq < MinPrompt), UNCHANGED leaseVars, UNCHANGED releaseVars
    PROVE  ForwardInv'
<1>1. /\ holder # Nobody /\ forward = NoForward /\ ~failed /\ ~releasing
      /\ seq + 1 <= MaxSeq /\ MinPrompt <= seq
  BY SingleAssumption DEF BeginDecode, Idle, Decodable, ForwardInv, StorageForms
<1>2. /\ UNCHANGED <<holder, generation, releasing, compute, copies>>
      /\ claimed' = TRUE
  BY DEF leaseVars, releaseVars, Handoff
<1>3. compute = <<>> /\ copies = <<>> /\ Me' = Me /\ Me \in Writers
  BY <1>2 DEF ForwardInv, MovedWhole, StorageForms, Me, Writers
<1>4. Layers \in Nat \ {0} /\ MaxSeq \in Nat /\ MinPrompt \in Nat /\ MinPrompt >= 4
  BY SingleAssumption
<1> DEFINE blocks == seq \div 4
<1>5. seq \in Nat /\ generation \in Nat /\ blocks \in Nat
  BY DEF ForwardInv, StorageForms
<1>6. /\ slab' = [l \in 1..Layers |-> [b \in Blocks |->
                    IF l <= k /\ b < blocks THEN Me ELSE slab[l][b]]]
      /\ states' = [l \in 1..k |-> [generation |-> generation, latest |-> blocks - 1]]
      /\ buffers' = [l \in 1..Layers |-> IF l <= k THEN "ring" ELSE buffers[l]]
  BY DEF Handoff, HandedOver, MadeStates
<1>7. slab' \in [1..Layers -> [Blocks -> Writers]]
  BY <1>3, <1>6 DEF ForwardInv, StorageForms
<1>8. states' \in Seq(States) /\ Len(states') = k
  <2>1. k \in Nat /\ blocks - 1 \in Int
    BY <1>4, <1>5
  <2>2. [generation |-> generation, latest |-> blocks - 1] \in States
    BY <1>5, <2>1 DEF States
  <2>3. states' \in [1..k -> States]
    BY <1>6, <2>2
  <2> QED
    BY <2>1, <2>3
<1>9. buffers' \in [1..Layers -> {"raw", "ring"}]
  BY <1>6 DEF ForwardInv, StorageForms
<1>10. CASE k = Layers
  <2>1. /\ raw_released' /\ offloaded' /\ forward' = Decoding /\ seq' = seq + 1
        /\ UNCHANGED failed
    BY <1>10 DEF Handoff, faultVars
  <2>2. StorageForms'
    BY <1>2, <1>5, <1>7, <1>8, <1>9, <2>1 DEF ForwardInv, StorageForms
  <2>3. Decoding \in DecodeForwards /\ Decoding # NoForward /\ Decoding.kind = "decode"
        /\ Decoding.layer = 1 /\ Decoding.stored = FALSE
    BY <1>4 DEF Decoding, DecodeForwards, NoForward
  <2>4. QueueForms'
    BY <1>2, <2>1, <2>3 DEF ForwardInv, QueueForms
  <2>5. RawWhole' /\ ForwardOwned'
    BY <1>1, <1>2, <2>1 DEF RawWhole, ForwardOwned
  <2>6. MovedWhole'
    BY <1>1, <1>2, <1>4, <1>5, <1>6, <1>8, <1>10, <2>1 DEF MovedWhole
  <2>7. \A l \in 1..Layers : states'[l].latest = blocks - 1
    BY <1>4, <1>6, <1>10
  <2>8. LatestComplete'
    <3>1. ASSUME NEW l \in 1..Layers PROVE StoredTo(l)' = seq
      <4>1. Ahead(l)'
        BY <2>1, <2>3 DEF Ahead
      <4> QED
        BY <1>5, <2>1, <4>1 DEF StoredTo
    <3> QED
      BY <2>7, <3>1 DEF LatestComplete
  <2>9. HostOrQueued'
    <3>1. ASSUME NEW l \in 1..Layers, NEW b \in 0..(blocks - 1)
          PROVE  slab'[l][b] = Me
      <4>1. b \in Blocks /\ b < blocks
        BY <1>1, <1>4, <1>5 DEF Blocks
      <4> QED
        BY <1>4, <1>6, <1>10, <4>1
    <3> QED
      BY <1>3, <2>7, <3>1 DEF HostOrQueued
  <2>10. SelectsKnown'
    BY <1>2, <1>3 DEF SelectsKnown
  <2> QED
    BY <2>2, <2>4, <2>5, <2>6, <2>8, <2>9, <2>10 DEF ForwardInv
<1>11. CASE k # Layers
  <2>1. failed' /\ UNCHANGED <<raw_released, offloaded, seq, forward>>
    BY <1>11 DEF Handoff, batchVars
  <2>2. StorageForms' /\ QueueForms'
    BY <1>2, <1>7, <1>8, <1>9, <2>1 DEF ForwardInv, StorageForms, QueueForms
  <2>3. RawWhole' /\ ForwardOwned'
    BY <1>1, <2>1 DEF RawWhole, ForwardOwned
  <2>4. MovedWhole' /\ LatestComplete' /\ HostOrQueued' /\ SelectsKnown'
    BY <1>2, <1>3, <2>1 DEF MovedWhole, LatestComplete, HostOrQueued, SelectsKnown
  <2> QED
    BY <2>2, <2>3, <2>4 DEF ForwardInv
<1> QED
  BY <1>10, <1>11

\* A token begins on raw buffers, or where the request moved to.
LEMMA ForwardBeginDecode ==
    ASSUME ForwardInv, SingleInv, BeginDecode
    PROVE  ForwardInv'
<1>1. holder # Nobody /\ forward = NoForward /\ seq + 1 <= MaxSeq
  BY DEF BeginDecode, Idle
<1>2. CASE ~Decodable \/ seq < MinPrompt
  <2>1. /\ UNCHANGED <<generation, storageVars, streamVars, batchVars, holder, failed>>
        /\ releasing' = releasing
    BY <1>2 DEF Crash, leaseVars, BeginDecode, releaseVars
  <2> QED
    BY <1>1, <2>1, ForwardQuiet DEF ForwardInv, RawWhole, StorageForms
<1>3. CASE Decodable /\ Offload /\ ~offloaded /\ ~(seq < MinPrompt)
  <2>1. /\ \E k \in 0..Layers : Handoff(k)
        /\ UNCHANGED leaseVars /\ UNCHANGED releaseVars
    BY <1>3 DEF BeginDecode
  <2> QED
    BY <1>3, <2>1, ForwardHandoff
<1>4. CASE Decodable /\ ~(Offload /\ ~offloaded) /\ ~(seq < MinPrompt)
  <2>1. /\ forward' = Decoding /\ seq' = seq + 1 /\ ~failed /\ ~releasing
        /\ UNCHANGED <<holder, generation, offloaded, raw_released, buffers, states, claimed,
                       slab, compute, copies, failed, releasing>>
    BY <1>4 DEF BeginDecode, Decodable, leaseVars, storageVars, streamVars, faultVars,
                releaseVars
  <2>2. Decoding \in DecodeForwards /\ Decoding.kind = "decode"
        /\ Decoding.layer = 1 /\ Decoding.stored = FALSE
    BY SingleAssumption DEF Decoding, DecodeForwards
  <2>3. seq \in Nat /\ MaxSeq \in Nat
    BY SingleAssumption DEF ForwardInv, StorageForms
  <2>4. StorageForms' /\ QueueForms'
    BY <2>1, <2>2, <2>3 DEF ForwardInv, StorageForms, QueueForms
  <2>5. RawWhole' /\ ForwardOwned'
    BY <1>1, <2>1 DEF ForwardInv, RawWhole, ForwardOwned
  <2>6. MovedWhole'
    BY <1>1, <2>1, <2>3 DEF ForwardInv, MovedWhole
  <2>7. LatestComplete'
    <3>1. ASSUME NEW l \in 1..Layers PROVE StoredTo(l)' = StoredTo(l)
      <4>1. Ahead(l)' /\ ~Ahead(l)
        BY <1>1, <2>1, <2>2 DEF Ahead, NoForward
      <4> QED
        BY <2>1, <2>3, <4>1 DEF StoredTo
    <3> QED
      BY <2>1, <3>1 DEF ForwardInv, LatestComplete
  <2>8. HostOrQueued' /\ SelectsKnown'
    BY <2>1 DEF ForwardInv, HostOrQueued, SelectsKnown, Me
  <2> QED
    BY <2>4, <2>5, <2>6, <2>7, <2>8 DEF ForwardInv
<1> QED
  BY <1>2, <1>3, <1>4

\* A layer that completes a block queues it, and no other layer notices.
LEMMA ForwardStoreLayer ==
    ASSUME ForwardInv, SingleInv, StoreLayer
    PROVE  ForwardInv'
<1>1. /\ forward.kind = "decode" /\ forward.stored = FALSE
      /\ forward \in DecodeForwards /\ forward # NoForward
  BY DEF StoreLayer, ForwardInv, QueueForms, NoForward, DecodeForwards
<1> DEFINE l0 == forward.layer
           block == seq \div 4 - 1
<1>2. l0 \in 1..Layers /\ Layers \in Nat \ {0} /\ MaxSeq \in Nat
  BY <1>1, SingleAssumption DEF DecodeForwards
<1>3. /\ forward' = [forward EXCEPT !.stored = TRUE]
      /\ UNCHANGED <<holder, generation, offloaded, raw_released, buffers, claimed, slab, seq,
                     releasing, failed>>
  BY DEF StoreLayer, leaseVars, releaseVars, faultVars
<1>4. /\ forward' \in DecodeForwards /\ forward'.kind = "decode" /\ forward'.layer = l0
      /\ forward'.stored = TRUE
  BY <1>1, <1>3 DEF DecodeForwards
<1>5. seq \in Nat /\ Me' = Me /\ Me \in Writers
  BY <1>3 DEF ForwardInv, StorageForms, Me, Writers
<1>6. \A l \in 1..Layers : StoredTo(l)' = IF l = l0 THEN seq ELSE StoredTo(l)
  <2>1. \A l \in 1..Layers : Ahead(l)' <=> l > l0
    <3>1. forward'.stored
      BY <1>4, Zenon
    <3> QED
      BY <1>4, <3>1 DEF Ahead
  <2>2. \A l \in 1..Layers : Ahead(l) <=> l > l0 \/ l = l0
    <3>1. ~forward.stored
      BY <1>1, Zenon
    <3> QED
      BY <1>1, <3>1 DEF Ahead
  <2> QED
    BY <1>2, <1>3, <2>1, <2>2 DEF StoredTo
<1>7. StoredTo(l0) = seq - 1
  BY <1>1, <1>2 DEF StoredTo, Ahead
<1>8. RawWhole' /\ ForwardOwned'
  <2>1. ~failed /\ ~releasing /\ holder # Nobody
    BY <1>1 DEF ForwardInv, ForwardOwned
  <2> QED
    BY <1>3, <2>1 DEF ForwardInv, RawWhole, ForwardOwned
<1>9. CASE ~offloaded \/ seq % 4 # 0
  <2>1. UNCHANGED <<states, compute, copies>>
    BY <1>9 DEF StoreLayer
  <2>2. StorageForms' /\ QueueForms' /\ MovedWhole'
    BY <1>3, <1>4, <2>1 DEF ForwardInv, StorageForms, QueueForms, MovedWhole
  <2>3. LatestComplete'
    <3>1. CASE offloaded
      <4>1. (seq - 1) \div 4 = seq \div 4
        BY <1>5, <1>9, <3>1
      <4> QED
        BY <1>3, <1>6, <1>7, <2>1, <4>1 DEF ForwardInv, LatestComplete
    <3> QED
      BY <1>3, <3>1 DEF LatestComplete
  <2>4. HostOrQueued' /\ SelectsKnown'
    BY <1>3, <1>5, <2>1 DEF ForwardInv, HostOrQueued, SelectsKnown
  <2> QED
    BY <1>8, <2>2, <2>3, <2>4 DEF ForwardInv
<1>10. CASE offloaded /\ seq % 4 = 0
  <2>1. /\ states' = [states EXCEPT ![l0].latest = block]
        /\ compute' = Append(compute, Store(l0, block))
        /\ copies' = Append(copies, Store(l0, block))
    BY <1>10 DEF StoreLayer
  <2>2. /\ Len(states) = Layers /\ states \in Seq(States) /\ ~failed /\ claimed
        /\ holder # Nobody /\ seq \in 1..MaxSeq
    BY <1>10 DEF ForwardInv, StorageForms, MovedWhole
  <2>3. block \in Blocks /\ block \in Nat /\ (seq - 1) \div 4 = block
    BY <1>2, <1>5, <1>10, <2>2 DEF Blocks
  <2>4. states \in [1..Layers -> States]
    BY <2>2
  <2>5. /\ states' \in [1..Layers -> States]
        /\ \A l \in 1..Layers : states'[l].latest = IF l = l0 THEN block ELSE states[l].latest
    <3> DEFINE stored == [states[l0] EXCEPT !.latest = block]
    <3>1. states[l0] \in States
      BY <1>2, <2>4
    <3>2. block \in Int
      BY <2>3
    <3>3. stored \in States /\ stored.latest = block
      BY <3>1, <3>2 DEF States
    <3>4. states' = [states EXCEPT ![l0] = stored]
      BY <2>1
    <3> HIDE DEF stored
    <3> QED
      BY <1>2, <2>4, <3>3, <3>4
  <2>6. states' \in Seq(States) /\ Len(states') = Layers
    BY <1>2, <2>5
  <2>7. \A l \in 1..Layers : states[l].latest = (StoredTo(l) \div 4) - 1
    BY <1>10 DEF ForwardInv, LatestComplete
  <2>8. LatestComplete'
    BY <1>3, <1>6, <2>5, <2>7 DEF LatestComplete
  <2>9. states[l0].latest = block - 1
    BY <1>2, <1>7, <2>3, <2>7
  <2>10. Store(l0, block) \in Stores
    BY <1>2, <1>5, <2>3 DEF Store, Stores
  <2>11. Store(l0, block).layer = l0 /\ Store(l0, block).block = block
         /\ Store(l0, block).op # "select"
    BY DEF Store
  <2> DEFINE s == Store(l0, block)
  <2> HIDE DEF s
  <2>12. copies \in Seq(Stores) /\ compute \in Seq(Stores \cup Selects)
    BY DEF ForwardInv, QueueForms
  <2>13. /\ copies' \in Seq(Stores) /\ DOMAIN copies' = 1..(Len(copies) + 1)
         /\ \A i \in 1..Len(copies) : copies'[i] = copies[i]
         /\ copies'[Len(copies) + 1] = s
    BY <2>1, <2>10, <2>12, AppendProperties DEF s
  <2>14. /\ compute' \in Seq(Stores \cup Selects) /\ DOMAIN compute' = 1..(Len(compute) + 1)
         /\ \A i \in 1..Len(compute) : compute'[i] = compute[i]
         /\ compute'[Len(compute) + 1] = s
    <3>1. s \in Stores \cup Selects
      BY <2>10 DEF s
    <3> QED
      BY <2>1, <2>12, <3>1, AppendProperties DEF s
  <2>15. /\ DOMAIN copies = 1..Len(copies) /\ Len(copies) \in Nat
         /\ DOMAIN compute = 1..Len(compute) /\ Len(compute) \in Nat
    BY <2>12
  <2>16. StorageForms' /\ QueueForms'
    BY <1>3, <1>4, <2>6, <2>13, <2>14 DEF ForwardInv, StorageForms, QueueForms
  <2>17. MovedWhole'
    BY <1>3, <1>10, <2>2, <2>6 DEF ForwardInv, MovedWhole
  <2>18. HostOrQueued'
    <3>1. ASSUME NEW l \in 1..Layers, NEW b \in 0..states'[l].latest
          PROVE  \/ slab[l][b] = Me
                 \/ \E i \in DOMAIN copies' : copies'[i].layer = l /\ copies'[i].block = b
      <4>1. CASE l = l0 /\ b = block
        <5>1. Len(copies) + 1 \in DOMAIN copies' /\ copies'[Len(copies) + 1] = s
          BY <2>13, <2>15
        <5> QED
          BY <2>11, <4>1, <5>1 DEF s
      <4>2. CASE ~(l = l0 /\ b = block)
        <5>1. states[l].latest \in Int /\ states[l0].latest \in Int
          BY <1>2, <2>4 DEF States
        <5>2. b \in 0..states[l].latest
          BY <2>3, <2>5, <2>9, <4>2, <5>1
        <5>3. \/ slab[l][b] = Me
              \/ \E i \in DOMAIN copies : copies[i].layer = l /\ copies[i].block = b
          BY <1>10, <5>2 DEF ForwardInv, HostOrQueued
        <5>4. \A i \in DOMAIN copies : i \in DOMAIN copies' /\ copies'[i] = copies[i]
          BY <2>13, <2>15
        <5> QED
          BY <5>3, <5>4
      <4> QED
        BY <4>1, <4>2
    <3> QED
      BY <1>3, <1>5, <3>1 DEF HostOrQueued
  <2>19. SelectsKnown'
    <3>1. ASSUME NEW i \in DOMAIN compute', compute'[i].op = "select"
          PROVE  compute'[i].latest <= states'[compute'[i].layer].latest
      <4>1. i \in DOMAIN compute /\ compute'[i] = compute[i]
        BY <2>11, <2>14, <2>15, <3>1 DEF s
      <4>2. compute[i].latest <= states[compute[i].layer].latest
        BY <3>1, <4>1 DEF ForwardInv, SelectsKnown
      <4>3. compute[i] \in Selects
        BY <2>12, <3>1, <4>1 DEF Stores
      <4>4. compute[i].layer \in 1..Layers /\ compute[i].latest \in Int
        BY <4>3 DEF Selects
      <4>5. states[compute[i].layer].latest \in Int
        BY <2>4, <4>4 DEF States
      <4>6. states'[compute[i].layer].latest >= states[compute[i].layer].latest
        BY <2>3, <2>5, <2>9, <4>4, <4>5
      <4> QED
        BY <2>3, <2>5, <4>1, <4>2, <4>4, <4>5, <4>6
    <3> QED
      BY <3>1 DEF SelectsKnown
  <2> QED
    BY <1>8, <2>8, <2>16, <2>17, <2>18, <2>19 DEF ForwardInv
<1> QED
  BY <1>9, <1>10

\* A selection is queued for the newest block its layer has.
LEMMA ForwardSelectLayer ==
    ASSUME ForwardInv, SelectLayer
    PROVE  ForwardInv'
<1>1. /\ forward.kind = "decode" /\ forward.stored
      /\ forward \in DecodeForwards /\ forward # NoForward
  BY DEF SelectLayer, ForwardInv, QueueForms, NoForward, DecodeForwards
<1> DEFINE l0 == forward.layer
<1>2. l0 \in 1..Layers /\ Layers \in Nat \ {0}
  BY <1>1, SingleAssumption DEF DecodeForwards
<1>3. /\ forward' = IF l0 = Layers THEN NoForward
                    ELSE [forward EXCEPT !.layer = l0 + 1, !.stored = FALSE]
      /\ compute' = IF offloaded THEN Append(compute, Select(l0)) ELSE compute
      /\ UNCHANGED <<holder, generation, offloaded, raw_released, buffers, states, claimed,
                     slab, copies, seq, releasing, failed>>
  BY DEF SelectLayer, leaseVars, storageVars, releaseVars, faultVars
<1>4. \/ l0 = Layers /\ forward' = NoForward
      \/ /\ l0 + 1 \in 1..Layers /\ l0 # Layers
         /\ forward' \in DecodeForwards /\ forward'.kind = "decode"
         /\ forward'.layer = l0 + 1 /\ ~forward'.stored
  <2>1. CASE l0 # Layers
    <3>1. l0 + 1 \in 1..Layers
      BY <1>2, <2>1
    <3>2. forward' = [kind |-> forward.kind, layer |-> l0 + 1, stored |-> FALSE]
      BY <1>1, <1>3, <2>1 DEF DecodeForwards
    <3> QED
      BY <1>1, <2>1, <3>1, <3>2 DEF DecodeForwards
  <2> QED
    BY <1>3, <2>1
<1>5. \A l \in 1..Layers : Ahead(l)' <=> Ahead(l)
  <2>1. \A l \in 1..Layers : Ahead(l) <=> l > l0
    BY <1>1 DEF Ahead
  <2>2. CASE l0 = Layers /\ forward' = NoForward
    BY <1>2, <2>1, <2>2 DEF Ahead, NoForward
  <2>3. CASE ~(l0 = Layers /\ forward' = NoForward)
    BY <1>2, <1>4, <2>1, <2>3 DEF Ahead
  <2> QED
    BY <2>2, <2>3
<1>6. LatestComplete'
  <2>1. \A l \in 1..Layers : StoredTo(l)' = StoredTo(l)
    BY <1>3, <1>5 DEF StoredTo
  <2> QED
    BY <1>3, <2>1 DEF ForwardInv, LatestComplete
<1>7. StorageForms' /\ RawWhole' /\ HostOrQueued'
  <2>1. StorageForms'
    BY <1>3 DEF ForwardInv, StorageForms
  <2>2. RawWhole'
    BY <1>3 DEF ForwardInv, RawWhole
  <2>3. HostOrQueued'
    BY <1>3 DEF ForwardInv, HostOrQueued, Me
  <2> QED
    BY <2>1, <2>2, <2>3
<1>8. ForwardOwned'
  BY <1>1, <1>3 DEF ForwardInv, ForwardOwned
<1>9. MovedWhole'
  BY <1>3 DEF ForwardInv, MovedWhole
<1>10. compute \in Seq(Stores \cup Selects)
  BY DEF ForwardInv, QueueForms
<1>11. CASE ~offloaded
  <2>1. QueueForms' /\ SelectsKnown'
    BY <1>3, <1>4, <1>11 DEF ForwardInv, QueueForms, SelectsKnown
  <2> QED
    BY <1>6, <1>7, <1>8, <1>9, <2>1 DEF ForwardInv
<1>12. CASE offloaded
  <2>1. states \in Seq(States) /\ Len(states) = Layers
    BY <1>12 DEF ForwardInv, StorageForms, MovedWhole
  <2>2. states[l0].latest \in Int
    <3>1. states[l0] \in States
      BY <1>2, <2>1
    <3> QED
      BY <3>1 DEF States
  <2>3. /\ Select(l0) \in Selects
        /\ Select(l0).layer = l0 /\ Select(l0).latest = states[l0].latest
    BY <1>2, <2>2 DEF Select, Selects
  <2> DEFINE s == Select(l0)
  <2> HIDE DEF s
  <2>4. s \in Stores \cup Selects
    BY <2>3 DEF s
  <2>5. /\ compute' \in Seq(Stores \cup Selects) /\ DOMAIN compute' = 1..(Len(compute) + 1)
        /\ \A i \in 1..Len(compute) : compute'[i] = compute[i]
        /\ compute'[Len(compute) + 1] = s
    BY <1>3, <1>10, <1>12, <2>4, AppendProperties DEF s
  <2>6. DOMAIN compute = 1..Len(compute) /\ Len(compute) \in Nat
    BY <1>10
  <2>7. QueueForms'
    BY <1>3, <1>4, <2>5 DEF ForwardInv, QueueForms
  <2>8. SelectsKnown'
    <3>1. ASSUME NEW i \in DOMAIN compute', compute'[i].op = "select"
          PROVE  compute'[i].latest <= states[compute'[i].layer].latest
      <4>1. CASE i \in DOMAIN compute
        BY <2>5, <2>6, <3>1, <4>1 DEF ForwardInv, SelectsKnown
      <4>2. CASE i = Len(compute) + 1
        BY <2>2, <2>3, <2>5, <4>2 DEF s
      <4> QED
        BY <2>5, <2>6, <4>1, <4>2
    <3> QED
      BY <1>3, <3>1 DEF SelectsKnown
  <2> QED
    BY <1>6, <1>7, <1>8, <1>9, <2>7, <2>8 DEF ForwardInv
<1> QED
  BY <1>11, <1>12

\* The end of a prefill changes no storage.
LEMMA ForwardEndExtend ==
    ASSUME ForwardInv, EndExtend
    PROVE  ForwardInv'
<1>1. /\ forward.kind = "extend" /\ forward' = NoForward
      /\ UNCHANGED <<holder, generation, offloaded, raw_released, buffers, states, claimed,
                     slab, compute, copies, seq, releasing, failed>>
  BY DEF EndExtend, leaseVars, storageVars, streamVars, releaseVars, faultVars
<1>2. StorageForms' /\ QueueForms' /\ RawWhole' /\ MovedWhole' /\ ForwardOwned'
  BY <1>1 DEF ForwardInv, StorageForms, QueueForms, RawWhole, MovedWhole, ForwardOwned
<1>3. \A l \in 1..Layers : StoredTo(l)' = StoredTo(l)
  <2>1. \A l \in 1..Layers : ~Ahead(l)' /\ ~Ahead(l)
    BY <1>1 DEF Ahead, NoForward
  <2> QED
    BY <1>1, <2>1 DEF StoredTo
<1>4. LatestComplete' /\ HostOrQueued' /\ SelectsKnown'
  BY <1>1, <1>3 DEF ForwardInv, LatestComplete, HostOrQueued, SelectsKnown, Me
<1> QED
  BY <1>2, <1>4 DEF ForwardInv

\* The tail of a queue holds its entries but the first.
LEMMA TailOf ==
    ASSUME NEW S, NEW q \in Seq(S), q # <<>>
    PROVE  /\ Tail(q) \in Seq(S) /\ DOMAIN q = 1..Len(q) /\ Len(q) \in Nat \ {0}
           /\ DOMAIN Tail(q) = 1..(Len(q) - 1)
           /\ \A i \in DOMAIN Tail(q) : i + 1 \in DOMAIN q /\ Tail(q)[i] = q[i + 1]
           /\ \A i \in DOMAIN q : i # 1 => i - 1 \in DOMAIN Tail(q) /\ Tail(q)[i - 1] = q[i]
           /\ Head(q) = q[1]
<1>1. Len(q) \in Nat \ {0} /\ DOMAIN q = 1..Len(q)
  BY EmptySeq, LenProperties
<1>2. /\ Tail(q) \in Seq(S) /\ Len(Tail(q)) = Len(q) - 1
      /\ \A i \in 1..Len(Tail(q)) : Tail(q)[i] = q[i + 1]
  BY HeadTailProperties
<1>3. DOMAIN Tail(q) = 1..(Len(q) - 1)
  BY <1>2, LenProperties
<1>4. \A i \in DOMAIN Tail(q) : i + 1 \in DOMAIN q /\ Tail(q)[i] = q[i + 1]
  BY <1>1, <1>2, <1>3
<1>5. \A i \in DOMAIN q : i # 1 => i - 1 \in DOMAIN Tail(q) /\ Tail(q)[i - 1] = q[i]
  BY <1>1, <1>2, <1>3
<1> QED
  BY <1>1, <1>2, <1>3, <1>4, <1>5

\* What the compute stream has done is awaited by nobody.
LEMMA ForwardComputeRuns ==
    ASSUME ForwardInv, ComputeRuns
    PROVE  ForwardInv'
<1>1. /\ compute # <<>> /\ compute' = Tail(compute)
      /\ UNCHANGED <<holder, generation, offloaded, raw_released, buffers, states, claimed,
                     slab, copies, seq, forward, releasing, failed>>
  BY DEF ComputeRuns, Runnable, leaseVars, storageVars, batchVars, releaseVars, faultVars
<1>2. compute \in Seq(Stores \cup Selects)
  BY DEF ForwardInv, QueueForms
<1>3. offloaded
  BY <1>1 DEF ForwardInv, MovedWhole
<1>4. /\ compute' \in Seq(Stores \cup Selects)
      /\ \A i \in DOMAIN compute' : i + 1 \in DOMAIN compute /\ compute'[i] = compute[i + 1]
  BY <1>1, <1>2, TailOf
<1>5. StorageForms' /\ QueueForms' /\ RawWhole' /\ ForwardOwned'
  BY <1>1, <1>4 DEF ForwardInv, StorageForms, QueueForms, RawWhole, ForwardOwned
<1>6. MovedWhole' /\ HostOrQueued'
  BY <1>1, <1>3 DEF ForwardInv, MovedWhole, HostOrQueued, Me
<1>7. LatestComplete'
  BY <1>1 DEF ForwardInv, LatestComplete, StoredTo, Ahead
<1>8. SelectsKnown'
  BY <1>1, <1>4 DEF ForwardInv, SelectsKnown
<1> QED
  BY <1>5, <1>6, <1>7, <1>8 DEF ForwardInv

\* A copy brings its block to the host, by the request that owns the slab.
LEMMA ForwardCopyRuns ==
    ASSUME ForwardInv, SingleInv, CopyRuns
    PROVE  ForwardInv'
<1> DEFINE c == Head(copies)
<1>1. /\ copies # <<>> /\ copies' = Tail(copies)
      /\ slab' = [slab EXCEPT ![c.layer][c.block] = c.by]
      /\ UNCHANGED <<holder, generation, offloaded, raw_released, buffers, states, claimed,
                     compute, seq, forward, releasing, failed>>
  BY DEF CopyRuns, leaseVars, storageVars, batchVars, releaseVars, faultVars
<1>2. copies \in Seq(Stores) /\ slab \in [1..Layers -> [Blocks -> Writers]]
  BY DEF ForwardInv, StorageForms, QueueForms
<1>3. offloaded
  BY <1>1 DEF ForwardInv, MovedWhole
<1>4. /\ copies' \in Seq(Stores) /\ 1 \in DOMAIN copies /\ c = copies[1]
      /\ \A i \in DOMAIN copies :
            i # 1 => i - 1 \in DOMAIN copies' /\ copies'[i - 1] = copies[i]
  BY <1>1, <1>2, TailOf
<1>5. c \in Stores /\ c.by = Me
  <2>1. c.by = Me
    BY <1>4 DEF SingleInv, OneOwner
  <2> QED
    BY <1>2, <1>4, <2>1, ElementOfSeq
<1>6. c.layer \in 1..Layers /\ c.block \in Blocks /\ c.by \in Writers
  BY <1>5 DEF Stores
<1> HIDE DEF c
<1>7. /\ slab' \in [1..Layers -> [Blocks -> Writers]]
      /\ \A l \in 1..Layers : \A b \in Blocks :
            slab'[l][b] = IF l = c.layer /\ b = c.block THEN Me ELSE slab[l][b]
  <2> DEFINE row == [slab[c.layer] EXCEPT ![c.block] = c.by]
  <2>1. slab' = [slab EXCEPT ![c.layer] = row]
    BY <1>1
  <2>2. row \in [Blocks -> Writers]
    BY <1>2, <1>6
  <2>3. \A b \in Blocks : row[b] = IF b = c.block THEN Me ELSE slab[c.layer][b]
    BY <1>2, <1>5, <1>6
  <2> HIDE DEF row
  <2> QED
    BY <1>2, <1>6, <2>1, <2>2, <2>3
<1>8. StorageForms' /\ QueueForms' /\ RawWhole' /\ ForwardOwned'
  BY <1>1, <1>4, <1>7 DEF ForwardInv, StorageForms, QueueForms, RawWhole, ForwardOwned
<1>9. MovedWhole' /\ SelectsKnown'
  BY <1>1, <1>3 DEF ForwardInv, MovedWhole, SelectsKnown
<1>10. LatestComplete'
  BY <1>1 DEF ForwardInv, LatestComplete, StoredTo, Ahead
<1>11. HostOrQueued'
  <2>1. ASSUME NEW l \in 1..Layers, NEW b \in 0..states[l].latest
        PROVE  \/ slab'[l][b] = Me
               \/ \E i \in DOMAIN copies' : copies'[i].layer = l /\ copies'[i].block = b
    <3>1. b \in Blocks
      <4>1. states[l].latest = (StoredTo(l) \div 4) - 1 /\ seq \in 1..MaxSeq /\ MaxSeq \in Nat
        BY <1>3, SingleAssumption DEF ForwardInv, LatestComplete, MovedWhole
      <4>2. StoredTo(l) = seq \/ StoredTo(l) = seq - 1
        BY DEF StoredTo
      <4> QED
        BY <4>1, <4>2 DEF Blocks
    <3>2. CASE l = c.layer /\ b = c.block
      BY <1>7, <3>1, <3>2
    <3>3. CASE slab[l][b] = Me
      BY <1>7, <3>1, <3>3
    <3>4. ASSUME NEW i \in DOMAIN copies, copies[i].layer = l, copies[i].block = b,
                 ~(l = c.layer /\ b = c.block)
          PROVE  \E j \in DOMAIN copies' : copies'[j].layer = l /\ copies'[j].block = b
      <4>1. i # 1
        BY <1>4, <3>4
      <4>2. i - 1 \in DOMAIN copies' /\ copies'[i - 1] = copies[i]
        BY <1>4, <4>1
      <4> QED
        BY <3>4, <4>2
    <3>5. \/ slab[l][b] = Me
          \/ \E i \in DOMAIN copies : copies[i].layer = l /\ copies[i].block = b
      BY <1>3 DEF ForwardInv, HostOrQueued
    <3> QED
      BY <3>2, <3>3, <3>4, <3>5
  <2>2. Me' = Me
    BY <1>1 DEF Me
  <2> QED
    BY <1>1, <2>1, <2>2 DEF HostOrQueued
<1> QED
  BY <1>8, <1>9, <1>10, <1>11 DEF ForwardInv

\* A release leaves nothing queued, and an owner that may start no forward.
LEMMA ForwardRelease ==
    ASSUME ForwardInv, SingleInv, ReleaseOwner
    PROVE  ForwardInv'
<1>1. /\ forward = NoForward /\ compute = <<>> /\ copies = <<>> /\ holder # Nobody
      /\ states' = <<>> /\ ~offloaded'
      /\ UNCHANGED <<generation, raw_released, buffers, slab, compute, copies, seq, forward,
                     failed>>
  BY DEF ReleaseOwner, Idle, Drained, streamVars, batchVars, faultVars
<1>2. (releasing' /\ holder' = holder) \/ holder' = Nobody
  BY DEF ReleaseOwner, AfterRelease, Committed
<1>3. StorageForms' /\ QueueForms'
  BY <1>1, <1>2 DEF ForwardInv, StorageForms, QueueForms
<1>4. RawWhole' /\ MovedWhole' /\ ForwardOwned'
  BY <1>1, <1>2 DEF ForwardInv, RawWhole, MovedWhole, ForwardOwned
<1>5. LatestComplete' /\ HostOrQueued' /\ SelectsKnown'
  BY <1>1 DEF LatestComplete, HostOrQueued, SelectsKnown
<1> QED
  BY <1>3, <1>4, <1>5 DEF ForwardInv

\* The flush of a group frees the owner that awaited it, and touches no other.
LEMMA ForwardCloseGroup ==
    ASSUME ForwardInv, SingleInv, CloseGroup
    PROVE  ForwardInv'
<1>1. /\ forward = NoForward
      /\ UNCHANGED <<generation, storageVars, streamVars, batchVars, failed>>
  BY DEF CloseGroup, Idle, faultVars
<1>2. CASE pending_release
  <2>1. holder' = Nobody /\ ~releasing' /\ ~offloaded
    BY <1>2 DEF CloseGroup, Committed, SingleInv, PendingIdle
  <2> QED
    BY <1>1, <2>1, ForwardQuiet
<1>3. CASE ~pending_release
  <2>1. UNCHANGED <<holder, releasing>>
    BY <1>3 DEF CloseGroup
  <2> QED
    BY <1>1, <2>1, ForwardQuiet DEF ForwardInv, RawWhole, StorageForms
<1> QED
  BY <1>2, <1>3

\* Every step of the process keeps the storage under the forwards of phase 1.
LEMMA ForwardInvNext == ForwardInv /\ SingleInv /\ [Next]_processVars => ForwardInv'
<1> SUFFICES ASSUME ForwardInv, SingleInv, [Next]_processVars PROVE ForwardInv'
  OBVIOUS
<1>1. CASE UNCHANGED singleVars
  <2>1. UNCHANGED <<leaseVars, storageVars, streamVars, batchVars, holder, generation, failed,
                    releasing, raw_released, offloaded, forward>>
    BY <1>1 DEF singleVars, leaseVars, storageVars, releaseVars, faultVars, batchVars
  <2> QED
    BY <2>1, ForwardQuiet DEF ForwardInv, RawWhole, ForwardOwned, StorageForms
<1>2. CASE OpenGroup
  <2>1. UNCHANGED <<leaseVars, storageVars, streamVars, batchVars, holder, generation, failed,
                    releasing, raw_released, offloaded, forward>>
    BY <1>2 DEF OpenGroup, leaseVars, storageVars, faultVars, batchVars
  <2> QED
    BY <2>1, ForwardQuiet DEF ForwardInv, RawWhole, ForwardOwned, StorageForms
<1>3. CASE SingleNext
  <2>1. \A n \in {MinPrompt - 1, MinPrompt, MinPrompt + 1} \cup 1..2 : n \in Nat
    BY SingleAssumption
  <2> QED
    BY <1>2, <1>3, <2>1, ForwardBeginPrefill, ForwardBeginChunk, ForwardBeginDecode,
       ForwardStoreLayer, ForwardSelectLayer, ForwardEndExtend, ForwardComputeRuns,
       ForwardCopyRuns, ForwardRelease, ForwardCloseGroup DEF SingleNext
<1>4. UNCHANGED singleVars \/ SingleNext
  BY DEF Next, Activates, Starts, Serves, Decodes, Attends, processVars
<1> QED
  BY <1>1, <1>3, <1>4

\* What a selection finds on the host, once the copies it waits for are done.
LEMMA SelectionFinds ==
    ASSUME ForwardInv, Runnable, Head(compute).op = "select",
           NEW b \in 0..Head(compute).latest
    PROVE  slab[Head(compute).layer][b] = Me
<1> DEFINE x == Head(compute)
<1>1. compute # <<>> /\ compute \in Seq(Stores \cup Selects) /\ AwaitedCopies(x) = {}
  BY DEF Runnable, ForwardInv, QueueForms
<1>2. 1 \in DOMAIN compute /\ x = compute[1] /\ x \in Stores \cup Selects
  <2>1. 1 \in DOMAIN compute /\ x = compute[1]
    BY <1>1, TailOf
  <2> QED
    BY <1>1, <2>1, ElementOfSeq, LenProperties
<1>3. x \in Selects
  BY <1>2 DEF Stores
<1>4. x.layer \in 1..Layers /\ x.latest \in Int
  BY <1>3 DEF Selects
<1>5. offloaded
  BY <1>1 DEF ForwardInv, MovedWhole
<1>6. x.latest <= states[x.layer].latest
  BY <1>2 DEF ForwardInv, SelectsKnown
<1>7. states[x.layer].latest \in Int
  <2>1. states[x.layer] \in States
    BY <1>4, <1>5 DEF ForwardInv, StorageForms, MovedWhole
  <2> QED
    BY <2>1 DEF States
<1>8. b \in 0..states[x.layer].latest
  BY <1>4, <1>6, <1>7
<1>9. \/ slab[x.layer][b] = Me
      \/ \E i \in DOMAIN copies : copies[i].layer = x.layer /\ copies[i].block = b
  BY <1>4, <1>5, <1>8 DEF ForwardInv, HostOrQueued
<1>10. \A i \in DOMAIN copies : ~(copies[i].layer = x.layer /\ copies[i].block = b)
  BY <1>1, <1>4 DEF AwaitedCopies
<1> QED
  BY <1>9, <1>10

\* Each forward of phase 1 runs on the storage its kind needs, and a selection
\* reads from the host only blocks that this very request wrote there.
THEOREM ForwardsMatch == Spec => []ForwardMatches
<1>1. Init => SingleInv /\ ForwardInv
  BY SingleInvInit, ForwardInit DEF Init
<1>2. ForwardInv => ForwardMatches
  <2> SUFFICES ASSUME ForwardInv PROVE ForwardMatches
    OBVIOUS
  <2>1. ASSUME forward # NoForward
        PROVE  /\ ~failed /\ holder # Nobody
               /\ \A l \in 1..Layers : buffers[l] = IF offloaded THEN "ring" ELSE "raw"
               /\ offloaded => Len(states) = Layers /\ claimed
    BY <2>1 DEF ForwardInv, ForwardOwned, RawWhole, MovedWhole
  <2> QED
    BY <2>1, SelectionFinds DEF ForwardMatches
<1> QED
  BY <1>1, <1>2, SingleInvNext, ForwardInvNext, PTL DEF Spec

----------------------------------------------------------------------------
(* The attention.                                                          *)

Calls == [kind : {"extend", "verify", "decode"}, first : Nat, last : Nat,
          step : {"begun", "stored", "noted", "attended", "ragged"},
          graph : BOOLEAN, live : {FALSE}]

AttentionForms ==
    /\ length \in Nat /\ moved \in BOOLEAN
    /\ call \in {NoCall} \cup Calls
    /\ call = NoCall => attended = {}
    /\ backend = NoBackend => call = NoCall /\ length = 0 /\ ~moved

\* The owner that a backend was built for stays, and decides what it may run.
BackendFits ==
    backend # NoBackend =>
        /\ stage \in {"serving", "stopped"} /\ (owner # NoOwner \/ activated.mode = "none")
        /\ Owned => backend.device = "cuda" /\ ~backend.fused

\* A forward stores what follows, at home unless the request has moved.
CallFits ==
    /\ moved => Offloading
    /\ call # NoCall =>
          /\ call.first = length /\ call.first <= call.last
          /\ call.kind = "decode" => call.last = call.first /\ (Offloading => moved)
          /\ call.kind = "extend" => ~moved
          /\ call.kind = "verify" => ~Owned

\* How many tokens are stored, and how many of them the host has.
Held == IF call.step \in {"stored", "noted", "attended", "ragged"} THEN call.last + 1 ELSE length
Complete(n) == 4 * (n \div 4)
Closed == IF call.step = "stored" THEN Complete(length) ELSE Complete(Held)

\* Every token of the request is where it is looked for, as this very request
\* stored it and divided as the layer asks: at home, or in its block on the
\* host, or in the ring until its block is closed.
RowsHeld ==
    IF moved
      THEN /\ \A p \in 0..(Closed - 1) : At(host, p) = Row(p, Factor)
           /\ \A p \in Closed..(Held - 1) : At(kv, Ring(p)) = Row(p, Factor)
      ELSE \A p \in 0..(Held - 1) : At(kv, Home(p)) = Row(p, Factor)

RowsRead ==
    \A a \in attended : a.row.position = a.at /\ a.row.of = serial /\ a.row.divided = a.factor

AttentionInv == AttentionForms /\ BackendFits /\ CallFits /\ RowsHeld /\ RowsRead

\* What is written is what is found, and the rest stays.
LEMMA WrittenAt ==
    ASSUME NEW S, NEW rows, NEW new, new = Written(S, rows), NEW x
    PROVE  At(new, x) = IF x \in S THEN rows[x] ELSE At(kv, x)
<1>1. DOMAIN new = S \cup DOMAIN kv
  BY DEF Written
<1>2. CASE x \in S
  BY <1>1, <1>2 DEF At, Written
<1>3. CASE x \notin S /\ x \in DOMAIN kv
  BY <1>1, <1>3 DEF At, Written
<1>4. CASE x \notin S /\ x \notin DOMAIN kv
  BY <1>1, <1>4 DEF At
<1> QED
  BY <1>2, <1>3, <1>4

\* Positions have homes of their own, and four of them have their own ring rows.
LEMMA PlacesApart ==
    /\ \A p, q : Home(p) = Home(q) => p = q
    /\ \A p, q \in Nat : Ring(p) = Ring(q) => p % 4 = q % 4
<1>1. \A p, q : Home(p) = Home(q) => p = q
  BY DEF Home
<1>2. \A p, q \in Nat : Ring(p) = Ring(q) => p % 4 = q % 4
  BY DEF Ring
<1> QED
  BY <1>1, <1>2

\* Two positions of one block differ in the ring.
LEMMA BlockApart ==
    ASSUME NEW n \in Nat, NEW p \in (4 * n)..(4 * n + 3), NEW q \in (4 * n)..(4 * n + 3),
           p % 4 = q % 4
    PROVE  p = q
OBVIOUS

\* A row that is read as it is found at its position is read exactly.
LEMMA ReadFound ==
    ASSUME NEW p, NEW f
    PROVE  LET a == Read(p, Row(p, f), f)
           IN  a.row.position = a.at /\ a.row.of = serial /\ a.row.divided = a.factor
BY DEF Read, Row

\* No backend, no forward and no token at first.
LEMMA AttentionInvInit == AttentionInit => AttentionInv
<1> SUFFICES ASSUME AttentionInit PROVE AttentionInv
  OBVIOUS
<1>1. AttentionForms /\ BackendFits /\ RowsRead
  BY DEF AttentionInit, AttentionForms, BackendFits, RowsRead
<1>2. CallFits
  BY DEF AttentionInit, CallFits
<1>3. Held = 0
  BY DEF AttentionInit, NoCall, Held
<1>4. RowsHeld
  BY <1>3 DEF AttentionInit, RowsHeld
<1> QED
  BY <1>1, <1>2, <1>4 DEF AttentionInv

\* The rest of the process changes no owner under a backend.
LEMMA AttentionQuiet ==
    ASSUME AttentionInv, UNCHANGED attentionVars,
           backend # NoBackend => owner' = owner /\ BackendFits'
    PROVE  AttentionInv'
<1>1. UNCHANGED <<backend, ragged, serial, length, moved, kv, host, call, attended>>
  BY DEF attentionVars
<1>2. AttentionForms' /\ RowsRead'
  BY <1>1 DEF AttentionInv, AttentionForms, RowsRead
<1>3. BackendFits'
  BY <1>1 DEF BackendFits
<1>4. CASE backend = NoBackend
  <2>1. call = NoCall /\ length = 0 /\ ~moved
    BY <1>4 DEF AttentionInv, AttentionForms
  <2>2. Held' = 0
    BY <1>1, <2>1 DEF Held, NoCall
  <2>3. CallFits' /\ RowsHeld'
    BY <1>1, <2>1, <2>2 DEF CallFits, RowsHeld
  <2> QED
    BY <1>2, <1>3, <2>3 DEF AttentionInv
<1>5. CASE backend # NoBackend
  <2>1. owner' = owner
    BY <1>5
  <2>2. CallFits'
    BY <1>1, <2>1 DEF AttentionInv, CallFits, Offloading, Owned
  <2>3. /\ Held' = Held /\ Closed' = Closed /\ Factor' = Factor
        /\ \A p : Home(p)' = Home(p)
    BY <1>1, <2>1 DEF Held, Closed, Factor, Descaled, Home
  <2>4. \A p : /\ At(kv, p)' = At(kv, p) /\ At(host, p)' = At(host, p)
               /\ Row(p, Factor)' = Row(p, Factor)
    BY <1>1, <2>3 DEF At, Row
  <2>5. RowsHeld'
    BY <1>1, <2>3, <2>4 DEF AttentionInv, RowsHeld
  <2> QED
    BY <1>2, <1>3, <2>2, <2>5 DEF AttentionInv
<1> QED
  BY <1>4, <1>5

\* A forward that comes to its next step is the same forward.
LEMMA CallUpdates ==
    ASSUME NEW c \in Calls,
           NEW s \in {"begun", "stored", "noted", "attended", "ragged"}
    PROVE  /\ [c EXCEPT !.step = s] \in Calls
           /\ [c EXCEPT !.step = s].step = s /\ [c EXCEPT !.step = s].kind = c.kind
           /\ [c EXCEPT !.step = s].first = c.first /\ [c EXCEPT !.step = s].last = c.last
BY DEF Calls

\* A forward is not the absence of one.
LEMMA CallsRun == \A c \in Calls : c # NoCall
BY DEF Calls, NoCall

Fixed == UNCHANGED <<owner, stage, activated>>

\* What a step of a backend leaves alone.
LEMMA BackendKept ==
    ASSUME BackendFits, Fixed, backend' = backend
    PROVE  /\ BackendFits' /\ Factor' = Factor /\ \A p : Home(p)' = Home(p)
           /\ (Owned' <=> Owned) /\ (Offloading' <=> Offloading)
<1>1. UNCHANGED <<owner, stage, activated>>
  BY DEF Fixed
<1>2. Factor' = Factor
  BY Zenon DEF Factor, Descaled
<1>3. (Owned' <=> Owned) /\ (Offloading' <=> Offloading) /\ \A p : Home(p)' = Home(p)
  BY <1>1 DEF Owned, Offloading, Home
<1>4. BackendFits'
  BY <1>1, <1>3, Zenon DEF BackendFits
<1> QED
  BY <1>2, <1>3, <1>4

\* A backend finds no token, and what its owner asks of it.
LEMMA AttentionBuilds ==
    ASSUME AttentionInv, StartInv, Fixed, BuildBackend
    PROVE  AttentionInv'
<1>1. /\ backend = NoBackend /\ stage = "serving"
      /\ (activated.mode = "none" \/ cache # "none")
      /\ UNCHANGED <<ragged, serial, length, moved, kv, host, call, attended>>
  BY DEF BuildBackend, Compat
<1>2. length = 0 /\ call = NoCall /\ ~moved
  BY <1>1 DEF AttentionInv, AttentionForms
<1>3. UNCHANGED <<owner, stage, activated>> /\ (Owned' <=> Owned)
  BY DEF Fixed, Owned
<1>4. PICK m \in Machines, l \in LayerKinds :
         /\ Owned => m.device = "cuda" /\ l.fp8
         /\ backend' = [device |-> m.device, trtllm |-> m.trtllm, ragged |-> m.ragged,
                         fused |-> FusedEligible(m), target |-> scope = "target",
                         fp8 |-> l.fp8, scale |-> l.scale]
  BY DEF BuildBackend
<1>5. backend'.device = m.device /\ backend'.fused = FusedEligible(m)
  BY <1>4, Zenon
<1>6. owner # NoOwner \/ activated.mode = "none"
  BY <1>1 DEF StartInv, Ordered, NoOwner
<1>7. Owned => backend'.device = "cuda" /\ ~backend'.fused
  <2>1. Owned => ~FusedEligible(m)
    BY DEF FusedEligible
  <2> QED
    BY <1>4, <1>5, <2>1, Zenon
<1>8. BackendFits'
  BY <1>1, <1>3, <1>6, <1>7, Zenon DEF BackendFits
<1>9. AttentionForms' /\ CallFits' /\ RowsRead'
  BY <1>1, <1>2 DEF AttentionInv, AttentionForms, CallFits, RowsRead
<1>10. Held' = 0
  BY <1>1, <1>2 DEF Held, NoCall
<1>11. RowsHeld'
  BY <1>1, <1>2, <1>10 DEF RowsHeld
<1> QED
  BY <1>8, <1>9, <1>11 DEF AttentionInv

\* The wrapper that is planned stores nothing.
LEMMA AttentionPlans ==
    ASSUME AttentionInv, Fixed, PlanRagged
    PROVE  AttentionInv'
<1>1. UNCHANGED <<backend, serial, length, moved, kv, host, call, attended>>
  BY DEF PlanRagged
<1>2. BackendFits' /\ Factor' = Factor /\ (\A p : Home(p)' = Home(p))
      /\ (Owned' <=> Owned) /\ (Offloading' <=> Offloading)
  BY <1>1, BackendKept DEF AttentionInv
<1>3. AttentionForms' /\ RowsRead' /\ CallFits'
  BY <1>1, <1>2 DEF AttentionInv, AttentionForms, RowsRead, CallFits
<1>4. Held' = Held /\ Closed' = Closed
  BY <1>1 DEF Held, Closed
<1>5. \A p : /\ At(kv, p)' = At(kv, p) /\ At(host, p)' = At(host, p)
             /\ Row(p, Factor)' = Row(p, Factor)
  BY <1>1, <1>2 DEF At, Row
<1>6. RowsHeld'
  BY <1>1, <1>2, <1>4, <1>5 DEF AttentionInv, RowsHeld
<1> QED
  BY <1>2, <1>3, <1>6 DEF AttentionInv

\* The next request has no token yet, whatever the last one left behind.
LEMMA AttentionNextServed ==
    ASSUME AttentionInv, Fixed, NextServed
    PROVE  AttentionInv'
<1>1. /\ call = NoCall /\ length' = 0 /\ moved' = FALSE
      /\ UNCHANGED <<backend, kv, host, call, attended>>
  BY DEF NextServed
<1>2. BackendFits'
  BY <1>1, BackendKept DEF AttentionInv
<1>3. AttentionForms' /\ CallFits' /\ RowsRead'
  BY <1>1 DEF AttentionInv, AttentionForms, CallFits, RowsRead
<1>4. Held' = 0
  BY <1>1 DEF Held, NoCall
<1>5. RowsHeld'
  BY <1>1, <1>4 DEF RowsHeld
<1> QED
  BY <1>2, <1>3, <1>5 DEF AttentionInv

\* Steps between storing and reading, which move no row.
LEMMA AttentionSteps ==
    ASSUME AttentionInv, Fixed, UNCHANGED <<backend, serial, moved, kv, host>>,
           AttentionForms', CallFits', RowsRead', Held' = Held, Closed' = Closed
    PROVE  AttentionInv'
<1>1. BackendFits' /\ Factor' = Factor /\ (\A p : Home(p)' = Home(p))
  BY BackendKept DEF AttentionInv
<1>2. \A p : /\ At(kv, p)' = At(kv, p) /\ At(host, p)' = At(host, p)
             /\ Row(p, Factor)' = Row(p, Factor)
  BY <1>1 DEF At, Row
<1>3. RowsHeld'
  BY <1>1, <1>2 DEF AttentionInv, RowsHeld
<1> QED
  BY <1>1, <1>3 DEF AttentionInv

\* A prompt's chunk or a verification follows what is stored.
LEMMA AttentionExtends ==
    ASSUME AttentionInv, Fixed, NEW n \in Nat \ {0}, NEW kind \in {"extend", "verify"},
           BeginExtend(kind, n)
    PROVE  AttentionInv'
<1>1. /\ call = NoCall /\ ~moved /\ backend # NoBackend
      /\ kind = "verify" => ~Owned
      /\ call' = [kind |-> kind, first |-> length, last |-> length + n - 1, step |-> "begun",
                  graph |-> FALSE, live |-> FALSE]
      /\ UNCHANGED <<backend, serial, length, moved, kv, host, attended>>
  BY DEF BeginExtend
<1>2. length \in Nat /\ length + n - 1 \in Nat /\ length <= length + n - 1
  BY DEF AttentionInv, AttentionForms
<1>3. /\ call' \in Calls /\ call'.kind = kind /\ call'.first = length
      /\ call'.last = length + n - 1 /\ call'.step = "begun"
  BY <1>1, <1>2 DEF Calls
<1>4. (Owned' <=> Owned) /\ (Offloading' <=> Offloading)
  BY <1>1, BackendKept DEF AttentionInv
<1>5. AttentionForms' /\ RowsRead' /\ CallFits'
  <2>1. AttentionForms'
    BY <1>1, <1>3, CallsRun DEF AttentionInv, AttentionForms
  <2>2. RowsRead'
    BY <1>1 DEF AttentionInv, RowsRead
  <2>3. CallFits'
    BY <1>1, <1>2, <1>3, <1>4 DEF AttentionInv, CallFits
  <2> QED
    BY <2>1, <2>2, <2>3
<1>6. Held' = Held /\ Closed' = Closed
  BY <1>1, <1>3 DEF Held, Closed, NoCall, Complete
<1> QED
  BY <1>1, <1>5, <1>6, AttentionSteps

\* A slab has what was copied to it last, and the rest stays.
LEMMA HostAt ==
    ASSUME NEW S, NEW rows, NEW new,
           new = [p \in S \cup DOMAIN host |-> IF p \in S THEN rows[p] ELSE host[p]], NEW x
    PROVE  At(new, x) = IF x \in S THEN rows[x] ELSE At(host, x)
<1>1. DOMAIN new = S \cup DOMAIN host
  OBVIOUS
<1>2. CASE x \in S
  BY <1>1, <1>2 DEF At
<1>3. CASE x \notin S /\ x \in DOMAIN host
  BY <1>1, <1>3 DEF At
<1>4. CASE x \notin S /\ x \notin DOMAIN host
  BY <1>1, <1>4 DEF At
<1> QED
  BY <1>2, <1>3, <1>4

\* The whole blocks of a request are the first ones.
LEMMA CompleteBlocks ==
    ASSUME NEW n \in Nat
    PROVE  /\ Complete(n) \in Nat /\ Complete(n) <= n /\ n - Complete(n) < 4
           /\ \A p \in 0..(n - 1) : p \div 4 < n \div 4 <=> p < Complete(n)
           /\ Complete(n + 1) = IF (n + 1) % 4 = 0 THEN n + 1 ELSE Complete(n)
           /\ (n + 1) % 4 = 0 => Complete(n) = n - 3
           /\ \A p, q \in Complete(n)..n : p % 4 = q % 4 => p = q
<1>1. n \div 4 \in Nat /\ 4 * (n \div 4) <= n /\ n - 4 * (n \div 4) < 4
  OBVIOUS
<1>2. \A p \in 0..(n - 1) : p \div 4 < n \div 4 <=> p < 4 * (n \div 4)
  OBVIOUS
<1>3. 4 * ((n + 1) \div 4) = IF (n + 1) % 4 = 0 THEN n + 1 ELSE 4 * (n \div 4)
  OBVIOUS
<1>4. (n + 1) % 4 = 0 => 4 * (n \div 4) = n - 3
  OBVIOUS
<1>5. \A p, q \in (4 * (n \div 4))..n : p % 4 = q % 4 => p = q
  <2>1. PICK k \in Nat : k = n \div 4
    BY <1>1
  <2>2. \A p \in (4 * k)..n : p \in (4 * k)..(4 * k + 3)
    BY <1>1, <2>1
  <2> QED
    BY <2>1, <2>2, BlockApart
<1> QED
  BY <1>1, <1>2, <1>3, <1>4, <1>5 DEF Complete

\* What there is of an owner: an offloading one owns, and who does not own
\* leaves the rows where the scheduler puts them.
LEMMA OwnersWhole ==
    ASSUME StartInv
    PROVE  /\ Offloading => Owned
           /\ ~Owned => \A p : Home(p) = <<"logical", p>>
           /\ ~Offloading => \A p : Home(p) = <<"logical", p>>
<1>1. owner = NoOwner \/ owner.kind # "none"
  BY DEF StartInv, Ordered
<1> QED
  BY <1>1 DEF Offloading, Owned, Home, NoOwner

\* The first token of an offloading owner moves what is stored: whole blocks
\* to the host and the rest to the ring.
LEMMA AttentionDecodes ==
    ASSUME AttentionInv, Fixed, DecodeToken
    PROVE  AttentionInv'
<1>1. /\ call = NoCall /\ backend # NoBackend /\ length \in Nat /\ length > 0
      /\ UNCHANGED <<backend, serial, length, attended>>
  BY DEF DecodeToken, AttentionInv, AttentionForms
<1>2. /\ call' \in Calls /\ call'.kind = "decode" /\ call'.first = length
      /\ call'.last = length /\ call'.step = "begun"
  BY <1>1 DEF DecodeToken, Calls
<1>3. BackendFits' /\ Factor' = Factor /\ (\A p : Home(p)' = Home(p))
      /\ (Owned' <=> Owned) /\ (Offloading' <=> Offloading)
  BY <1>1, BackendKept DEF AttentionInv
<1>4. Held = length /\ Held' = length /\ Closed = Complete(length) /\ Closed' = Complete(length)
  BY <1>1, <1>2 DEF Held, Closed, NoCall, Complete
<1>5. CASE ~(Offloading /\ ~moved)
  <2>1. UNCHANGED <<moved, kv, host>>
    BY <1>5 DEF DecodeToken
  <2>2. AttentionForms' /\ RowsRead' /\ CallFits'
    <3>1. AttentionForms'
      BY <1>1, <1>2, <2>1, CallsRun DEF AttentionInv, AttentionForms
    <3>2. RowsRead'
      BY <1>1 DEF AttentionInv, RowsRead
    <3>3. CallFits'
      BY <1>1, <1>2, <1>3, <1>5, <2>1 DEF AttentionInv, CallFits
    <3> QED
      BY <3>1, <3>2, <3>3
  <2> QED
    BY <1>1, <1>4, <2>1, <2>2, AttentionSteps
<1>6. CASE Offloading /\ ~moved
  <2> DEFINE tail == {p \in 0..(length - 1) : p \notin FullBlocks}
             places == {Ring(p) : p \in tail}
             rows == [x \in places |-> At(kv, Home(CHOOSE p \in tail : Ring(p) = x))]
             homes == [p \in FullBlocks |-> At(kv, Home(p))]
  <2>1. /\ host' = [p \in FullBlocks \cup DOMAIN host |->
                       IF p \in FullBlocks THEN homes[p] ELSE host[p]]
        /\ kv' = Written(places, rows)
        /\ moved' = TRUE
    BY <1>6 DEF DecodeToken
  <2>2. \A p \in 0..(length - 1) : At(kv, Home(p)) = Row(p, Factor)
    BY <1>4, <1>6 DEF AttentionInv, RowsHeld
  <2>3. \A p \in 0..(length - 1) : p \in FullBlocks <=> p < Complete(length)
    BY <1>1, CompleteBlocks DEF FullBlocks
  <2>4. Complete(length) \in Nat /\ Complete(length) <= length
    BY <1>1, CompleteBlocks
  <2>5. ASSUME NEW p \in 0..(Complete(length) - 1) PROVE At(host, p)' = Row(p, Factor)
    <3>1. p \in FullBlocks /\ p \in 0..(length - 1)
      BY <1>1, <2>3, <2>4
    <3>2. At(host', p) = homes[p]
      BY <2>1, <3>1, HostAt
    <3> QED
      BY <2>2, <3>1, <3>2
  <2>6. ASSUME NEW p \in Complete(length)..(length - 1) PROVE At(kv, Ring(p))' = Row(p, Factor)
    <3>1. p \in tail /\ p \in 0..(length - 1)
      BY <1>1, <2>3, <2>4
    <3>2. \A q \in tail : Ring(q) = Ring(p) => q = p
      <4>1. \A q \in tail : q \in Complete(length)..length /\ q \in Nat
        BY <1>1, <2>3, <2>4
      <4> QED
        BY <1>1, <3>1, <4>1, PlacesApart, CompleteBlocks
    <3>3. (CHOOSE q \in tail : Ring(q) = Ring(p)) = p
      BY <3>1, <3>2
    <3>4. Ring(p) \in places /\ rows[Ring(p)] = At(kv, Home(p))
      BY <3>1, <3>3
    <3>5. At(kv', Ring(p)) = rows[Ring(p)]
      <4> HIDE DEF rows, places
      <4> QED
        BY <2>1, <3>4, WrittenAt
    <3> QED
      BY <2>2, <3>1, <3>4, <3>5 DEF Ring
  <2>7. \A p : Row(p, Factor)' = Row(p, Factor)
    BY <1>1, <1>3 DEF Row
  <2>8. RowsHeld'
    BY <1>4, <2>1, <2>5, <2>6, <2>7 DEF RowsHeld
  <2>9. AttentionForms'
    BY <1>1, <1>2, <2>1, CallsRun DEF AttentionInv, AttentionForms
  <2>10. RowsRead'
    BY <1>1 DEF AttentionInv, RowsRead
  <2>11. CallFits'
    BY <1>1, <1>2, <1>3, <1>6, <2>1 DEF AttentionInv, CallFits
  <2> QED
    BY <1>3, <2>8, <2>9, <2>10, <2>11 DEF AttentionInv
<1> QED
  BY <1>5, <1>6

\* The fused kernel stores and reads where the scheduler puts the rows, and
\* undivided: it runs without an owner, and on layers that divide nothing.
LEMMA AttentionFuses ==
    ASSUME AttentionInv, StartInv, Fixed, Fused
    PROVE  AttentionInv'
<1> DEFINE S == {<<"logical", p>> : p \in Span}
           rows == [x \in S |-> Row(x[2], FALSE)]
<1>1. /\ backend.fused /\ call.kind \in {"decode", "verify"}
      /\ call.step = "begun"
      /\ backend.target => ~Descaled
      /\ kv' = Written(S, rows)
      /\ call' = [call EXCEPT !.step = "attended"]
      /\ attended' = {[at |-> p, row |-> At(kv', <<"logical", p>>), factor |-> FALSE] :
                         p \in 0..call.last}
      /\ UNCHANGED <<backend, serial, length, moved, host>>
  BY Zenon DEF Fused, Storable, Fusable
<1>2. call \in Calls /\ backend # NoBackend /\ length \in Nat
  BY <1>1 DEF AttentionInv, AttentionForms, NoCall
<1>3. ~Owned
  BY <1>1, <1>2 DEF AttentionInv, BackendFits
<1>4. ~moved /\ \A p : Home(p) = <<"logical", p>>
  BY <1>3, OwnersWhole DEF AttentionInv, CallFits
<1>5. Factor = FALSE
  BY <1>1, Zenon DEF Factor
<1>6. BackendFits' /\ Factor' = Factor /\ (\A p : Home(p)' = Home(p))
      /\ (Owned' <=> Owned) /\ (Offloading' <=> Offloading)
  BY <1>1, BackendKept DEF AttentionInv
<1>7. /\ call' \in Calls /\ call'.step = "attended" /\ call'.kind = call.kind
      /\ call'.first = call.first /\ call'.last = call.last
  BY <1>1, <1>2, CallUpdates
<1>8. call.first = length /\ call.first <= call.last /\ call.last \in Nat
  BY <1>2, CallsRun DEF AttentionInv, CallFits, Calls
<1>9. Held = length /\ Held' = call.last + 1
  BY <1>1, <1>7 DEF Held
<1>10. ASSUME NEW p \in 0..call.last PROVE At(kv', <<"logical", p>>) = Row(p, FALSE)
  <2>1. CASE p \in Span
    <3>1. <<"logical", p>> \in S /\ rows[<<"logical", p>>] = Row(p, FALSE)
      BY <2>1
    <3> HIDE DEF S, rows
    <3> QED
      BY <1>1, <3>1, WrittenAt
  <2>2. CASE p \notin Span
    <3>1. p \in 0..(length - 1)
      BY <1>2, <1>8, <2>2 DEF Span
    <3>2. <<"logical", p>> \notin S
      <4>1. \A q \in Span : <<"logical", q>> # <<"logical", p>>
        BY <2>2
      <4> QED
        BY <4>1
    <3>3. At(kv', <<"logical", p>>) = At(kv, <<"logical", p>>)
      <4> HIDE DEF S, rows
      <4> QED
        BY <1>1, <3>2, WrittenAt
    <3>4. At(kv, Home(p)) = Row(p, Factor)
      BY <1>4, <1>9, <3>1 DEF AttentionInv, RowsHeld
    <3> QED
      BY <1>4, <1>5, <3>3, <3>4
  <2> QED
    BY <2>1, <2>2
<1>11. RowsHeld'
  <2>1. \A p : Row(p, Factor)' = Row(p, FALSE)
    BY <1>1, <1>5, <1>6 DEF Row
  <2>2. \A p : At(kv, Home(p))' = At(kv', <<"logical", p>>)
    BY <1>4, <1>6 DEF At
  <2>3. ~moved' /\ (0..(Held - 1))' = 0..call.last
    BY <1>1, <1>4, <1>8, <1>9
  <2>4. \A p \in 0..call.last : At(kv, Home(p))' = Row(p, Factor)'
    BY <1>10, <2>1, <2>2
  <2> QED
    BY <2>3, <2>4 DEF RowsHeld
<1>12. RowsRead'
  <2>1. ASSUME NEW a \in attended'
        PROVE  a.row.position = a.at /\ a.row.of = serial /\ a.row.divided = a.factor
    <3>1. PICK p \in 0..call.last :
             a = [at |-> p, row |-> At(kv', <<"logical", p>>), factor |-> FALSE]
      BY <1>1, <2>1
    <3>2. a = Read(p, Row(p, FALSE), FALSE)
      BY <1>10, <3>1 DEF Read
    <3> QED
      BY <3>2, ReadFound
  <2> QED
    BY <1>1, <2>1 DEF RowsRead
<1>13. AttentionForms' /\ CallFits'
  <2>1. AttentionForms'
    BY <1>1, <1>2, <1>7, CallsRun DEF AttentionInv, AttentionForms
  <2>2. CallFits'
    BY <1>1, <1>2, <1>6, <1>7, CallsRun DEF AttentionInv, CallFits
  <2> QED
    BY <2>1, <2>2
<1> QED
  BY <1>6, <1>11, <1>12, <1>13 DEF AttentionInv

\* The rows of a forward are stored where its owner looks for them, divided as
\* its layer asks.
LEMMA AttentionStores ==
    ASSUME AttentionInv, StartInv, Fixed, StoreRows
    PROVE  AttentionInv'
<1> DEFINE S == {Location(p) : p \in Span}
           rows == [x \in S |-> Row(CHOOSE p \in Span : Location(p) = x, Factor)]
<1>1. /\ call.step = "begun"
      /\ call' = [call EXCEPT !.step = "stored", !.live = FALSE]
      /\ UNCHANGED <<backend, serial, length, moved, host, attended>>
  BY DEF StoreRows, Storable, StoredCopy
<1>2. kv' = Written(S, rows)
  BY Zenon DEF StoreRows, Factor
<1>3. call \in Calls /\ backend # NoBackend /\ length \in Nat
  BY <1>1 DEF AttentionInv, AttentionForms, NoCall
<1>4. /\ call' \in Calls /\ call'.step = "stored" /\ call'.kind = call.kind
      /\ call'.first = call.first /\ call'.last = call.last
  BY <1>1, <1>3 DEF Calls
<1>5. /\ call.first = length /\ call.first <= call.last /\ call.last \in Nat
      /\ call.kind = "decode" => call.last = call.first
      /\ call.kind = "extend" => ~moved
      /\ call.kind = "verify" => ~Owned
  BY <1>3, CallsRun DEF AttentionInv, CallFits, Calls
<1>6. BackendFits' /\ Factor' = Factor /\ (\A p : Home(p)' = Home(p))
      /\ (Owned' <=> Owned) /\ (Offloading' <=> Offloading)
  BY <1>1, BackendKept DEF AttentionInv
<1>7. /\ Held = length /\ Held' = call.last + 1
      /\ Closed = Complete(length) /\ Closed' = Complete(length)
  BY <1>1, <1>4 DEF Held, Closed
<1>8. moved => Span = {length} /\ call.last = length
  <2>1. moved => Owned
    BY OwnersWhole DEF AttentionInv, CallFits
  <2>2. call.kind \in {"extend", "decode", "verify"}
    BY <1>3 DEF Calls
  <2> QED
    BY <1>5, <2>1, <2>2 DEF Span
<1>9. ASSUME NEW p \in Span, \A q \in Span : Location(q) = Location(p) => q = p
      PROVE  At(kv', Location(p)) = Row(p, Factor)
  <2>1. (CHOOSE q \in Span : Location(q) = Location(p)) = p
    BY <1>9
  <2>2. Location(p) \in S /\ rows[Location(p)] = Row(p, Factor)
    BY <2>1
  <2> HIDE DEF S, rows
  <2> QED
    BY <1>2, <2>2, WrittenAt
<1>10. ASSUME NEW x, \A q \in Span : Location(q) # x
       PROVE  At(kv', x) = At(kv, x)
  <2>1. x \notin S
    BY <1>10
  <2> HIDE DEF S, rows
  <2> QED
    BY <1>2, <2>1, WrittenAt
<1> HIDE DEF S, rows
<1>11. \A p : Row(p, Factor)' = Row(p, Factor)
  BY <1>1, <1>6 DEF Row
<1>12. RowsHeld'
  <2>1. CASE moved
    <3>1. \A p : Location(p) = Ring(p)
      BY <2>1 DEF Location
    <3>2. \A p \in 0..(Complete(length) - 1) : At(host, p)' = Row(p, Factor)
      BY <1>1, <1>7, <2>1 DEF AttentionInv, RowsHeld, At
    <3>3. ASSUME NEW p \in Complete(length)..length PROVE At(kv', Ring(p)) = Row(p, Factor)
      <4>1. CASE p = length
        BY <1>8, <1>9, <2>1, <3>1, <4>1
      <4>2. CASE p # length
        <5>1. p \in Complete(length)..(length - 1) /\ Complete(length) \in Nat /\ p \in Nat
          BY <1>3, <4>2, CompleteBlocks
        <5>2. Ring(length) # Ring(p)
          <6>1. length \in Complete(length)..length
            BY <1>3, CompleteBlocks
          <6> QED
            BY <1>3, <4>2, <5>1, <6>1, PlacesApart, CompleteBlocks
        <5>3. At(kv', Ring(p)) = At(kv, Ring(p))
          BY <1>8, <1>10, <2>1, <3>1, <5>2
        <5> QED
          BY <1>7, <2>1, <5>1, <5>3 DEF AttentionInv, RowsHeld
      <4> QED
        BY <4>1, <4>2
    <3>4. \A p : At(kv, Ring(p))' = At(kv', Ring(p))
      BY DEF At, Ring
    <3>5. (Held - 1)' = length
      BY <1>3, <1>7, <1>8, <2>1
    <3> QED
      BY <1>1, <1>7, <1>11, <2>1, <3>2, <3>3, <3>4, <3>5 DEF RowsHeld
  <2>2. CASE ~moved
    <3>1. \A p : Location(p) = Home(p)
      BY <2>2 DEF Location, Home
    <3>2. ASSUME NEW p \in 0..call.last PROVE At(kv', Home(p)) = Row(p, Factor)
      <4>1. CASE p \in Span
        BY <1>9, <3>1, <4>1, PlacesApart
      <4>2. CASE p \notin Span
        <5>1. p \in 0..(length - 1)
          BY <1>3, <1>5, <4>2 DEF Span
        <5>2. At(kv', Home(p)) = At(kv, Home(p))
          BY <1>10, <3>1, <4>2, PlacesApart
        <5> QED
          BY <1>7, <2>2, <5>1, <5>2 DEF AttentionInv, RowsHeld
      <4> QED
        BY <4>1, <4>2
    <3>3. \A p : At(kv, Home(p))' = At(kv', Home(p))
      BY <1>6 DEF At
    <3> QED
      BY <1>1, <1>5, <1>7, <1>11, <2>2, <3>2, <3>3 DEF RowsHeld
  <2> QED
    BY <2>1, <2>2
<1>13. AttentionForms' /\ CallFits' /\ RowsRead'
  <2>1. AttentionForms'
    BY <1>1, <1>3, <1>4, CallsRun DEF AttentionInv, AttentionForms
  <2>2. CallFits'
    BY <1>1, <1>3, <1>4, <1>6, CallsRun DEF AttentionInv, CallFits
  <2>3. RowsRead'
    BY <1>1 DEF AttentionInv, RowsRead
  <2> QED
    BY <2>1, <2>2, <2>3
<1> QED
  BY <1>6, <1>12, <1>13 DEF AttentionInv

\* The owner closes a block of the ring when it is full, and no other.
LEMMA AttentionNotes ==
    ASSUME AttentionInv, StartInv, Fixed, AfterStore
    PROVE  AttentionInv'
<1> DEFINE block == (call.last - 3)..call.last
           rows == [p \in block |-> At(kv, Ring(p))]
<1>1. /\ call.step = "stored" /\ call.kind = "decode" /\ Owned
      /\ call' = [call EXCEPT !.step = "noted"]
      /\ host' = IF Closes THEN [p \in block \cup DOMAIN host |->
                                    IF p \in block THEN rows[p] ELSE host[p]]
                 ELSE host
      /\ UNCHANGED <<backend, serial, length, moved, kv, attended>>
  BY DEF AfterStore
<1>2. call \in Calls /\ length \in Nat
  BY <1>1 DEF AttentionInv, AttentionForms, NoCall
<1>3. /\ call' \in Calls /\ call'.step = "noted" /\ call'.kind = call.kind
      /\ call'.first = call.first /\ call'.last = call.last
  BY <1>1, <1>2, CallUpdates
<1>4. call.last = length
  BY <1>1, <1>2, CallsRun DEF AttentionInv, CallFits
<1>5. BackendFits' /\ Factor' = Factor /\ (\A p : Home(p)' = Home(p))
      /\ (Owned' <=> Owned) /\ (Offloading' <=> Offloading)
  BY <1>1, BackendKept DEF AttentionInv
<1>6. /\ Held = length + 1 /\ Held' = length + 1
      /\ Closed = Complete(length) /\ Closed' = Complete(length + 1)
  BY <1>1, <1>3, <1>4 DEF Held, Closed, Complete
<1>7. \A p : /\ Row(p, Factor)' = Row(p, Factor)
             /\ At(kv, Ring(p))' = At(kv, Ring(p)) /\ At(kv, Home(p))' = At(kv, Home(p))
  BY <1>1, <1>5 DEF Row, At, Ring
<1>8. RowsHeld'
  <2>1. CASE ~moved
    BY <1>1, <1>6, <1>7, <2>1 DEF AttentionInv, RowsHeld
  <2>2. CASE moved
    <3>1. /\ \A p \in 0..(Complete(length) - 1) : At(host, p) = Row(p, Factor)
          /\ \A p \in Complete(length)..length : At(kv, Ring(p)) = Row(p, Factor)
      BY <1>2, <1>6, <2>2 DEF AttentionInv, RowsHeld
    <3>2. CASE (length + 1) % 4 = 0
      <4>1. Closes /\ Complete(length) = length - 3 /\ Complete(length + 1) = length + 1
        BY <1>2, <1>4, <2>2, <3>2, CompleteBlocks DEF Closes
      <4>2. host' = [p \in block \cup DOMAIN host |-> IF p \in block THEN rows[p] ELSE host[p]]
        BY <1>1, <4>1
      <4>3. \A p \in block : rows[p] = Row(p, Factor)
        BY <1>4, <3>1, <4>1
      <4>4. ASSUME NEW p \in 0..length PROVE At(host', p) = Row(p, Factor)
        <5>1. At(host', p) = IF p \in block THEN rows[p] ELSE At(host, p)
          <6> HIDE DEF block, rows
          <6> QED
            BY <4>2, HostAt
        <5>2. p \notin block => p \in 0..(Complete(length) - 1)
          BY <1>2, <1>4, <4>1
        <5> QED
          BY <3>1, <4>3, <5>1, <5>2
      <4>5. moved' /\ (0..(Closed - 1))' = 0..length /\ (Closed..(Held - 1))' = {}
        BY <1>1, <1>2, <1>6, <2>2, <4>1
      <4>6. \A p \in 0..length : At(host, p)' = Row(p, Factor)'
        BY <1>7, <4>4
      <4> QED
        BY <4>5, <4>6 DEF RowsHeld
    <3>3. CASE (length + 1) % 4 # 0
      <4>1. ~Closes /\ Complete(length + 1) = Complete(length)
        BY <1>2, <1>4, <3>3, CompleteBlocks DEF Closes
      <4>2. host' = host
        BY <1>1, <4>1
      <4>3. \A p : At(host, p)' = At(host, p)
        BY <4>2 DEF At
      <4> QED
        BY <1>1, <1>2, <1>6, <1>7, <2>2, <3>1, <4>1, <4>3 DEF RowsHeld
    <3> QED
      BY <3>2, <3>3
  <2> QED
    BY <2>1, <2>2
<1>9. AttentionForms' /\ CallFits' /\ RowsRead'
  <2>1. AttentionForms'
    BY <1>1, <1>2, <1>3, CallsRun DEF AttentionInv, AttentionForms
  <2>2. CallFits'
    BY <1>1, <1>2, <1>3, <1>5, CallsRun DEF AttentionInv, CallFits
  <2>3. RowsRead'
    BY <1>1 DEF AttentionInv, RowsRead
  <2> QED
    BY <2>1, <2>2, <2>3
<1> QED
  BY <1>5, <1>8, <1>9 DEF AttentionInv

\* Whatever path a forward reads by, it finds the rows where they are.
LEMMA ReadsExact ==
    ASSUME AttentionInv, StartInv, Readable, NEW p \in 0..call.last
    PROVE  LET a == Reads(p)
           IN  a.row.position = a.at /\ a.row.of = serial /\ a.row.divided = a.factor
<1>1. /\ call \in Calls /\ backend # NoBackend /\ call.step \in {"stored", "noted"}
      /\ call.step = "stored" => ~(call.kind = "decode" /\ Owned)
  BY DEF Readable, AttentionInv, AttentionForms, NoCall
<1>2. /\ call.first = length /\ call.first <= call.last /\ call.last \in Nat
      /\ call.kind = "decode" => (Offloading => moved)
      /\ call.kind = "extend" => ~moved
      /\ call.kind = "verify" => ~Owned
      /\ moved => Offloading
      /\ call.live = FALSE /\ call.kind \in {"extend", "verify", "decode"}
  BY <1>1, CallsRun DEF AttentionInv, CallFits, Calls
<1>3. Held = call.last + 1
  BY <1>1 DEF Held
<1>4. ~moved => At(kv, Home(p)) = Row(p, Factor)
  BY <1>2, <1>3 DEF AttentionInv, RowsHeld
<1>5. Offloading => Owned
  BY OwnersWhole
<1>6. Owned => backend.device = "cuda"
  BY <1>1 DEF AttentionInv, BackendFits
<1>7. CASE call.kind = "extend" /\ call.first = 0 /\ backend.device = "cuda"
  <2>1. Reads(p) = Read(p, Row(p, FALSE), FALSE)
    BY <1>2, <1>7 DEF Reads, FromPrompt
  <2> QED
    BY <2>1, ReadFound
<1>8. CASE ~(call.kind = "extend" /\ call.first = 0 /\ backend.device = "cuda")
  <2>1. CASE ~moved
    <3>1. CASE ~(call.kind = "extend" /\ backend.device = "cuda")
      <4>1. ~Offloading \/ ~Owned
        BY <1>2, <1>6, <2>1, <3>1
      <4>2. Home(p) = <<"logical", p>>
        BY <4>1, OwnersWhole
      <4>3. Reads(p) = Read(p, Table(p), Factor)
        BY <2>1, <3>1 DEF Reads, FromReference, FromTable, FromSelected
      <4>4. Table(p) = Row(p, Factor)
        BY <1>4, <2>1, <4>2 DEF Table
      <4> QED
        BY <4>3, <4>4, ReadFound
    <3>2. CASE call.kind = "extend" /\ backend.device = "cuda"
      <4>1. Reads(p) = Read(p, Row(p, Factor), Factor)
        BY <1>4, <1>8, <2>1, <3>2 DEF Reads, FromPacked
      <4> QED
        BY <4>1, ReadFound
    <3> QED
      BY <3>1, <3>2
  <2>2. CASE moved
    <3>1. /\ Owned /\ call.kind = "decode" /\ call.step = "noted"
          /\ backend.device = "cuda"
      BY <1>1, <1>2, <1>5, <1>6, <2>2
    <3>2. Reads(p) = Read(p, Compact(p), Factor)
      BY <2>2, <3>1 DEF Reads, Paged, FromSelected
    <3>3. Closed = Complete(call.last + 1) /\ Held = call.last + 1
      BY <1>3, <3>1 DEF Closed
    <3>4. p \div 4 < (call.last + 1) \div 4 <=> p < Complete(call.last + 1)
      <4>1. call.last + 1 \in Nat /\ p \in 0..((call.last + 1) - 1)
        BY <1>2
      <4> QED
        BY <4>1, CompleteBlocks
    <3>5. Complete(call.last + 1) \in Nat
      <4>1. call.last + 1 \in Nat
        BY <1>2
      <4> QED
        BY <4>1, CompleteBlocks
    <3>6. Compact(p) = Row(p, Factor)
      <4>1. CASE p < Complete(call.last + 1)
        <5>1. p \in 0..(Closed - 1)
          BY <3>3, <3>5, <4>1
        <5> QED
          BY <2>2, <3>4, <4>1, <5>1 DEF AttentionInv, RowsHeld, Compact
      <4>2. CASE ~(p < Complete(call.last + 1))
        <5>1. p \in Closed..(Held - 1)
          BY <1>2, <3>3, <3>5, <4>2
        <5> QED
          BY <2>2, <3>4, <4>2, <5>1 DEF AttentionInv, RowsHeld, Compact
      <4> QED
        BY <4>1, <4>2
    <3> QED
      BY <3>2, <3>6, ReadFound
  <2> QED
    BY <2>1, <2>2
<1> QED
  BY <1>7, <1>8

\* What a forward has read, it has read exactly.
LEMMA AttentionAttends ==
    ASSUME AttentionInv, StartInv, Fixed, Attend
    PROVE  AttentionInv'
<1>1. /\ Readable /\ UNCHANGED <<backend, serial, length, moved, kv, host>>
      /\ attended' = {Reads(p) : p \in 0..call.last}
  BY DEF Attend
<1>2. PICK s \in {"begun", "stored", "noted", "attended", "ragged"} :
         s \in {"attended", "ragged"} /\ call' = [call EXCEPT !.step = s]
  BY DEF Attend
<1>3. /\ call \in Calls /\ call.step \in {"stored", "noted"} /\ length \in Nat
      /\ call.step = "stored" => ~(call.kind = "decode" /\ Owned)
  BY <1>1 DEF Readable, AttentionInv, AttentionForms, NoCall
<1>4. /\ call' \in Calls /\ call'.step = s /\ call'.kind = call.kind
      /\ call'.first = call.first /\ call'.last = call.last
  <2>1. PICK c, d : c = call /\ d = [c EXCEPT !.step = s]
    OBVIOUS
  <2>2. c \in Calls /\ call' = d
    BY <1>2, <1>3, <2>1
  <2>3. d \in Calls /\ d.step = s /\ d.kind = c.kind /\ d.first = c.first /\ d.last = c.last
    BY <2>1, <2>2 DEF Calls
  <2> QED
    BY <2>1, <2>2, <2>3
<1>5. BackendFits' /\ Factor' = Factor /\ (\A p : Home(p)' = Home(p))
      /\ (Owned' <=> Owned) /\ (Offloading' <=> Offloading)
  BY <1>1, BackendKept DEF AttentionInv
<1>6. RowsRead'
  <2>1. ASSUME NEW a \in attended'
        PROVE  a.row.position = a.at /\ a.row.of = serial /\ a.row.divided = a.factor
    BY <1>1, <2>1, ReadsExact
  <2> QED
    BY <1>1, <2>1 DEF RowsRead
<1>7. AttentionForms' /\ CallFits'
  <2>1. AttentionForms'
    BY <1>1, <1>3, <1>4, CallsRun DEF AttentionInv, AttentionForms
  <2>2. CallFits'
    BY <1>1, <1>3, <1>4, <1>5, CallsRun DEF AttentionInv, CallFits
  <2> QED
    BY <2>1, <2>2
<1>8. Held' = Held /\ (moved => Closed' = Closed)
  <2>1. moved => call.step = "noted"
    <3>1. moved => Owned /\ call.kind = "decode"
      BY <1>3, CallsRun, OwnersWhole DEF AttentionInv, CallFits, Calls
    <3> QED
      BY <1>3, <3>1
  <2> QED
    BY <1>2, <1>3, <1>4, <2>1 DEF Held, Closed
<1>9. \A p : /\ Row(p, Factor)' = Row(p, Factor) /\ At(host, p)' = At(host, p)
             /\ At(kv, Ring(p))' = At(kv, Ring(p)) /\ At(kv, Home(p))' = At(kv, Home(p))
  BY <1>1, <1>5 DEF Row, At, Ring
<1>10. RowsHeld'
  BY <1>1, <1>8, <1>9 DEF AttentionInv, RowsHeld
<1> QED
  BY <1>5, <1>6, <1>7, <1>10 DEF AttentionInv

\* The tokens of a forward are the request's from then on.
LEMMA AttentionEnds ==
    ASSUME AttentionInv, Fixed, EndCall
    PROVE  AttentionInv'
<1>1. /\ call.step \in {"attended", "ragged"} /\ length' = call.last + 1
      /\ call' = NoCall /\ attended' = {}
      /\ UNCHANGED <<backend, serial, moved, kv, host>>
  BY DEF EndCall
<1>2. call \in Calls /\ call.last \in Nat /\ backend # NoBackend
  <2>1. call # NoCall
    BY <1>1 DEF NoCall
  <2>2. call \in Calls /\ backend # NoBackend
    BY <2>1 DEF AttentionInv, AttentionForms
  <2> QED
    BY <2>2 DEF Calls
<1>3. BackendFits' /\ Factor' = Factor /\ (\A p : Home(p)' = Home(p))
      /\ (Owned' <=> Owned) /\ (Offloading' <=> Offloading)
  BY <1>1, BackendKept DEF AttentionInv
<1>4. AttentionForms' /\ RowsRead' /\ CallFits'
  BY <1>1, <1>2, <1>3 DEF AttentionInv, AttentionForms, RowsRead, CallFits
<1>5. Held' = Held /\ Closed' = Closed
  BY <1>1 DEF Held, Closed, NoCall, Complete
<1> QED
  BY <1>1, <1>4, <1>5, AttentionSteps

\* Once a process serves it serves on or stops, with the features it has.
LEMMA ServesOn ==
    ASSUME [Next]_processVars, stage \in {"serving", "stopped"}
    PROVE  stage' \in {"serving", "stopped"} /\ activated' = activated
<1>1. CASE ConfigNext
  BY <1>1 DEF ConfigNext, PricePools, BuildPools, AttachOwner, BuildCache, Starting, OnlyStops,
              Stop, activationVars
<1>2. CASE ActivationNext
  BY <1>2 DEF ActivationNext, LoadMalformed, LoadInactive, LoadAgain, LoadRefused, LoadFails,
              LoadActivates, Loadable, Registers, Binds, EnvironmentChanges, FinalPass, Publish,
              ConfigureVerified, ConfigureRefused, ConfigureUnhooked, DecideScope, Stop
<1>3. CASE UNCHANGED activationVars
  BY <1>3 DEF activationVars
<1> QED
  BY <1>1, <1>2, <1>3 DEF Next, Activates, Starts, Serves, Decodes, Attends, processVars

\* A backend's owner stays: it was there before, or there never is one.
LEMMA OwnerStays ==
    ASSUME [Next]_processVars, BackendFits, backend # NoBackend
    PROVE  owner' = owner
<1>1. owner' = owner \/ AttachOwner
  BY DEF Next, Activates, Starts, Serves, Decodes, Attends, processVars, configVars,
         ConfigNext, PricePools, BuildPools, BuildCache
<1>2. ~AttachOwner
  BY DEF BackendFits, AttachOwner, Starting
<1> QED
  BY <1>1, <1>2

\* Every step of the process keeps the rows of the requests.
LEMMA AttentionInvNext ==
    AttentionInv /\ StartInv /\ [Next]_processVars => AttentionInv'
<1> SUFFICES ASSUME AttentionInv, StartInv, [Next]_processVars PROVE AttentionInv'
  OBVIOUS
<1>1. CASE UNCHANGED attentionVars
  <2>1. ASSUME backend # NoBackend PROVE owner' = owner /\ BackendFits'
    <3>1. owner' = owner /\ backend' = backend
      BY <1>1, <2>1, OwnerStays DEF AttentionInv, attentionVars
    <3>2. stage' \in {"serving", "stopped"} /\ activated' = activated
      BY <2>1, ServesOn DEF AttentionInv, BackendFits
    <3>3. Owned' <=> Owned
      BY <3>1 DEF Owned
    <3> QED
      BY <2>1, <3>1, <3>2, <3>3, Zenon DEF AttentionInv, BackendFits
  <2> QED
    BY <1>1, <2>1, AttentionQuiet
<1>2. CASE AttentionNext /\ Fixed
  <2>1. \A n \in 1..3 : n \in Nat \ {0}
    OBVIOUS
  <2>2. \A n \in 1..2 : n \in Nat \ {0}
    OBVIOUS
  <2> QED
    BY <1>2, <2>1, <2>2, AttentionBuilds, AttentionPlans, AttentionNextServed,
       AttentionExtends, AttentionDecodes, AttentionFuses, AttentionStores,
       AttentionNotes, AttentionAttends, AttentionEnds DEF AttentionNext
<1>3. UNCHANGED attentionVars \/ (AttentionNext /\ Fixed)
  BY DEF Next, Activates, Starts, Serves, Decodes, Attends, processVars, activationVars,
         configVars, Fixed
<1> QED
  BY <1>1, <1>2, <1>3

\* Whatever machine, layer, owner and lengths, the attention of a forward reads
\* for every token the row that this request stored for it, and multiplies it
\* by the layer's scale exactly if it was divided by it.
THEOREM AttentionReadsExactly == Spec => []AttentionExact
<1>1. Init => StartInv /\ AttentionInv
  BY StartInit, AttentionInvInit DEF Init
<1>2. AttentionInv => AttentionExact
  BY DEF AttentionInv, RowsRead, AttentionExact
<1> QED
  BY <1>1, <1>2, StartInvNext, AttentionInvNext, PTL DEF Spec

=============================================================================

---------------------------- MODULE MCQSAProcess ----------------------------
(* A process with two plugins, seven names, and small pools.               *)
EXTENDS QSAProcess

\* A replaced class and its member, a wrapped function, the hook point of the
\* framework, a dependency, a new member, a property, and someone else's name.
NamesValue == {"Cls", "Cls.m", "Cls.new", "fn", "conf", "dep", "prop", "other"}
InsideValue == {<<"Cls.m", "Cls">>, <<"Cls.new", "Cls">>}
UpstreamValue == NamesValue \ {"Cls.new"}

Hook(t, k, f) == [target |-> t, kind |-> k, of |-> f]
Good ==
    [hooks |-> <<Hook("conf", "before", "framework"), Hook("fn", "around", "model_compat"),
                 Hook("Cls", "class", "hisparse")>>,
     attached |-> <<Hook("Cls.new", "attach", "hisparse")>>,
     depends |-> {Hook("dep", "depend", "hisparse")},
     manifest |-> {Hook("conf", "before", "framework"), Hook("fn", "around", "model_compat"),
                   Hook("Cls", "class", "hisparse"), Hook("Cls.new", "attach", "hisparse")},
     broken |-> FALSE,
     drifted |-> {}]
With(h) == [Good EXCEPT !.hooks = Append(@, h), !.manifest = @ \cup {h}]
Attaching(a) == [Good EXCEPT !.attached = Append(@, a), !.manifest = @ \cup {a}]
PackagesValue ==
    {Good,
     [Good EXCEPT !.broken = TRUE],
     [Good EXCEPT !.drifted = {"dep"}],
     [Good EXCEPT !.drifted = {"fn"}],
     [Good EXCEPT !.manifest = {}],
     [Good EXCEPT !.hooks = Append(@, @[2])],
     With(Hook("fn", "replace", "hisparse")),
     With(Hook("Cls", "replace", "hisparse")),
     With(Hook("Cls.m", "around", "hisparse")),
     With(Hook("prop", "around", "hisparse")),
     With(Hook("Cls.new", "around", "hisparse")),
     Attaching(Hook("Cls.new", "attach", "model_compat")),
     Attaching(Hook("other", "attach", "hisparse"))}
Switches(c, m) == [compat |-> c, mode |-> m]
EnvironmentsValue ==
    {Switches("", "none"), Switches("1", "none"), Switches("0", "offload")} \cup
    {Switches("1", m) : m \in {"p2-offload", "p2-resident", "offload"}}
Arguments(requests, memory, graph, budget) ==
    [requests |-> requests, total |-> 4 * requests, memory |-> memory, graph |-> graph,
     budget |-> budget, bounded |-> TRUE, hierarchical |-> FALSE]

\* Two requests in p2-offload take 40 bytes and 8 of keys: 48 is exact, and
\* 47 a byte short. The rest is right, or wrong in one place.
ArgumentsValue ==
    {Arguments(2, m, TRUE, b) : m \in {40, 47, 48, 100}, b \in {0, 1}} \cup
    {Arguments(2, 100, FALSE, b) : b \in {0, 1}} \cup
    {Arguments(1, m, FALSE, b) : m \in {11, 12, 100}, b \in {0, 1}} \cup
    {Arguments(3, 100, TRUE, 0),
     [Arguments(2, 100, TRUE, 0) EXCEPT !.total = 4],
     [Arguments(2, 100, TRUE, 1) EXCEPT !.bounded = FALSE],
     [Arguments(2, 100, TRUE, 1) EXCEPT !.hierarchical = TRUE]}

Machine(d, paged, one, wrapper) ==
    [device |-> d, trtllm |-> paged, fused |-> one, ragged |-> wrapper]
MachinesValue ==
    {Machine("cpu", FALSE, FALSE, FALSE), Machine("cuda", TRUE, FALSE, FALSE),
     Machine("cuda", FALSE, TRUE, TRUE)}
LayersValue ==
    {[fp8 |-> FALSE, scale |-> "other"], [fp8 |-> TRUE, scale |-> "other"],
     [fp8 |-> TRUE, scale |-> "absent"]}

\* Starts are explored in processes nobody else touched, and requests in those
\* whose switches are still what was activated.
Explored ==
    /\ pools.step # "none" => 
          package = Good /\ meddled = {} /\ \A n \in Names : "other" \notin ToSet(live[n])
    /\ generation > 0 \/ capturing > 0 \/ graphs # {} =>
          ReadFeatures(environment) = activated /\ asked = {activated} /\ record = activated
    /\ backend # NoBackend =>
          /\ ReadFeatures(environment) = activated /\ asked = {activated}
          /\ record = activated /\ package = Good
          /\ generation = 0 /\ capturing = 0 /\ graphs = {}
          /\ owner.kind # "none" => arguments.memory = 100 /\ arguments.budget = 0
          /\ \A n \in Names : "other" \notin ToSet(live[n])
          /\ meddled = {}
=============================================================================

----------------------------- MODULE QSAProcess -----------------------------
(***************************************************************************)
(* A scheduler process from the load of its plugins to the requests it     *)
(* serves: QSAActivation, then QSAConfig, then the owner that the mode     *)
(* names, QSASingleRequest or the graphs of QSAGraph. Each part acts when  *)
(* the one before it has let it: an owner exists only in a process whose   *)
(* activation passed and whose pools were built.                           *)
(***************************************************************************)
EXTENDS QSASingleRequest, QSAGraph, QSAAttention

processVars == <<activationVars, configVars, singleVars, graphVars, attentionVars>>

Init == ActivationInit /\ ConfigInit /\ SingleInit /\ GraphInit /\ AttentionInit

\* The loader, the other plugins and the hooks of the framework.
Activates == ActivationNext /\ UNCHANGED <<configVars, singleVars, graphVars, attentionVars>>

\* The model worker starts (each part says what it leaves alone).
Starts == ConfigNext /\ UNCHANGED <<singleVars, graphVars, attentionVars>>

Serves == SingleNext /\ UNCHANGED <<activationVars, configVars, graphVars, attentionVars>>
Decodes == GraphNext /\ UNCHANGED <<activationVars, configVars, singleVars, attentionVars>>

\* A layer of a forward, of whatever owner (its own account of a request).
Attends == AttentionNext /\ UNCHANGED <<activationVars, configVars, singleVars, graphVars>>

Next == Activates \/ Starts \/ Serves \/ Decodes \/ Attends

Spec == Init /\ [][Next]_processVars

=============================================================================

------------------------------ MODULE Registry ------------------------------
(***************************************************************************)
(* The backends a driver can find: the core ones, compiled in, and those a *)
(* program registers at run time in a fixed number of slots per stage      *)
(* (src/core/registry.c).                                                  *)
(***************************************************************************)
EXTENDS BlockRecord

CONSTANT MaxSlots     \* TDC_PLUGIN_MAX_SLOTS

ASSUME RegistryAssumption == MaxSlots \in Nat

VARIABLE slots     \* for each stage, the ids registered, oldest first

Stages == {"model", "xform", "entropy"}
Core == [model |-> CoreModels, xform |-> CoreXforms, entropy |-> CoreCoders]
PluginIds == [model |-> PluginModels, xform |-> PluginXforms, entropy |-> PluginCoders]

RegistryInit == slots = [s \in Stages |-> <<>>]

\* Mutant: the slots are not counted.
RegisterUncounted(stage, id) ==
    /\ id \in PluginIds[stage]
    /\ id \notin ToSet(slots[stage])
    /\ slots' = [slots EXCEPT ![stage] = Append(@, id)]

\* Outside the range for plugins, already taken, or with every slot taken, a
\* registration is refused.
Register(stage, id) ==
    /\ id \in PluginIds[stage]
    /\ id \notin ToSet(slots[stage])
    /\ Len(slots[stage]) < MaxSlots
    /\ slots' = [slots EXCEPT ![stage] = Append(@, id)]

Clear == slots' = [s \in Stages |-> <<>>]

\* tdc_model_get, tdc_xform_get and tdc_entropy_get.
Known(stage, id) == id \in Core[stage] \cup ToSet(slots[stage])

RegistryTypeOK ==
    \A s \in Stages : /\ ToSet(slots[s]) \subseteq PluginIds[s]
                      /\ Len(slots[s]) = Cardinality(ToSet(slots[s]))
                      /\ Len(slots[s]) <= MaxSlots
=============================================================================

---------------------------- MODULE MCSubmitGate ----------------------------
(***************************************************************************)
(* Values for SubmitGate's constants: two scopes of one correlation group. *)
(***************************************************************************)
EXTENDS SubmitGate

MCScopes  == {"eurusd", "gbpusd"}
MCCluster == [s \in MCScopes |-> "majors"]
MCIntents == {<<"eurusd", 1>>, <<"eurusd", 2>>, <<"gbpusd", 1>>}
MCRates   == {[window |-> 1, all |-> 3, one |-> 2]}
=============================================================================

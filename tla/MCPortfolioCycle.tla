-------------------------- MODULE MCPortfolioCycle --------------------------
(***************************************************************************)
(* Values for PortfolioCycle's constants: two scopes of one cluster, in    *)
(* deployments that share no behaviour.                                    *)
(***************************************************************************)
EXTENDS PortfolioCycle

MCScopes   == {"eurusd", "gbpusd"}
MCPosition == [eurusd |-> 1, gbpusd |-> 2]
MCIntents  == {<<"eurusd", 1>>, <<"eurusd", 2>>, <<"gbpusd", 1>>}

\* Each asset, and the cluster of both.
MCGroups == {[members |-> {"eurusd"}, cap |-> 1, cycle |-> 1],
             [members |-> {"gbpusd"}, cap |-> 1, cycle |-> 1],
             [members |-> MCScopes, cap |-> 2, cycle |-> 1]}

Quiet == [trading |-> {}, flaky |-> {}, daemons |-> {}, switches |-> {},
          operator |-> FALSE, faults |-> FALSE]

\* Both trade, undisturbed but for the kill switch; one trades while queries and the
\* runner fail, while its children are killed, or with a daemon; a scope that fails
\* has a daemon and an operator, or the switches, beside the runner.
MCDeployments ==
    { [Quiet EXCEPT !.trading = MCScopes, !.switches = {"kill"}],
      [Quiet EXCEPT !.trading = {"eurusd"}, !.faults = TRUE],
      [Quiet EXCEPT !.trading = {"eurusd"}, !.flaky = {"eurusd"}],
      [Quiet EXCEPT !.trading = {"eurusd"}, !.daemons = {"eurusd"}],
      [Quiet EXCEPT !.flaky = {"eurusd"}, !.daemons = {"eurusd"}, !.operator = TRUE],
      [Quiet EXCEPT !.flaky = {"eurusd"}, !.switches = {"kill", "drain"}] }
=============================================================================

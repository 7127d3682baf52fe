----------------------------- MODULE MCProgramRun -----------------------------
EXTENDS ProgramRun

MCPaths == <<"s1", "s2", "s3">>

Asks(actions) == [Blank EXCEPT !.actions = actions]

MCRequest ==
  {[Asks({"backup"}) EXCEPT !.warnStore = TRUE, !.stores = {"s1"}],
   [Asks({"pruneIncomplete", "text"}) EXCEPT !.wait = TRUE],
   [Asks({"latest"}) EXCEPT !.args = {"volume"}, !.unmountedStores = {"s3"}],
   [Asks({"retireDevice", "retire"}) EXCEPT !.args = {"volume"}],
   Asks({"dumpConfig"})}

Place == [readable |-> TRUE, lock |-> TRUE, hooks |-> TRUE, stores |-> {"s1", "s2"},
          mounted |-> {"s1"}, plain |-> {}, missing |-> {"s3"},
          labels |-> {"d1", "d2"}]

MCSite ==
  {Place, [Place EXCEPT !.mounted = {"s1", "s2"}, !.labels = {"d1", "unreadable"}],
   [Place EXCEPT !.hooks = FALSE, !.plain = {"s2"}, !.labels = {"d2", "bad"}],
   [Place EXCEPT !.readable = FALSE]}
=============================================================================

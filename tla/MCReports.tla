------------------------------ MODULE MCReports ------------------------------
(* Instances of Reports: one host with two volumes, two devices, and records of   *)
(* names that the configuration does not have.                               *)
EXTENDS Reports

MCDeviceNames == <<"a", "b">>
MCKnownVolumes == {<<"h", "v">>, <<"h", "w">>}

Rec(h, v, d, t, s, log, pruned) ==
  [host |-> h, volume |-> v, device |-> d, time |-> t, status |-> s,
   contents |-> log, pruned |-> pruned]

MCFirstRows ==
  {Rec("h", "v", "a", 1, "COMPLETE", <<"1M">>, 0), Rec("h", "v", "b", 1, "COMPLETE", <<>>, 0),
   Rec("h", "v", "a", 2, "FAILED", <<"text">>, 0), Rec("h", "w", "a", 1, "UNDERWAY", <<>>, 0),
   Rec("h", "w", "b", 1, "PRUNING", <<"policy">>, 2), Rec("h", "w", "b", 2, "PRUNED", <<"policy">>, 2),
   Rec("h", "v", "x", 1, "COMPLETE", <<>>, 0), Rec("g", "v", "a", 1, "FAILED", <<"text">>, 0),
   Rec("h", "u", "a", 1, "COMPLETE", <<>>, 0)}
=============================================================================

--------------------------- MODULE MCReportTables ---------------------------
(* Instances of ReportTables: no device to two, hosts of none to two volumes.     *)
EXTENDS ReportTables
MCShapes ==
  {[devices |-> 0, hosts |-> <<1>>], [devices |-> 1, hosts |-> <<2, 1>>],
   [devices |-> 1, hosts |-> <<>>], [devices |-> 2, hosts |-> <<1, 0, 2>>]}
=============================================================================

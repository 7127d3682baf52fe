------------------------------ MODULE MCProgram ------------------------------
(***************************************************************************)
(* The machines of the program that share nothing, in one run for TLC: each       *)
(* behaviour is of one of them, while the others stay as they are. The states    *)
(* are those of each instance, one after another.                              *)
(***************************************************************************)
EXTENDS Dates, MCConfigFile, MCProgramRun, MCReports, MCReportTables

VARIABLE part

(* The turn of a century with a leap year, and of one without; the end of a year  *)
(* after a leap year, and a leap day.                                         *)
MCFirstDates ==
  {[y |-> 1999, m |-> 12, d |-> 1], [y |-> 2000, m |-> 2, d |-> 27],
   [y |-> 2100, m |-> 1, d |-> 29], [y |-> 2003, m |-> 12, d |-> 31]}

AnyDate == CHOOSE t \in FirstDates : TRUE
AnyShape == CHOOSE s \in Shapes : TRUE

Parts == {"calendar", "reader", "program", "records", "table"}

ProgramInit ==
  /\ part \in Parts
  /\ CalendarInit
  /\ part # "calendar" => first = AnyDate
  /\ ReadInit
  /\ part # "reader" => subject = Stanzas \cup Everywhere({"hook-timeout"}, {<<"0s">>, <<"24h">>})
  /\ RunInit
  /\ part # "program" => site = Place /\ media = [s \in Path |-> Absent]
  /\ RecordsInit
  /\ part # "records" => rows = {}
  /\ TableInit
  /\ part # "table" =>
       shape = AnyShape /\ texts = [cells |-> {1, 5}, length |-> 30]

ProgramNext ==
  /\ UNCHANGED part
  /\ \/ part = "calendar" /\ CalendarNext /\ UNCHANGED <<reader, program, records, table>>
     \/ part = "reader" /\ ReadNext /\ UNCHANGED <<calendar, program, records, table>>
     \/ part = "program" /\ RunNext /\ UNCHANGED <<calendar, reader, records, table>>
     \/ part = "records" /\ RecordsNext /\ UNCHANGED <<calendar, reader, program, table>>
     \/ part = "table" /\ TableNext /\ UNCHANGED <<calendar, reader, program, records>>

ProgramSpec ==
  ProgramInit /\ [][ProgramNext]_<<part, calendar, reader, program, records, table>>
=============================================================================

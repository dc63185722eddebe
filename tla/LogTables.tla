------------------------------ MODULE LogTables ------------------------------
(***************************************************************************)
(* The daily log tables of dbutils/dbsession.go: CheckLogTable copies a   *)
(* template table's CREATE statement into tables name_<date> for today    *)
(* and tomorrow when they are missing, and drops the tables of the 90     *)
(* days before the last week.                                             *)
(*   - Time is in hours from a midnight, with no daylight-saving shift;  *)
(*     a date is the day number Day(h), which "2006_01_02" formats        *)
(*     injectively, so a table is its day.                                *)
(*   - The tables of one name are a set of days; names do not interact.  *)
(*   - ds.Exec's errors are dropped by the code: whether a check's Execs *)
(*     succeed is the input ok.  SHOW CREATE TABLE and the existence      *)
(*     queries panic on error (CheckError) and are taken to succeed.      *)
(***************************************************************************)
EXTENDS Integers, FiniteSets

\* The constants CheckLogTable hard-codes.
RemainLogDays == 7
DropDays == 90
HoursPerDay == 24

Day(h) == h \div HoursPerDay

\* The CREATE of a missing table, when the Exec succeeds.
Ensure(tables, d, ok) == IF d \notin tables /\ ok THEN tables \cup {d} ELSE tables

\* CheckDropTable: a table that exists is dropped when the Exec succeeds.
CheckDropTable(tables, d, ok) == IF d \in tables /\ ok THEN tables \ {d} ELSE tables

\* The drop loop: for i in 0..89, CheckDropTable of the date
\* RemainLogDays + 1 + i days before now.  Each turn touches its own
\* date, so the loop drops every existing table of these dates.
DropDaysBack(tables, now, ok) ==
    tables \ {d \in tables :
                 /\ d \notin CheckDropTable({d}, d, ok)
                 /\ \E i \in 0..(DropDays - 1) : d = Day(now - (RemainLogDays + 1 + i) * HoursPerDay)}

\* Mutant: tomorrow's table is not created.
CheckLogTableNoTomorrow(tables, now, remainDay, ok) ==
    DropDaysBack(Ensure(tables, Day(now), ok), now, ok)

\* CheckLogTable(tableName, remainDay) at hour now: today's table, then
\* tomorrow's, then the drop loop; remainDay is not read.
CheckLogTable(tables, now, remainDay, ok) ==
    DropDaysBack(Ensure(Ensure(tables, Day(now), ok), Day(now + HoursPerDay), ok), now, ok)

\* CheckLogTables: CheckLogTable on each name, the tables of a name
\* being db[name].
CheckLogTables(db, now, remainDay, ok) ==
    [name \in DOMAIN db |-> CheckLogTable(db[name], now, remainDay, ok)]
=============================================================================

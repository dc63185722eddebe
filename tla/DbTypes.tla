------------------------------ MODULE DbTypes -------------------------------
(***************************************************************************)
(* The column types of dbutils/dbtype.go and the time helpers of          *)
(* common/utils.go they use: how DBTime, DBDate, DBIntBool and DBBool     *)
(* are written to and read from JSON, and scanned from a column.          *)
(*   - A time is [d, s, ns, loc]: its wall-clock day and second of the    *)
(*     day in its location loc, and whether it has a fraction of a second *)
(*     (ns).  Two times are the same instant when their wall clocks,      *)
(*     shifted by their locations' offsets, agree.                        *)
(*   - A time string is what the layouts read: [form, d, s], form         *)
(*     "datetime" ("2006-01-02 15:04:05"), "date", "clock" ("15:04:05"),  *)
(*     "zero" (MySQL's 0000-00-00 00:00:00, whose month 0 no layout      *)
(*     accepts) or "junk".                                                 *)
(*   - A JSON text is [tok, v]: a string, a bool, a number or null.       *)
(*   - A DBBool is the []uint8 slice it is, a sequence of bytes.          *)
(***************************************************************************)
EXTENDS Integers, Sequences

CONSTANT LocalOffset  \* time.Local's offset from UTC, in seconds

Offset(loc) == IF loc = "Local" THEN LocalOffset ELSE 0
SecsPerDay == 86400

\* time.Time.Equal: the same instant.
Instant(t) == <<t.d * SecsPerDay + t.s - Offset(t.loc), t.ns>>

\* Format with the layouts "2006-01-02 15:04:05" and "2006-01-02": the
\* wall clock in the time's own location, the fraction dropped.
TimeToStr(t) == [form |-> "datetime", d |-> t.d, s |-> t.s]
DateToStr(t) == [form |-> "date", d |-> t.d, s |-> 0]

\* time.ParseInLocation(layout, str, loc): the string must have the
\* layout's form; a clock alone is on day 0 (year 0, January 1).
ParseInLocation(layout, str, loc) ==
    IF str.form = layout
    THEN [ok |-> TRUE, t |-> [d |-> IF layout = "clock" THEN 0 ELSE str.d, s |-> str.s, ns |-> 0, loc |-> loc]]
    ELSE [ok |-> FALSE, t |-> [d |-> 0, s |-> 0, ns |-> 0, loc |-> "UTC"]]

\* StrToTime: the three layouts in turn, in Local; when none parses,
\* CheckError panics.
StrToTime(str) ==
    LET full == ParseInLocation("datetime", str, "Local")
        date == ParseInLocation("date", str, "Local")
        clock == ParseInLocation("clock", str, "Local")
    IN  CASE full.ok  -> [panic |-> FALSE, t |-> full.t]
          [] date.ok  -> [panic |-> FALSE, t |-> date.t]
          [] clock.ok -> [panic |-> FALSE, t |-> clock.t]
          [] OTHER    -> [panic |-> TRUE, t |-> clock.t]

\* dateFromTime: midnight of the time's day, in its location.
DateFromTime(t) == [t EXCEPT !.s = 0, !.ns = 0]

\* json.Marshal of a string or a bool.
JsonStr(str) == [tok |-> "string", v |-> str]
JsonBool(b) == [tok |-> "bool", v |-> b]

\* DBTime.MarshalJSON and DBDate.MarshalJSON.
DBTimeMarshalJSON(t) == JsonStr(TimeToStr(t))
DBDateMarshalJSON(t) == JsonStr(DateToStr(t))

\* Mutant: time.Parse, which reads a time without a zone as UTC.
DBTimeUnmarshalJSONUTC(tm, j) ==
    IF j.tok # "string" THEN [err |-> TRUE, tm |-> tm]
    ELSE LET a == ParseInLocation("datetime", j.v, "UTC")
             b == IF a.ok THEN a ELSE ParseInLocation("date", j.v, "UTC")
         IN  [err |-> ~b.ok, tm |-> IF b.ok THEN b.t ELSE tm]

\* DBTime.UnmarshalJSON into tm: a JSON string, parsed in Local with the
\* full layout, else the date one; on error tm is left as it was.
DBTimeUnmarshalJSON(tm, j) ==
    IF j.tok # "string" THEN [err |-> TRUE, tm |-> tm]
    ELSE LET a == ParseInLocation("datetime", j.v, "Local")
             b == IF a.ok THEN a ELSE ParseInLocation("date", j.v, "Local")
         IN  [err |-> ~b.ok, tm |-> IF b.ok THEN b.t ELSE tm]

\* DBDate.UnmarshalJSON: the same, then dateFromTime.
DBDateUnmarshalJSON(tm, j) ==
    LET r == DBTimeUnmarshalJSON(tm, j)
    IN  IF r.err THEN r ELSE [r EXCEPT !.tm = DateFromTime(@)]

\* DBTime.Scan of a column value [kind, v]: nil is not supported, a
\* time.Time is taken as it is, []uint8 goes through StrToTime, any
\* other type is an error.
DBTimeScan(tm, val) ==
    CASE val.kind = "nil"   -> [err |-> TRUE, panic |-> FALSE, tm |-> tm]
      [] val.kind = "time"  -> [err |-> FALSE, panic |-> FALSE, tm |-> val.v]
      [] val.kind = "bytes" -> [err |-> FALSE, panic |-> StrToTime(val.v).panic, tm |-> StrToTime(val.v).t]
      [] OTHER              -> [err |-> TRUE, panic |-> FALSE, tm |-> tm]

\* Mutant: the []uint8 branch keeps the time of day.
DBDateScanNoTrunc(tm, val) == DBTimeScan(tm, val)

\* DBDate.Scan: as DBTime's, with dateFromTime on the []uint8 branch
\* only.
DBDateScan(tm, val) ==
    IF val.kind = "bytes"
    THEN [err |-> FALSE, panic |-> StrToTime(val.v).panic, tm |-> DateFromTime(StrToTime(val.v).t)]
    ELSE DBTimeScan(tm, val)

\* DBIntBool: Value, MarshalJSON, and UnmarshalJSON into bv (1 or 0; a
\* JSON null reads as false).
DBIntBoolValue(bv) == bv # 0
DBIntBoolMarshalJSON(bv) == JsonBool(DBIntBoolValue(bv))
DBIntBoolUnmarshalJSON(bv, j) ==
    CASE j.tok = "bool" -> [err |-> FALSE, bv |-> IF j.v THEN 1 ELSE 0]
      [] j.tok = "null" -> [err |-> FALSE, bv |-> 0]
      [] OTHER          -> [err |-> TRUE, bv |-> bv]

\* DBBool: Value and MarshalJSON.
DBBoolValue(bv) == Len(bv) > 0 /\ bv[1] # 0
DBBoolMarshalJSON(bv) == JsonBool(DBBoolValue(bv))

\* DBBool.UnmarshalJSON has a value receiver: it works on a copy of the
\* caller's slice header.  Writing bv[0] reaches the caller's array; the
\* append on an empty slice makes a new array the caller never sees.
\* The result is the caller's slice after the call.
DBBoolUnmarshalJSON(bv, j) ==
    LET v == IF j.tok = "bool" /\ j.v THEN 1 ELSE 0
    IN  CASE j.tok \notin {"bool", "null"} -> [err |-> TRUE, bv |-> bv]
          [] Len(bv) = 0                   -> [err |-> FALSE, bv |-> bv]
          [] OTHER                         -> [err |-> FALSE, bv |-> [bv EXCEPT ![1] = v]]
=============================================================================

------------------------------ MODULE MCBackup ------------------------------
(* Instances of Backup for TLC: an hour of two minutes, a day of one hour, a week
   of two days and a month of three. *)
EXTENDS Backup

EveryMinute == [minute |-> {0, 1}, hour |-> {0}, dayOfMonth |-> 1 .. 3, month |-> {1},
                dayOfWeek |-> {0, 1}]
Hourly == [EveryMinute EXCEPT !.minute = {0}]
EitherDay == [Hourly EXCEPT !.dayOfMonth = {1}, !.dayOfWeek = {1}]

MCSchedules == {EveryMinute, Hourly, EitherDay}
=============================================================================

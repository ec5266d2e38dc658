------------------------------- MODULE MCRtc --------------------------------
(* Rtc at the end of every month of a century, and on 28 February, where     *)
(* the closed form of get_unix_time and the carries can go wrong.            *)
EXTENDS Rtc

Days == { <<y, m, d>> \in (2000 .. 2099) \X (1 .. 12) \X {28, 29, 30, 31} :
            d = MonthLength(y, m) \/ (m = 2 /\ d = 28) }

\* Two seconds and one second before the day ends, before an hour of two
\* digits begins, and inside a minute.
Times == { <<23, 59, 58>>, <<23, 59, 59>>, <<9, 59, 59>>, <<12, 34, 9>> }

MCStartDates ==
  { [year |-> d[1], month |-> d[2], day |-> d[3],
     hour |-> t[1], minute |-> t[2], second |-> t[3]] : d \in Days, t \in Times }
=============================================================================

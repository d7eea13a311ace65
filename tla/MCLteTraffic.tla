---------------------------- MODULE MCLteTraffic ----------------------------
(* The LTE dongle for two days.  The day that is not followed would add no    *)
(* state to the next, which takes over the modem and the runner only.        *)
EXTENDS LteTraffic

\* Bound: a day on which a row is changed late, for which nothing is claimed, is
\* looked at, and not followed further.
DayIsFollowed == "late" \notin marks

=============================================================================

------------------------------ MODULE MCReport ------------------------------
(* Signal strengths below and inside the range of the histogram, and   *)
(* above it.                                                               *)
EXTENDS Report

ReportRssis == {-4, -1, 1}
=============================================================================

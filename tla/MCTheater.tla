------------------------------- MODULE MCTheater -------------------------------
(***************************************************************************)
(* A dashboard with its theater, demo-control and the infra poller.        *)
(***************************************************************************)
EXTENDS DemoTheater
CONSTANTS p1, q1
================================================================================

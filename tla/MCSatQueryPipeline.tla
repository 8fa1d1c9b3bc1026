------------------------- MODULE MCSatQueryPipeline -------------------------
(***************************************************************************)
(* Instances of SatQueryPipeline for TLC.                                  *)
(***************************************************************************)
EXTENDS SatQueryPipeline, TLC

CONSTANTS p1, p2

Final(status, code, qty, pkgs) ==
  [status |-> status, code |-> code, qty |-> qty, pkgs |-> pkgs]

\* With MaxPackages = 1 and MaxCfdiQty = 1: answers within the limits, one past
\* each limit, and one for each branch of handleError.
MCAnswer ==
  {Final("FINISHED", "NONE", 0, {}), Final("FINISHED", "NONE", 1, {p1}),
   Final("FINISHED", "NONE", 2, {p1}), Final("FINISHED", "NONE", 1, {p1, p2}),
   Final("FAILED", "INFO_NOT_FOUND", 0, {}), Final("FAILED", "MAX_LIMIT", 0, {}),
   Final("FAILED", "MAX_LIMIT", 2, {}), Final("FAILED", "OTHER", 0, {})}

\* With MaxPackages = 2: one answer of two packages, one over the limit of
\* CFDIs, one failure.
MCFewAnswers ==
  {Final("FINISHED", "NONE", 1, {p1, p2}), Final("FINISHED", "NONE", 2, {p1}),
   Final("FAILED", "OTHER", 0, {})}

=============================================================================

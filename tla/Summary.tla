------------------------------- MODULE Summary -------------------------------
(***************************************************************************)
(* What replacing a loop nest by its summary promises: once, in a single   *)
(* step, every point of the region gets the summary's value and nothing    *)
(* else changes.  A candidate that was not accepted promises the frame     *)
(* only.                                                                   *)
(***************************************************************************)
CONSTANTS Outs, Locs, Val, Points, Region, Idx, Out0

VARIABLES done, res, fn, accepted

vars == <<done, res, fn, accepted>>

Init == ~ done /\ res = Out0

Apply ==
  /\ ~ done /\ done'
  /\ res' \in [Outs -> [Locs -> Val]]
  /\ accepted => \A o \in Outs, p \in Region : res'[o][Idx[o][p]] = fn[o][p]
  /\ \A o \in Outs, x \in Locs :
       (\A p \in Region : Idx[o][p] # x) => res'[o][x] = Out0[o][x]
  /\ UNCHANGED <<fn, accepted>>

Spec == Init /\ [][Apply]_vars
==============================================================================

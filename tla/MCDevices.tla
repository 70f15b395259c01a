----------------------------- MODULE MCDevices -----------------------------
(***************************************************************************)
(* Start requests for WalbDevices: two that need no disk of each other,    *)
(* where the name of the second is the default name of the first minor id, *)
(* and one that wants a disk of both.                                      *)
(***************************************************************************)
EXTENDS WalbDevices

CONSTANTS d1, d2, d3, d4

Req(minor, ldev, ddev, name) ==
    [minor |-> minor, ldev |-> ldev, ddev |-> ddev, name |-> name]

Several == {Req(AnyMinor, d1, d2, NoName), Req(AnyMinor, d3, d4, 0),
            Req(1, d4, d2, 1)}
=============================================================================

---------------------------- MODULE MCMembership ----------------------------
(***************************************************************************)
(* Instances of Membership for TLC.                                        *)
(***************************************************************************)
EXTENDS Membership

CONSTANTS ana, bo

MCUsers == {ana, bo}
MCKeys == {<<"org", ana>>, <<"list", bo>>}

Op(kind, caller, target, r) == [kind |-> kind, caller |-> caller, target |-> target, role |-> r]
MCOps ==
  { Op("create", ana, ana, "owner"), Op("add", ana, bo, "owner"),
    Op("role", ana, bo, "admin"), Op("role", bo, ana, "member"),
    Op("role", bo, bo, "owner"), Op("remove", bo, ana, "none"), Op("rename", ana, ana, "none") }

Give(a, b) == [u \in MCUsers |-> IF u = ana THEN a ELSE b]
MCStarts == {Give("none", "none"), Give("owner", "admin"), Give("owner", "owner")}
=============================================================================

--------------------------- MODULE MCBuildChanges ---------------------------
(***************************************************************************)
(* An Image that is edited between two environments, two commits and a     *)
(* blob, and a builder with each of its parts changed: the run image alone *)
(* and with the stack id, or the lifecycle and a buildpack that an image   *)
(* may or may not have used.                                               *)
(***************************************************************************)
EXTENDS BuildChanges

MCWants == { [env |-> "e1", url |-> "git",  rev |-> "c1"],
             [env |-> "e1", url |-> "git",  rev |-> "c2"],
             [env |-> "e2", url |-> "git",  rev |-> "c1"],
             [env |-> "e1", url |-> "blob", rev |-> Nil] }

First == [bps |-> {<<"a", 1>>, <<"b", 1>>}, stack |-> "s1", run |-> "d1", life |-> "l1"]

MCBuilders == { First,
                [First EXCEPT !.run = "d2"],
                [First EXCEPT !.run = "d3", !.stack = "s2"],
                [First EXCEPT !.bps = {<<"a", 2>>, <<"b", 1>>}, !.life = "l2"] }
=============================================================================

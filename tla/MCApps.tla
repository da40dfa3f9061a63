-------------------------------- MODULE MCApps --------------------------------
\* TLC instance of Apps: one version and the next; nothing installed, or the first version.
EXTENDS Apps, TLC

CONSTANTS r1, r2

MCVersions == <<"v1", "v2">>
Compose(p) == [version |-> "v1", pars |-> p]
Installed(p) ==
  [app |-> [status |-> "running", version |-> "v1", map |-> 1], maps |-> <<p>>,
   host |-> [compose |-> Compose(p), backup |-> NoFile, data |-> "v1", snaps |-> {[no |-> 1, data |-> "empty"]},
             unit |-> [active |-> TRUE, up |-> TRUE, of |-> Compose(p), attached |-> TRUE]]]
MCGiven == {[app |-> NoApp, maps |-> <<>>, host |-> NoHost], Installed(1)}
MCSymmetry == Permutations({r1, r2})
=============================================================================

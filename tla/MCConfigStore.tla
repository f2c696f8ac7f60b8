---------------------------- MODULE MCConfigStore ----------------------------
EXTENDS ConfigStore, TLC
CONSTANTS t1, t2, c1, c2
MCMixes == {{"pt"}, {"icon", "name"}, {"boot"}, {"reg"}, {"shortcut", "reg"}}
Alike == Permutations({t1, t2}) \cup Permutations({c1, c2})
=============================================================================

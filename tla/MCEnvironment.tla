---------------------------- MODULE MCEnvironment ----------------------------
EXTENDS Environment

\* Two configurations; the second mounts the volume.
MCConfigs == {[port |-> 1, vols |-> {}], [port |-> 2, vols |-> Volumes]}
NoKin == {}
Kindred == {<<"dev", "dev-test">>}
AllOps == DOMAIN Handler
MCOverlapping == {"env_new", "cmd_create", "apply_container_config", "cmd_rebuild"}
RemoveAndList == {"env_rm", "cmd_rm", "env_list", "cmd_inspect"}
=============================================================================

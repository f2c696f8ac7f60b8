----------------------------- MODULE MCProvision -----------------------------
EXTENDS Provision

\* A configuration: what the properties tell apart is a parameter, the rest is plain.
C(x, w, user, env, mounts) ==
    [x11 |-> x, wayland |-> w, user |-> user, env |-> env, mounts |-> mounts, keep |-> TRUE, gpu |-> "none",
     maps |-> FALSE, pid |-> None, net |-> "host", ports |-> {0}, devices |-> {}, volumes |-> {}]
NoEnv == <<>>
Elsewhere == "XDG_RUNTIME_DIR" :> <<"/tmp", "run">>
Declared == ("DISPLAY" :> <<":5">>) @@ ("HOST_XDG_RUNTIME_DIR" :> <<"/run/user", "999">>)
Literal == <<[from |-> <<"/data">>, to |-> <<"/run/user", "1000">>]>>
Written == <<[from |-> <<"/data">>, to |-> <<"/run/user", "UID">>]>>
InHome == <<[from |-> <<"HOME", "data">>, to |-> <<"HOME", "data">>]>>
Foreign == <<[from |-> <<"XDG_RUNTIME_DIR">>, to |-> <<"/mnt">>]>>

MCConfigs ==
    {C("none", "none", None, NoEnv, InHome),
     C("direct", "direct", None, NoEnv, Literal),
     [C("direct", "none", "dev", Declared, Written) EXCEPT !.pid = "host", !.devices = {"", "/dev/fuse"}],
     C("direct", "bypass", None, NoEnv, InHome),
     [C("bypass", "bypass", "dev", NoEnv, InHome) EXCEPT !.maps = TRUE, !.net = "mapped", !.ports = {80}],
     C("bypass", "none", None, Elsewhere, Foreign),
     [C("bypass", "direct", "dev", Elsewhere, <<>>) EXCEPT !.gpu = "nvidia"],
     [C("bypass", "bypass", None, NoEnv, Literal) EXCEPT !.gpu = "amd"],
     [C("none", "none", None, NoEnv, <<>>) EXCEPT !.net = "mapped"]}

\* Where the link goes: nowhere, where the program puts it, where the user wants it, in
\* the place of a cookie, on the host or in the container's own directory.
To(k, path) == k :> path
Places ==
    {C("none", "none", None, NoEnv, <<>>),
     C("direct", "none", None, NoEnv, <<>>),
     C("bypass", "none", None, NoEnv, <<>>),
     C("direct", "none", None, To("XAUTHORITY", <<>>), <<>>),
     C("direct", "none", None, To("XAUTHORITY", <<"/home", "auth">>), <<>>),
     C("direct", "none", None, To("XAUTHORITY", <<"/run/user", "1000", "xauth_1">>), <<>>),
     C("bypass", "none", None, To("HOST_XAUTHORITY", <<"/run/user", "1000", "xauth_own">>), <<>>),
     C("bypass", "none", None, To("HOST_XAUTHORITY", <<"/run/user", "999", "xauth_1">>), <<>>)}
Few == {C("direct", "none", None, NoEnv, <<>>), C("bypass", "none", None, NoEnv, <<>>)}

Session1 == [HOME |-> <<"me">>, UID |-> <<"1000">>, DISPLAY |-> <<":0">>,
             WAYLAND_DISPLAY |-> <<"wayland-0">>, XDG_RUNTIME_DIR |-> <<"/run/user", "1000">>]
Bare == [Session1 EXCEPT !.DISPLAY = <<>>, !.WAYLAND_DISPLAY = <<>>, !.XDG_RUNTIME_DIR = <<>>]
MCHostEnvs == {[vars |-> Session1, absent |-> {}],
               [vars |-> Bare, absent |-> {<<"/tmp/.X11-unix">>, <<"/tmp/.X11-unix/X0">>}]}
OneHostEnv == {[vars |-> Session1, absent |-> {}]}

Account(name, uid, home) == [name |-> name, uid |-> uid, home |-> home]
MCImages == {[passwd |-> <<>>, env |-> NoEnv, tools |-> {}],
             [passwd |-> <<Account("ubuntu", "uid", "ubuntu")>>, env |-> NoEnv, tools |-> {"fonts", "buttons"}],
             [passwd |-> <<Account("me", "other", "me"), Account("dev", "another", "dev")>>,
              env |-> "DISPLAY" :> <<":7">>, tools |-> {"fonts"}]}
OneImage == {[passwd |-> <<>>, env |-> NoEnv, tools |-> {}]}

\* A bound of the run that follows the host's sessions and the failures of commands: a
\* behaviour has the one or the other, the former with the places for the link, the
\* latter with the other configurations.
AllConfigs == MCConfigs \cup Places
OnFile(configs) == UNION {{c, Stored(c), Legacy(c)} : c \in configs} \cup {None}
OnFileOthers == OnFile(MCConfigs)
OnFilePlaces == OnFile(Places)
NoCookies == cookie = None /\ left = {} /\ own = {}
Apart == \/ NoCookies /\ {given, reg} \subseteq OnFileOthers
         \/ faults = 0 /\ {given, reg} \subseteq OnFilePlaces /\ fs.tools = {}
=============================================================================

-------------------------- MODULE EnvironmentProofs --------------------------
(***************************************************************************)
(* Environments on the host, for any number of names, volumes and          *)
(* configurations, and for any commands that may overlap.                  *)
(***************************************************************************)
EXTENDS Environment, TLAPS

(***************************************************************************)
(* Scripts                                                                 *)
(***************************************************************************)
LEMMA KindsAre ==
  /\ "probe" \in Kinds /\ "spawn" \in Kinds /\ "await" \in Kinds /\ "sockdir" \in Kinds
  /\ "prescan" \in Kinds /\ "mkdir" \in Kinds /\ "volumes" \in Kinds /\ "create" \in Kinds
  /\ "check" \in Kinds /\ "undir" \in Kinds /\ "unvol" \in Kinds /\ "start" \in Kinds
  /\ "restart" \in Kinds /\ "stop" \in Kinds /\ "remove" \in Kinds /\ "rebuild" \in Kinds
  /\ "ensure" \in Kinds /\ "ready" \in Kinds /\ "exec" \in Kinds /\ "setup" \in Kinds
  /\ "commit" \in Kinds /\ "list" \in Kinds /\ "logs" \in Kinds /\ "prepare" \in Kinds
  /\ "window" \in Kinds /\ "volume" \in Kinds /\ "unmade" \in Kinds /\ "open" \in Kinds
  /\ "read" \in Kinds /\ "register" \in Kinds /\ "unregister" \in Kinds /\ "entry" \in Kinds
  /\ "desktops" \in Kinds /\ "picture" \in Kinds /\ "icons" \in Kinds /\ "sockets" \in Kinds
BY DEF Kinds

LEMMA StepsAre ==
  ASSUME NEW k \in Kinds
  PROVE  /\ Must(k) \in Steps /\ Must(k).do = k /\ Must(k).must = TRUE
         /\ May(k) \in Steps /\ May(k).do = k
BY DEF Steps, Must, May

\* A script, the words it consists of, and that it does not begin with a launch.
Script(s, W) ==
  s \in Seq(Steps) /\ InOrder(s) /\ Words(s) = W /\ (s # <<>> => s[1].do \notin Launches)

LEMMA NoWords == Words(<<>>) = {}
BY DEF Words

LEMMA WordsConcat ==
  ASSUME NEW S, NEW s \in Seq(S), NEW t \in Seq(S)
  PROVE  Words(s \o t) = Words(s) \cup Words(t)
<1>1. \A i \in DOMAIN s : i \in DOMAIN (s \o t) /\ (s \o t)[i] = s[i]
  OBVIOUS
<1>2. \A i \in DOMAIN t : Len(s) + i \in DOMAIN (s \o t) /\ (s \o t)[Len(s) + i] = t[i]
  OBVIOUS
<1>3. \A i \in DOMAIN (s \o t) : \/ i \in DOMAIN s /\ (s \o t)[i] = s[i]
                                 \/ i - Len(s) \in DOMAIN t /\ (s \o t)[i] = t[i - Len(s)]
  OBVIOUS
<1> DEFINE u == s \o t
<1> HIDE DEF u
<1>4. ASSUME NEW k \in Words(s) \cup Words(t) PROVE k \in Words(u)
  BY <1>1, <1>2 DEF Words, u
<1>5. ASSUME NEW k \in Words(u) PROVE k \in Words(s) \cup Words(t)
  BY <1>3 DEF Words, u
<1> QED BY <1>4, <1>5 DEF u

LEMMA Join ==
  ASSUME NEW s, NEW t, NEW V, NEW W, Script(s, V), Script(t, W),
         \A a \in V, b \in W : ~Barred(a, b)
  PROVE  Script(s \o t, V \cup W)
<1> DEFINE u == s \o t
<1>1. u \in Seq(Steps) /\ s \in Seq(Steps) /\ t \in Seq(Steps)
  BY DEF Script
<1>2. Words(u) = V \cup W
  BY <1>1, WordsConcat DEF Script
<1>3. \A i \in DOMAIN u : \/ i \in DOMAIN s /\ u[i] = s[i]
                          \/ i > Len(s) /\ i - Len(s) \in DOMAIN t /\ u[i] = t[i - Len(s)]
  BY <1>1
<1>4. Len(s) \in Nat /\ DOMAIN s = 1..Len(s) /\ DOMAIN t = 1..Len(t) /\ DOMAIN u \subseteq Nat
  BY <1>1
<1> HIDE DEF u
<1>5. ASSUME NEW i \in DOMAIN u, NEW j \in DOMAIN u, i < j PROVE ~Barred(u[i].do, u[j].do)
  <2>1. CASE i \in DOMAIN s /\ u[i] = s[i] /\ j \in DOMAIN s /\ u[j] = s[j]
    BY <2>1, <1>5 DEF Script, InOrder
  <2>2. CASE i \in DOMAIN s /\ u[i] = s[i] /\ j - Len(s) \in DOMAIN t /\ u[j] = t[j - Len(s)]
    <3>1. u[i].do \in V /\ u[j].do \in W
      BY <2>2 DEF Script, Words
    <3> QED BY <3>1
  <2>3. CASE i > Len(s) /\ i - Len(s) \in DOMAIN t /\ u[i] = t[i - Len(s)]
    <3>1. j \notin DOMAIN s /\ j - Len(s) > i - Len(s)
      BY <2>3, <1>4, <1>5
    <3>2. j - Len(s) \in DOMAIN t /\ u[j] = t[j - Len(s)]
      BY <3>1, <1>3
    <3> QED BY <2>3, <3>1, <3>2, <1>4 DEF Script, InOrder
  <2> QED BY <2>1, <2>2, <2>3, <1>3
<1>6. ASSUME NEW i \in DOMAIN u, i > 1, u[i].do \in Launches PROVE u[i - 1].do = "sockdir"
  <2>1. CASE i \in DOMAIN s /\ u[i] = s[i]
    <3>1. u[i - 1] = s[i - 1]
      BY <2>1, <1>1, <1>6 DEF u
    <3> QED BY <3>1, <2>1, <1>6 DEF Script, InOrder
  <2>2. CASE i > Len(s) /\ i - Len(s) \in DOMAIN t /\ u[i] = t[i - Len(s)]
    <3>1. i - Len(s) > 1
      BY <2>2, <1>4, <1>6 DEF Script
    <3>2. u[i - 1] = t[(i - Len(s)) - 1]
      BY <3>1, <2>2, <1>1 DEF u
    <3> QED BY <3>1, <3>2, <2>2, <1>6 DEF Script, InOrder
  <2> QED BY <2>1, <2>2, <1>3
<1>7. ASSUME NEW i \in DOMAIN u, u[i].do \in Creation \cup {"sockdir", "rebuild", "remove", "read"} PROVE u[i].must
  BY <1>3, <1>7 DEF Script, InOrder
<1>8. u # <<>> => u[1].do \notin Launches
  <2>1. CASE s = <<>>
    BY <2>1, <1>1 DEF u, Script
  <2>2. CASE s # <<>>
    BY <2>2, <1>1 DEF u, Script
  <2> QED BY <2>1, <2>2
<1>9. InOrder(u)
  BY <1>5, <1>6, <1>7 DEF InOrder
<1> QED BY <1>1, <1>2, <1>8, <1>9 DEF Script, u

\* Steps that come in any order.
Easy == Kinds \ (Creation \cup Clearing \cup Launches
                  \cup {"sockdir", "rebuild", "remove", "unregister", "sockets"})

LEMMA EasyScript ==
  ASSUME NEW s \in Seq(Steps), Words(s) \subseteq Easy, \A i \in DOMAIN s : s[i].do = "read" => s[i].must
  PROVE  Script(s, Words(s))
<1>1. \A i \in DOMAIN s : s[i].do \in Easy
  BY DEF Words
<1>2. \A i \in DOMAIN s : s[i].do \notin Launches
  BY <1>1 DEF Easy
<1>3. \A i \in DOMAIN s : s[i].do \in Creation \cup {"sockdir", "rebuild", "remove", "read"} => s[i].must
  BY <1>1 DEF Easy
<1>4. ASSUME NEW i \in DOMAIN s, NEW j \in DOMAIN s PROVE ~Barred(s[i].do, s[j].do)
  <2>1. /\ s[j].do \notin Creation \cup Clearing \cup {"create", "rebuild"}
        /\ s[i].do \notin {"create", "rebuild", "unregister", "sockets"}
    BY <1>1 DEF Easy, Creation
  <2> QED BY <2>1 DEF Barred
<1>5. s # <<>> => s[1].do \notin Launches
  <2>1. s # <<>> => 1 \in DOMAIN s
    OBVIOUS
  <2> QED BY <2>1, <1>2
<1>6. InOrder(s)
  BY <1>2, <1>3, <1>4 DEF InOrder
<1> QED BY <1>5, <1>6 DEF Script

\* A script of one step, and how a script begins with one.
LEMMA Single ==
  ASSUME NEW x \in Steps
  PROVE  <<x>> \in Seq(Steps) /\ Words(<<x>>) = {x.do}
<1>1. DOMAIN <<x>> = {1} /\ <<x>>[1] = x
  OBVIOUS
<1> QED BY <1>1 DEF Words

\* The pieces of the handlers.
LEMMA ConnectScript == Script(Connect, {"probe"})
<1> DEFINE c == Connect
<1>1. c \in Seq(Steps) /\ DOMAIN c = 1..1 /\ c # <<>>
  BY KindsAre DEF Connect, Must, May, Steps
<1>2. c[1].do = "probe"
  BY KindsAre DEF Connect, Must, May, Steps
<1> HIDE DEF c
<1>3. Words(c) = {"probe"}
  BY <1>1, <1>2 DEF Words
<1>4. InOrder(c)
  BY <1>1, <1>2 DEF InOrder, Barred, Creation, Clearing, Launches
<1> QED BY <1>1, <1>2, <1>3, <1>4 DEF Script, Launches, c

LEMMA StartingScript == Script(Starting, {"sockdir", "start", "open", "prepare"})
<1> DEFINE c == Starting
<1>1. c \in Seq(Steps) /\ DOMAIN c = 1..4 /\ c # <<>>
  BY KindsAre DEF Starting, Must, May, Steps
<1>2. c[1].do = "sockdir" /\ c[2].do = "start" /\ c[3].do = "open" /\ c[4].do = "prepare" /\ c[1].must
  BY KindsAre DEF Starting, Must, May, Steps
<1> HIDE DEF c
<1>3. Words(c) = {"sockdir", "start", "open", "prepare"}
  BY <1>1, <1>2 DEF Words
<1>4. InOrder(c)
  BY <1>1, <1>2 DEF InOrder, Barred, Creation, Clearing, Launches
<1> QED BY <1>1, <1>2, <1>3, <1>4 DEF Script, Launches, c

LEMMA CreatingScript == Script(Creating, {"prescan", "mkdir", "volumes", "create"})
<1> DEFINE c == Creating
<1>1. c \in Seq(Steps) /\ DOMAIN c = 1..4 /\ c # <<>>
  BY KindsAre DEF Creating, Must, May, Steps
<1>2. c[1].do = "prescan" /\ c[2].do = "mkdir" /\ c[3].do = "volumes" /\ c[4].do = "create"
      /\ c[1].must /\ c[2].must /\ c[3].must /\ c[4].must
  BY KindsAre DEF Creating, Must, May, Steps
<1> HIDE DEF c
<1>3. Words(c) = {"prescan", "mkdir", "volumes", "create"}
  BY <1>1, <1>2 DEF Words
<1>4. InOrder(c)
  BY <1>1, <1>2 DEF InOrder, Barred, Creation, Clearing, Launches
<1> QED BY <1>1, <1>2, <1>3, <1>4 DEF Script, Launches, c

LEMMA UndoingScript == Script(Undoing, {"check", "undir", "unvol"})
<1> DEFINE c == Undoing
<1>1. c \in Seq(Steps) /\ DOMAIN c = 1..3 /\ c # <<>>
  BY KindsAre DEF Undoing, Must, May, Steps
<1>2. c[1].do = "check" /\ c[2].do = "undir" /\ c[3].do = "unvol"
  BY KindsAre DEF Undoing, Must, May, Steps
<1> HIDE DEF c
<1>3. Words(c) = {"check", "undir", "unvol"}
  BY <1>1, <1>2 DEF Words
<1>4. InOrder(c)
  BY <1>1, <1>2 DEF InOrder, Barred, Creation, Clearing, Launches
<1> QED BY <1>1, <1>2, <1>3, <1>4 DEF Script, Launches, c

LEMMA GettingScript == Script(Getting, {"open", "read"})
<1> DEFINE c == Getting
<1>1. c \in Seq(Steps) /\ DOMAIN c = 1..2 /\ c # <<>>
  BY KindsAre DEF Getting, Must, May, Steps
<1>2. c[1].do = "open" /\ c[2].do = "read" /\ c[2].must
  BY KindsAre DEF Getting, Must, May, Steps
<1> HIDE DEF c
<1>3. Words(c) = {"open", "read"}
  BY <1>1, <1>2 DEF Words
<1>4. InOrder(c)
  BY <1>1, <1>2 DEF InOrder, Barred, Creation, Clearing, Launches
<1> QED BY <1>1, <1>2, <1>3, <1>4 DEF Script, Launches, c

LEMMA RegisteringScript == Script(Registering, {"open", "register"})
<1> DEFINE c == Registering
<1>1. c \in Seq(Steps) /\ DOMAIN c = 1..2 /\ c # <<>>
  BY KindsAre DEF Registering, Must, May, Steps
<1>2. c[1].do = "open" /\ c[2].do = "register"
  BY KindsAre DEF Registering, Must, May, Steps
<1> HIDE DEF c
<1>3. Words(c) = {"open", "register"}
  BY <1>1, <1>2 DEF Words
<1>4. InOrder(c)
  BY <1>1, <1>2 DEF InOrder, Barred, Creation, Clearing, Launches
<1> QED BY <1>1, <1>2, <1>3, <1>4 DEF Script, Launches, c

LEMMA UnregisteringScript == Script(Unregistering, {"open", "unregister"})
<1> DEFINE c == Unregistering
<1>1. c \in Seq(Steps) /\ DOMAIN c = 1..2 /\ c # <<>>
  BY KindsAre DEF Unregistering, Must, May, Steps
<1>2. c[1].do = "open" /\ c[2].do = "unregister"
  BY KindsAre DEF Unregistering, Must, May, Steps
<1> HIDE DEF c
<1>3. Words(c) = {"open", "unregister"}
  BY <1>1, <1>2 DEF Words
<1>4. InOrder(c)
  BY <1>1, <1>2 DEF InOrder, Barred, Creation, Clearing, Launches
<1> QED BY <1>1, <1>2, <1>3, <1>4 DEF Script, Launches, c

LEMMA PreparingScript == Script(<<May("prepare")>>, {"prepare"})
<1> DEFINE c == <<May("prepare")>>
<1>1. c \in Seq(Steps) /\ DOMAIN c = 1..1 /\ c # <<>>
  BY KindsAre DEF Must, May, Steps
<1>2. c[1].do = "prepare"
  BY KindsAre DEF Must, May, Steps
<1> HIDE DEF c
<1>3. Words(c) = {"prepare"}
  BY <1>1, <1>2 DEF Words
<1>4. InOrder(c)
  BY <1>1, <1>2 DEF InOrder, Barred, Creation, Clearing, Launches
<1> QED BY <1>1, <1>2, <1>3, <1>4 DEF Script, Launches, c

LEMMA SetupScript == Script(<<Must("setup")>>, {"setup"})
<1> DEFINE c == <<Must("setup")>>
<1>1. c \in Seq(Steps) /\ DOMAIN c = 1..1 /\ c # <<>>
  BY KindsAre DEF Must, May, Steps
<1>2. c[1].do = "setup"
  BY KindsAre DEF Must, May, Steps
<1> HIDE DEF c
<1>3. Words(c) = {"setup"}
  BY <1>1, <1>2 DEF Words
<1>4. InOrder(c)
  BY <1>1, <1>2 DEF InOrder, Barred, Creation, Clearing, Launches
<1> QED BY <1>1, <1>2, <1>3, <1>4 DEF Script, Launches, c

LEMMA ShowingScript ==
  Script(<<Must("open"), May("picture"), Must("register"), May("entry"), May("window")>>,
         {"open", "picture", "register", "entry", "window"})
<1> DEFINE c == <<Must("open"), May("picture"), Must("register"), May("entry"), May("window")>>
<1>1. c \in Seq(Steps) /\ DOMAIN c = 1..5 /\ c # <<>>
  BY KindsAre DEF Must, May, Steps
<1>2. c[1].do = "open" /\ c[2].do = "picture" /\ c[3].do = "register" /\ c[4].do = "entry" /\ c[5].do = "window"
  BY KindsAre DEF Must, May, Steps
<1> HIDE DEF c
<1>3. Words(c) = {"open", "picture", "register", "entry", "window"}
  BY <1>1, <1>2 DEF Words
<1>4. InOrder(c)
  BY <1>1, <1>2 DEF InOrder, Barred, Creation, Clearing, Launches
<1> QED BY <1>1, <1>2, <1>3, <1>4 DEF Script, Launches, c

LEMMA NotingScript == Script(<<Must("open"), May("register")>>, {"open", "register"})
<1> DEFINE c == <<Must("open"), May("register")>>
<1>1. c \in Seq(Steps) /\ DOMAIN c = 1..2 /\ c # <<>>
  BY KindsAre DEF Must, May, Steps
<1>2. c[1].do = "open" /\ c[2].do = "register"
  BY KindsAre DEF Must, May, Steps
<1> HIDE DEF c
<1>3. Words(c) = {"open", "register"}
  BY <1>1, <1>2 DEF Words
<1>4. InOrder(c)
  BY <1>1, <1>2 DEF InOrder, Barred, Creation, Clearing, Launches
<1> QED BY <1>1, <1>2, <1>3, <1>4 DEF Script, Launches, c

LEMMA RestartScript == Script(<<Must("sockdir"), Must("restart")>>, {"sockdir", "restart"})
<1> DEFINE c == <<Must("sockdir"), Must("restart")>>
<1>1. c \in Seq(Steps) /\ DOMAIN c = 1..2 /\ c # <<>>
  BY KindsAre DEF Must, May, Steps
<1>2. c[1].do = "sockdir" /\ c[2].do = "restart" /\ c[1].must
  BY KindsAre DEF Must, May, Steps
<1> HIDE DEF c
<1>3. Words(c) = {"sockdir", "restart"}
  BY <1>1, <1>2 DEF Words
<1>4. InOrder(c)
  BY <1>1, <1>2 DEF InOrder, Barred, Creation, Clearing, Launches
<1> QED BY <1>1, <1>2, <1>3, <1>4 DEF Script, Launches, c

LEMMA RemoveScript == Script(<<Must("remove")>>, {"remove"})
<1> DEFINE c == <<Must("remove")>>
<1>1. c \in Seq(Steps) /\ DOMAIN c = 1..1 /\ c # <<>>
  BY KindsAre DEF Must, May, Steps
<1>2. c[1].do = "remove" /\ c[1].must
  BY KindsAre DEF Must, May, Steps
<1> HIDE DEF c
<1>3. Words(c) = {"remove"}
  BY <1>1, <1>2 DEF Words
<1>4. InOrder(c)
  BY <1>1, <1>2 DEF InOrder, Barred, Creation, Clearing, Launches
<1> QED BY <1>1, <1>2, <1>3, <1>4 DEF Script, Launches, c

LEMMA TidyingScript == Script(<<May("desktops"), May("sockets")>>, {"desktops", "sockets"})
<1> DEFINE c == <<May("desktops"), May("sockets")>>
<1>1. c \in Seq(Steps) /\ DOMAIN c = 1..2 /\ c # <<>>
  BY KindsAre DEF Must, May, Steps
<1>2. c[1].do = "desktops" /\ c[2].do = "sockets"
  BY KindsAre DEF Must, May, Steps
<1> HIDE DEF c
<1>3. Words(c) = {"desktops", "sockets"}
  BY <1>1, <1>2 DEF Words
<1>4. InOrder(c)
  BY <1>1, <1>2 DEF InOrder, Barred, Creation, Clearing, Launches
<1> QED BY <1>1, <1>2, <1>3, <1>4 DEF Script, Launches, c

LEMMA RemovingScript ==
  Script(<<Must("remove"), Must("open"), Must("unregister"), May("desktops"), May("icons"), May("sockets")>>,
         {"remove", "open", "unregister", "desktops", "icons", "sockets"})
<1> DEFINE c == <<Must("remove"), Must("open"), Must("unregister"), May("desktops"), May("icons"), May("sockets")>>
<1>1. c \in Seq(Steps) /\ DOMAIN c = 1..6 /\ c # <<>>
  BY KindsAre DEF Must, May, Steps
<1>2. c[1].do = "remove" /\ c[2].do = "open" /\ c[3].do = "unregister" /\ c[4].do = "desktops" /\ c[5].do = "icons"
      /\ c[6].do = "sockets" /\ c[1].must
  BY KindsAre DEF Must, May, Steps
<1> HIDE DEF c
<1>3. Words(c) = {"remove", "open", "unregister", "desktops", "icons", "sockets"}
  BY <1>1, <1>2 DEF Words
<1>4. InOrder(c)
  BY <1>1, <1>2 DEF InOrder, Barred, Creation, Clearing, Launches
<1> QED BY <1>1, <1>2, <1>3, <1>4 DEF Script, Launches, c

LEMMA RebuildingScript == Script(<<Must("rebuild"), May("prepare")>>, {"rebuild", "prepare"})
<1> DEFINE c == <<Must("rebuild"), May("prepare")>>
<1>1. c \in Seq(Steps) /\ DOMAIN c = 1..2 /\ c # <<>>
  BY KindsAre DEF Must, May, Steps
<1>2. c[1].do = "rebuild" /\ c[2].do = "prepare" /\ c[1].must
  BY KindsAre DEF Must, May, Steps
<1> HIDE DEF c
<1>3. Words(c) = {"rebuild", "prepare"}
  BY <1>1, <1>2 DEF Words
<1>4. InOrder(c)
  BY <1>1, <1>2 DEF InOrder, Barred, Creation, Clearing, Launches
<1> QED BY <1>1, <1>2, <1>3, <1>4 DEF Script, Launches, c

LEMMA RebuildRegisterScript ==
  Script(<<Must("rebuild"), May("prepare"), Must("register")>>, {"rebuild", "prepare", "register"})
<1> DEFINE c == <<Must("rebuild"), May("prepare"), Must("register")>>
<1>1. c \in Seq(Steps) /\ DOMAIN c = 1..3 /\ c # <<>>
  BY KindsAre DEF Must, May, Steps
<1>2. c[1].do = "rebuild" /\ c[2].do = "prepare" /\ c[3].do = "register" /\ c[1].must
  BY KindsAre DEF Must, May, Steps
<1> HIDE DEF c
<1>3. Words(c) = {"rebuild", "prepare", "register"}
  BY <1>1, <1>2 DEF Words
<1>4. InOrder(c)
  BY <1>1, <1>2 DEF InOrder, Barred, Creation, Clearing, Launches
<1> QED BY <1>1, <1>2, <1>3, <1>4 DEF Script, Launches, c

\* A connection that has to be made first.
LEMMA BeginningScript == Script(<<Must("spawn"), Must("await")>>, {"spawn", "await"})
<1> DEFINE c == <<Must("spawn"), Must("await")>>
<1>1. c \in Seq(Steps) /\ DOMAIN c = 1..2 /\ c # <<>>
  BY KindsAre DEF Must, May, Steps
<1>2. c[1].do = "spawn" /\ c[2].do = "await"
  BY KindsAre DEF Must, May, Steps
<1> HIDE DEF c
<1>3. Words(c) = {"spawn", "await"}
  BY <1>1, <1>2 DEF Words
<1>4. InOrder(c)
  BY <1>1, <1>2 DEF InOrder, Barred, Creation, Clearing, Launches
<1> QED BY <1>1, <1>2, <1>3, <1>4 DEF Script, Launches, c

\* What a command is about to do when it begins.
Handles(op, s) ==
  /\ s \in Seq(Steps) /\ s # <<>> /\ InOrder(s) /\ s[1].do \notin Launches
  /\ Words(s) \cap Creation # {} => {"create", "register"} \subseteq Words(s) /\ op \in Given
  /\ "register" \in Words(s) => {"create", "rebuild"} \cap Words(s) # {}
  /\ "rebuild" \in Words(s) => {"register", "read"} \cap Words(s) # {}
  /\ Words(s) \cap Clearing = {}
  /\ IF op \in Removals
       THEN {"remove", "unregister", "desktops", "sockets"} \subseteq Words(s) /\ Words(s) \subseteq Removing
       ELSE Words(s) \cap {"remove", "unregister", "sockets"} = {}

LEMMA EasyHandles ==
  ASSUME NEW op, op \notin Removals,
         NEW s \in Seq(Steps), s # <<>>, Words(s) \subseteq Easy \ {"register"},
         \A i \in DOMAIN s : s[i].do = "read" => s[i].must
  PROVE  Handles(op, s)
<1>1. Script(s, Words(s))
  BY EasyScript DEF Easy
<1>2. Words(s) \cap (Creation \cup Clearing \cup {"register", "rebuild", "remove", "unregister", "sockets"}) = {}
  BY DEF Easy
<1> QED BY <1>1, <1>2 DEF Script, Handles

LEMMA MakingScript ==
  Script(Making, {"probe", "prescan", "mkdir", "volumes", "create", "sockdir", "start", "open", "prepare"})
<1> USE DEF Barred, Creation, Clearing
<1>1. Script(Connect \o Creating, {"probe"} \cup {"prescan", "mkdir", "volumes", "create"})
  BY ConnectScript, CreatingScript, Join
<1>2. Script((Connect \o Creating) \o Starting,
             ({"probe"} \cup {"prescan", "mkdir", "volumes", "create"}) \cup {"sockdir", "start", "open", "prepare"})
  BY <1>1, StartingScript, Join
<1>3. Script(((Connect \o Creating) \o Starting) \o <<May("prepare")>>,
             (({"probe"} \cup {"prescan", "mkdir", "volumes", "create"})
              \cup {"sockdir", "start", "open", "prepare"}) \cup {"prepare"})
  BY <1>2, PreparingScript, Join
<1>4. (({"probe"} \cup {"prescan", "mkdir", "volumes", "create"})
       \cup {"sockdir", "start", "open", "prepare"}) \cup {"prepare"}
        = {"probe", "prescan", "mkdir", "volumes", "create", "sockdir", "start", "open", "prepare"}
  OBVIOUS
<1> QED BY <1>3, <1>4 DEF Making

\* A command that creates makes the container, starts it and registers it.
LEMMA CreateHandles ==
  ASSUME NEW op \in Given \ Removals, NEW t, NEW W,
         Script(t, W), "register" \in W, W \subseteq {"open", "picture", "register", "entry", "window", "setup"}
  PROVE  Handles(op, Making \o t)
<1> DEFINE V == {"probe", "prescan", "mkdir", "volumes", "create", "sockdir", "start", "open", "prepare"}
           m == Making
<1>1. Script(m, V)
  BY MakingScript
<1>2. \A a \in V, b \in W : ~Barred(a, b)
  BY DEF Barred, Creation, Clearing
<1>3. m # <<>> /\ m \in Seq(Steps) /\ t \in Seq(Steps)
  <2>1. Words(<<>>) = {}
    BY DEF Words
  <2> QED BY <1>1, <2>1 DEF Script
<1>4. m \o t # <<>>
  BY <1>3
<1> HIDE DEF m, V
<1>5. Script(m \o t, V \cup W)
  BY <1>1, <1>2, Join
<1>6. Words(m \o t) = V \cup W
  BY <1>5 DEF Script
<1>7. (V \cup W) \cap Clearing = {} /\ (V \cup W) \cap {"remove", "unregister", "sockets"} = {} /\ "rebuild" \notin V \cup W
  BY DEF V, Clearing
<1>8. {"create", "register"} \subseteq V \cup W
  BY DEF V
<1> QED BY <1>4, <1>5, <1>6, <1>7, <1>8 DEF Script, Handles, m

LEMMA CreateOps ==
  /\ Handles("env_new", env_new) /\ Handles("cmd_create", cmd_create)
  /\ Handles("cmd_env_new", cmd_env_new) /\ Handles("cmd_flavor_apply", cmd_flavor_apply)
<1> USE DEF Given, Removals
<1>1. Handles("env_new", env_new)
  BY ShowingScript, CreateHandles DEF env_new
<1>2. Handles("cmd_create", cmd_create)
  BY NotingScript, CreateHandles DEF cmd_create
<1>3. Handles("cmd_env_new", cmd_env_new)
  BY RegisteringScript, CreateHandles DEF cmd_env_new
<1>4. Handles("cmd_flavor_apply", cmd_flavor_apply)
  <2>1. Script(<<Must("setup")>> \o Registering, {"setup"} \cup {"open", "register"})
    BY SetupScript, RegisteringScript, Join DEF Barred
  <2>2. Handles("cmd_flavor_apply", Making \o (<<Must("setup")>> \o Registering))
    BY <2>1, CreateHandles
  <2>3. Making \in Seq(Steps) /\ <<Must("setup")>> \in Seq(Steps) /\ Registering \in Seq(Steps)
    BY MakingScript, SetupScript, RegisteringScript DEF Script
  <2>4. \A a, b, c \in Seq(Steps) : a \o (b \o c) = (a \o b) \o c
    OBVIOUS
  <2> QED BY <2>2, <2>3, <2>4 DEF cmd_flavor_apply
<1> QED BY <1>1, <1>2, <1>3, <1>4

\* The handlers of one chain: a script whose words are known handles its command.
LEMMA ScriptHandles ==
  ASSUME NEW op, NEW s, NEW W, Script(s, W), W # {},
         W \cap (Creation \cup Clearing) = {},
         "register" \in W => "rebuild" \in W,
         "rebuild" \in W => {"register", "read"} \cap W # {},
         IF op \in Removals
           THEN {"remove", "unregister", "desktops", "sockets"} \subseteq W /\ W \subseteq Removing
           ELSE W \cap {"remove", "unregister", "sockets"} = {}
  PROVE  Handles(op, s)
<1>1. s # <<>>
  <2>1. Words(<<>>) = {}
    BY DEF Words
  <2> QED BY <2>1 DEF Script
<1> QED BY <1>1 DEF Script, Handles

LEMMA LaunchOps ==
  \A op \in DOMAIN Handler \ Removals : Handles(op, start_container) /\ Handles(op, restart_container)
<1> SUFFICES ASSUME NEW op \in DOMAIN Handler \ Removals
             PROVE  Handles(op, start_container) /\ Handles(op, restart_container)
  OBVIOUS
<1>1. Script(start_container, {"probe"} \cup {"sockdir", "start", "open", "prepare"})
  BY ConnectScript, StartingScript, Join DEF Barred, start_container
<1>2. Script(restart_container, {"probe"} \cup {"sockdir", "restart"})
  BY ConnectScript, RestartScript, Join DEF Barred, restart_container
<1> QED BY <1>1, <1>2, ScriptHandles DEF Creation, Clearing

LEMMA RemovalOps ==
  \A op \in Removals : Handles(op, env_rm) /\ Handles(op, remove_container)
<1> SUFFICES ASSUME NEW op \in Removals PROVE Handles(op, env_rm) /\ Handles(op, remove_container)
  OBVIOUS
<1> USE DEF Barred, Creation, Clearing
<1>1. Script(Connect \o <<Must("remove")>>, {"probe"} \cup {"remove"})
  BY ConnectScript, RemoveScript, Join
<1>2. Script((Connect \o <<Must("remove")>>) \o Unregistering, ({"probe"} \cup {"remove"}) \cup {"open", "unregister"})
  BY <1>1, UnregisteringScript, Join
<1>3. Script(((Connect \o <<Must("remove")>>) \o Unregistering) \o <<May("desktops"), May("sockets")>>,
             (({"probe"} \cup {"remove"}) \cup {"open", "unregister"}) \cup {"desktops", "sockets"})
  BY <1>2, TidyingScript, Join
<1>4. Script(Connect \o <<Must("remove"), Must("open"), Must("unregister"), May("desktops"), May("icons"), May("sockets")>>,
             {"probe"} \cup {"remove", "open", "unregister", "desktops", "icons", "sockets"})
  BY ConnectScript, RemovingScript, Join
<1>5. Handles(op, env_rm)
  BY <1>3, ScriptHandles DEF env_rm, Removing
<1>6. Handles(op, remove_container)
  BY <1>4, ScriptHandles DEF remove_container, Removing
<1> QED BY <1>5, <1>6

LEMMA RebuildOps ==
  /\ Handles("env_rebuild", env_rebuild) /\ Handles("cmd_rebuild", cmd_rebuild)
  /\ Handles("apply_container_config", apply_container_config)
<1> USE DEF Barred, Creation, Clearing
<1>1. Script(Getting \o Connect, {"open", "read"} \cup {"probe"})
  BY GettingScript, ConnectScript, Join
<1>2. Script(env_rebuild, ({"open", "read"} \cup {"probe"}) \cup {"rebuild", "prepare"})
  BY <1>1, RebuildingScript, Join DEF env_rebuild
<1>3. Script(cmd_rebuild, ({"open", "read"} \cup {"probe"}) \cup {"rebuild", "prepare", "register"})
  BY <1>1, RebuildRegisterScript, Join DEF cmd_rebuild
<1>4. Script(Connect \o <<Must("rebuild"), May("prepare")>>, {"probe"} \cup {"rebuild", "prepare"})
  BY ConnectScript, RebuildingScript, Join
<1>5. Script(apply_container_config, ({"probe"} \cup {"rebuild", "prepare"}) \cup {"open", "register"})
  BY <1>4, RegisteringScript, Join DEF apply_container_config
<1>6. Handles("env_rebuild", env_rebuild)
  BY <1>2, ScriptHandles DEF Removals
<1>7. Handles("cmd_rebuild", cmd_rebuild)
  BY <1>3, ScriptHandles DEF Removals
<1>8. Handles("apply_container_config", apply_container_config)
  BY <1>5, ScriptHandles DEF Removals
<1> QED BY <1>6, <1>7, <1>8

\* The rest: connect, and ask or tell the container something.
EasySteps == {x \in Steps : x.do \in Easy \ {"register"} /\ (x.do = "read" => x.must)}

LEMMA EasyAre ==
  /\ \A x \in {Must("stop"), Must("list"), May("list"), May("open"), May("logs")} : x \in EasySteps
  /\ \A x \in {Must("commit"), Must("ensure"), Must("ready"), Must("exec"), May("window")} : x \in EasySteps
  /\ \A x \in {Must("volume"), Must("unmade"), Must("open"), Must("read"), Must("probe")} : x \in EasySteps
BY KindsAre DEF EasySteps, Easy, Creation, Clearing, Launches, Must, May, Steps

LEMMA EasySeqHandles ==
  ASSUME NEW op, op \notin Removals, NEW s \in Seq(EasySteps), s # <<>>
  PROVE  Handles(op, s)
<1>1. s \in Seq(Steps)
  BY DEF EasySteps
<1>2. Words(s) \subseteq Easy \ {"register"}
  BY DEF Words, EasySteps
<1>3. \A i \in DOMAIN s : s[i].do = "read" => s[i].must
  BY DEF EasySteps
<1> QED BY <1>1, <1>2, <1>3, EasyHandles

LEMMA EasyOps ==
  ASSUME NEW op, op \notin Removals
  PROVE  \A s \in {stop_container, env_list, inspect_container, container_failure_info, env_copy_config,
                   get_container_config, env_snapshot, cmd_boot, cmd_open, cmd_run, cmd_run_root, cmd_launch,
                   cmd_volume_ls, cmd_volume_create, cmd_volume_rm} : Handles(op, s)
<1> DEFINE E == Seq(EasySteps)
<1>c. Connect \in E /\ Getting \in E /\ Connect # <<>> /\ Getting # <<>>
  BY EasyAre DEF Connect, Getting
<1>1. stop_container \in E /\ stop_container # <<>> /\ env_list \in E /\ env_list # <<>> /\
      inspect_container \in E /\ inspect_container # <<>> /\ container_failure_info \in E /\ container_failure_info # <<>>
  BY <1>c, EasyAre DEF stop_container, env_list, inspect_container, container_failure_info
<1>2. env_copy_config \in E /\ env_copy_config # <<>> /\ get_container_config \in E /\ get_container_config # <<>> /\
      env_snapshot \in E /\ env_snapshot # <<>>
  BY <1>c, EasyAre DEF env_copy_config, get_container_config, env_snapshot
<1>3. cmd_boot \in E /\ cmd_boot # <<>> /\ cmd_open \in E /\ cmd_open # <<>> /\
      cmd_run \in E /\ cmd_run # <<>> /\ cmd_run_root \in E /\ cmd_run_root # <<>> /\
      cmd_launch \in E /\ cmd_launch # <<>>
  BY <1>c, EasyAre DEF cmd_boot, cmd_open, cmd_run, cmd_run_root, cmd_launch
<1>4. cmd_volume_ls \in E /\ cmd_volume_ls # <<>> /\ cmd_volume_create \in E /\ cmd_volume_create # <<>> /\
      cmd_volume_rm \in E /\ cmd_volume_rm # <<>>
  BY <1>c, EasyAre DEF cmd_volume_ls, cmd_volume_create, cmd_volume_rm
<1>5. \A s \in E : s # <<>> => Handles(op, s)
  BY EasySeqHandles
<1> HIDE DEF E
<1> QED BY <1>1, <1>2, <1>3, <1>4, <1>5

LEMMA HandlerHandles ==
  ASSUME NEW op \in DOMAIN Handler
  PROVE  Handles(op, Handler[op])
<1>1. CASE op \in {"env_new", "cmd_create", "cmd_env_new", "cmd_flavor_apply"}
  BY <1>1, CreateOps DEF Handler
<1>2. CASE op \in Removals
  BY <1>2, RemovalOps DEF Handler, Removals, cmd_rm, cmd_env_rm
<1>3. CASE op \in {"env_rebuild", "cmd_rebuild", "apply_container_config"}
  BY <1>3, RebuildOps DEF Handler
<1>4. CASE op \in {"start_container", "env_start", "cmd_start", "cmd_env_start", "restart_container", "cmd_restart"}
  BY <1>4, LaunchOps DEF Handler, Removals, env_start, cmd_start, cmd_env_start, cmd_restart
<1>5. CASE op \in {"stop_container", "env_stop", "cmd_stop", "cmd_env_stop", "env_list", "inspect_container",
                   "container_failure_info", "cmd_list", "cmd_env_list", "get_container_config"}
  BY <1>5, EasyOps DEF Handler, Removals, env_stop, cmd_stop, cmd_env_stop, cmd_list, cmd_env_list
<1>6. CASE op \in {"env_copy_config", "cmd_inspect", "env_snapshot", "cmd_env_snapshot", "cmd_boot", "cmd_open",
                   "cmd_run", "cmd_run_root", "cmd_launch", "cmd_volume_ls", "cmd_volume_create", "cmd_volume_rm"}
  BY <1>6, EasyOps DEF Handler, Removals, cmd_inspect, cmd_env_snapshot
<1> QED BY <1>1, <1>2, <1>3, <1>4, <1>5, <1>6 DEF Handler, Removals

(***************************************************************************)
(* Commands: what a step does to the record of its worker                  *)
(***************************************************************************)
\* A command is still the one it was.
Like(r, q) ==
  /\ q.name = r.name /\ q.removal = r.removal /\ q.overlaps = r.overlaps /\ q.had = r.had
  /\ q.doomed = r.doomed /\ q.status = r.status /\ q.seen \subseteq r.seen /\ (r.lied => q.lied)

Stays(r, q) ==
  /\ q.script = r.script /\ Like(r, q)
  /\ q.touched = r.touched /\ q.mine = r.mine /\ q.cfg = r.cfg /\ q.hurt = r.hurt

\* It passes the step, ends, or goes back on what it has made, or there is more to do
\* first; one that has changed the container does not end early unnoticed.
Passes(r, q) ==
  /\ q.script = Tail(r.script)
  /\ q.script # <<>> => /\ Like(r, q)
                        /\ q.touched = (r.touched \/ Head(r.script).do \in {"create", "rebuild"})
                        /\ Head(r.script).do # "read" => q.cfg = r.cfg
                        /\ Head(r.script).do # "prescan" => q.mine = r.mine
Fails(r, q) == q.script = <<>> /\ (r.touched /\ "register" \in Words(r.script) => r.name \in unsure')
Undoes(r, q) ==
  /\ Head(r.script).must /\ Head(r.script).do \in Creation
  /\ q.script = Undoing /\ q.doomed /\ q.touched = r.touched /\ q.mine = r.mine /\ q.cfg = r.cfg
  /\ q.name = r.name /\ q.removal = r.removal /\ q.overlaps = r.overlaps /\ q.had = r.had
  /\ q.status = r.status /\ q.seen \subseteq r.seen /\ (r.lied => q.lied)
Spliced(r, s) ==
  \/ Head(r.script).do = "probe" /\ s = <<Must("spawn"), Must("await")>> \o Tail(r.script)
  \/ Head(r.script).do = "ensure" /\ s = Starting \o Tail(r.script)
Splices(r, q) ==
  /\ Spliced(r, q.script)
  /\ Like(r, q) /\ q.touched = r.touched /\ q.mine = r.mine /\ q.cfg = r.cfg /\ q.hurt = r.hurt

Moves(w) ==
  /\ Busy(w)
  /\ work' \in [Workers -> Work]
  /\ \A o \in Workers : o # w => Stays(work[o], work'[o])
  /\ raced' = raced /\ begun' = begun
  /\ unsure \subseteq unsure' /\ unsure' \subseteq unsure \cup {On(w)}
  /\ \/ Passes(work[w], work'[w]) \/ Fails(work[w], work'[w])
     \/ Undoes(work[w], work'[w]) \/ Splices(work[w], work'[w])
  /\ work[w].hurt /\ work'[w].script # <<>> => work'[w].hurt

LEMMA DoneRecord ==
  ASSUME NEW r \in Work, NEW st \in {"ok", "failed"}
  PROVE  LET q == Done(r, st) IN
         q \in Work /\ q.script = <<>> /\ q.hurt = r.hurt /\ q.torn = r.torn /\ q.status = st
<1>1. Done(r, st) \in Work
  <2>1. Idle \in Work
    BY EnvironmentAssumption DEF Idle, Work
  <2>2. r.hurt \in BOOLEAN /\ r.torn \in BOOLEAN
    BY DEF Work
  <2> QED BY <2>1, <2>2 DEF Done, Work
<1> QED BY <1>1 DEF Done, Idle, Work

LEMMA Emptiness ==
  ASSUME NEW S, NEW s \in Seq(S)
  PROVE  /\ s = <<>> <=> Len(s) = 0
         /\ s # <<>> => Tail(s) \in Seq(S) /\ Len(Tail(s)) = Len(s) - 1 /\ Len(s) >= 1
OBVIOUS

LEMMA SteppedRecord ==
  ASSUME NEW r \in Work, r.script # <<>>
  PROVE  LET q == Stepped(r) IN
         /\ q \in Work /\ q.script = Tail(r.script) /\ q.hurt = r.hurt /\ q.torn = r.torn
         /\ Len(r.script) > 1 => q.touched = r.touched /\ q.mine = r.mine /\ q.cfg = r.cfg /\ q.lied = r.lied
                                 /\ q.script # <<>> /\ Like(r, q)
         /\ Len(r.script) = 1 => q.script = <<>> /\ q.status = (IF r.doomed THEN "failed" ELSE "ok")
<1> DEFINE t == Tail(r.script)
<1>1. r.script \in Seq(Steps) /\ Len(r.script) \in Nat
  BY DEF Work
<1>2. t \in Seq(Steps) /\ Len(t) = Len(r.script) - 1 /\ Len(r.script) >= 1 /\ (t = <<>> <=> Len(t) = 0)
  <2>1. t \in Seq(Steps) /\ Len(t) = Len(r.script) - 1 /\ Len(r.script) >= 1
    BY <1>1, Emptiness
  <2> HIDE DEF t
  <2>2. t = <<>> <=> Len(t) = 0
    BY <2>1, Emptiness
  <2> QED BY <2>1, <2>2
<1> HIDE DEF t
<1>3. CASE Len(r.script) = 1
  <2> DEFINE st == IF r.doomed THEN "failed" ELSE "ok"
             d == Done(r, st)
  <2>1. Stepped(r) = d
    BY <1>3 DEF Stepped
  <2>2. t = <<>>
    BY <1>2, <1>3
  <2>3. st \in {"ok", "failed"}
    OBVIOUS
  <2> HIDE DEF st
  <2>4. d \in Work /\ d.script = <<>> /\ d.hurt = r.hurt /\ d.torn = r.torn /\ d.status = st
    BY <2>3, DoneRecord
  <2> HIDE DEF d
  <2>5. Len(r.script) # 0 /\ ~(Len(r.script) > 1)
    BY <1>3
  <2> QED BY <1>3, <2>1, <2>2, <2>4, <2>5 DEF t, st
<1>4. CASE Len(r.script) > 1
  <2>1. t # <<>> /\ t \in Seq(Steps) /\ Len(r.script) # 1
    BY <1>1, <1>2, <1>4
  <2> DEFINE q == [r EXCEPT !.script = t]
  <2>2. Stepped(r) = q
    BY <2>1 DEF Stepped, t
  <2>3. q \in Work /\ q.script = t
    BY <2>1 DEF Work
  <2>4. q.hurt = r.hurt /\ q.torn = r.torn /\ q.touched = r.touched /\ q.mine = r.mine /\ q.cfg = r.cfg /\ q.lied = r.lied
    BY DEF Work
  <2>5. Like(r, q)
    BY DEF Work, Like
  <2> HIDE DEF q
  <2> QED BY <1>4, <2>1, <2>2, <2>3, <2>4, <2>5 DEF t
<1> QED BY <1>1, <1>2, <1>3, <1>4

LEMMA HurtRecord ==
  ASSUME TypeOK, NEW w \in Workers
  PROVE  LET r == work[w] q == Hurt(w) IN
         /\ q \in Work /\ q.script = r.script /\ q.hurt = TRUE /\ q.torn = (r.torn \/ r.doomed)
         /\ Like(r, q) /\ q.touched = r.touched /\ q.mine = r.mine /\ q.cfg = r.cfg /\ q.lied = r.lied
<1> DEFINE r == work[w]
<1>1. r \in Work
  BY DEF TypeOK
<1>2. Hurt(w) = [r EXCEPT !.hurt = TRUE, !.torn = @ \/ r.doomed]
  BY DEF Hurt
<1> HIDE DEF r
<1>3. (r.torn \/ r.doomed) \in BOOLEAN
  OBVIOUS
<1>4. Hurt(w) \in Work
  BY <1>1, <1>2, <1>3 DEF Work
<1>5. /\ Hurt(w).script = r.script /\ Hurt(w).hurt = TRUE /\ Hurt(w).torn = (r.torn \/ r.doomed)
      /\ Hurt(w).touched = r.touched /\ Hurt(w).mine = r.mine /\ Hurt(w).cfg = r.cfg /\ Hurt(w).lied = r.lied
  BY <1>1, <1>2 DEF Work
<1>6. Like(r, Hurt(w))
  BY <1>1, <1>2 DEF Work, Like
<1> QED BY <1>4, <1>5, <1>6 DEF r

LEMMA FailedRecord ==
  ASSUME NEW r \in Work, r.script # <<>>
  PROVE  LET q == Failed(r) IN
         /\ q \in Work /\ q.hurt = r.hurt /\ q.torn = r.torn
         /\ \/ ~Head(r.script).must /\ q = Stepped(r)
            \/ Head(r.script).must /\ q.script = <<>> /\ q.status = "failed"
            \/ Undoes(r, q) /\ q.lied = r.lied
<1>1. Undoing \in Seq(Steps)
  BY UndoingScript DEF Script
<1>2. CASE ~Head(r.script).must
  BY <1>2, SteppedRecord DEF Failed
<1>3. CASE Head(r.script).must /\ \E i \in DOMAIN Creating : Creating[i] = Head(r.script)
  <2>1. Failed(r) = [[r EXCEPT !.script = Undoing] EXCEPT !.doomed = TRUE]
    BY <1>3 DEF Failed
  <2>2. Head(r.script).do \in Creation
    BY <1>3 DEF Creating, Must, Creation
  <2> QED BY <1>1, <1>3, <2>1, <2>2 DEF Work, Undoes
<1>4. CASE Head(r.script).must /\ ~\E i \in DOMAIN Creating : Creating[i] = Head(r.script)
  BY <1>4, DoneRecord DEF Failed
<1> QED BY <1>2, <1>3, <1>4

(***************************************************************************)
(* Commands: what is ahead of them                                         *)
(***************************************************************************)
LEMMA Onwards ==
  ASSUME NEW s \in Seq(Steps), s # <<>>
  PROVE  /\ Head(s) = s[1] /\ 1 \in DOMAIN s
         /\ \A i \in DOMAIN Tail(s) : i + 1 \in DOMAIN s /\ Tail(s)[i] = s[i + 1] /\ i \in Nat /\ i >= 1
         /\ \A i \in DOMAIN s : i \in Nat /\ (i = 1 \/ (i - 1 \in DOMAIN Tail(s) /\ Tail(s)[i - 1] = s[i]))
         /\ Tail(s) # <<>> => 1 \in DOMAIN Tail(s) /\ Tail(s)[1] = s[2] /\ 2 \in DOMAIN s
OBVIOUS

LEMMA TailWords ==
  ASSUME NEW s \in Seq(Steps), s # <<>>
  PROVE  Words(s) = {Head(s).do} \cup Words(Tail(s))
<1> DEFINE t == Tail(s)
<1>1. /\ Head(s) = s[1] /\ 1 \in DOMAIN s
      /\ \A i \in DOMAIN t : i + 1 \in DOMAIN s /\ t[i] = s[i + 1]
      /\ \A i \in DOMAIN s : i = 1 \/ (i - 1 \in DOMAIN t /\ t[i - 1] = s[i])
  BY Onwards
<1> HIDE DEF t
<1>2. ASSUME NEW k \in Words(s) PROVE k \in {Head(s).do} \cup Words(t)
  BY <1>1 DEF Words
<1>3. ASSUME NEW k \in {Head(s).do} \cup Words(t) PROVE k \in Words(s)
  BY <1>1 DEF Words
<1> QED BY <1>2, <1>3 DEF t

LEMMA TailInOrder ==
  ASSUME NEW s \in Seq(Steps), s # <<>>, InOrder(s)
  PROVE  /\ InOrder(Tail(s))
         /\ \A b \in Words(Tail(s)) : ~Barred(Head(s).do, b)
         /\ Tail(s) # <<>> /\ Tail(s)[1].do \in Launches => Head(s).do = "sockdir"
         /\ Head(s).do \in Creation \cup {"sockdir", "rebuild", "remove", "read"} => Head(s).must
<1> DEFINE t == Tail(s)
<1>1. /\ Head(s) = s[1] /\ 1 \in DOMAIN s
      /\ \A i \in DOMAIN t : i + 1 \in DOMAIN s /\ t[i] = s[i + 1] /\ i \in Nat /\ i >= 1
      /\ t # <<>> => 1 \in DOMAIN t /\ t[1] = s[2] /\ 2 \in DOMAIN s
  BY Onwards
<1> HIDE DEF t
<1>2. /\ \A i, j \in DOMAIN s : i < j => ~Barred(s[i].do, s[j].do)
      /\ \A i \in DOMAIN s : i > 1 /\ s[i].do \in Launches => s[i - 1].do = "sockdir"
      /\ \A i \in DOMAIN s : s[i].do \in Creation \cup {"sockdir", "rebuild", "remove", "read"} => s[i].must
  BY DEF InOrder
<1>3. ASSUME NEW i \in DOMAIN t, NEW j \in DOMAIN t, i < j PROVE ~Barred(t[i].do, t[j].do)
  <2>1. i + 1 < j + 1
    BY <1>1, <1>3
  <2> QED BY <2>1, <1>1, <1>2
<1>4. ASSUME NEW i \in DOMAIN t, i > 1, t[i].do \in Launches PROVE t[i - 1].do = "sockdir"
  <2>1. s[i + 1].do \in Launches /\ i + 1 > 1 /\ (i + 1) - 1 = i /\ (i - 1) + 1 = i
    BY <1>1, <1>4
  <2>2. s[i].do = "sockdir"
    BY <2>1, <1>1, <1>2
  <2>3. i - 1 \in DOMAIN t
    BY <1>4, Emptiness DEF t
  <2> QED BY <2>1, <2>2, <2>3, <1>1
<1>5. \A i \in DOMAIN t : t[i].do \in Creation \cup {"sockdir", "rebuild", "remove", "read"} => t[i].must
  BY <1>1, <1>2
<1>6. ASSUME NEW b \in Words(t) PROVE ~Barred(Head(s).do, b)
  <2>1. PICK i \in DOMAIN t : b = t[i].do
    BY <1>6 DEF Words
  <2>2. 1 < i + 1
    BY <1>1
  <2> QED BY <2>1, <2>2, <1>1, <1>2
<1>7. t # <<>> /\ t[1].do \in Launches => Head(s).do = "sockdir"
  BY <1>1, <1>2
<1>8. InOrder(t)
  BY <1>3, <1>4, <1>5 DEF InOrder
<1> QED BY <1>1, <1>2, <1>6, <1>7, <1>8 DEF t

\* What is ahead of a command, and what is behind the step it is at.
LEMMA Ahead1 ==
  ASSUME NEW r \in Work, r.script # <<>>, Planned(r)
  PROVE  LET h == Head(r.script).do  W == Words(r.script)  T == Words(Tail(r.script)) IN
         /\ W = {h} \cup T /\ InOrder(Tail(r.script)) /\ (\A b \in T : ~Barred(h, b))
         /\ Tail(r.script) # <<>> /\ Tail(r.script)[1].do \in Launches => h = "sockdir"
         /\ h \in Creation \cup {"sockdir", "rebuild", "remove", "read"} => Head(r.script).must
         /\ W \cap Creation # {} => {"create", "register"} \subseteq W
         /\ "register" \in W /\ ~r.touched => {"create", "rebuild"} \cap W # {}
         /\ r.touched => W \cap (Creation \cup {"rebuild", "read"}) = {}
         /\ r.doomed => "unvol" \in W /\ W \subseteq Clearing
         /\ ~r.doomed => W \cap Clearing = {}
         /\ r.removal => W \subseteq Removing /\ ("open" \in W => "unregister" \in W)
         /\ ~r.removal => W \cap {"remove", "unregister", "sockets"} = {}
<1>1. r.script \in Seq(Steps) /\ r.doomed \in BOOLEAN /\ r.removal \in BOOLEAN
  BY DEF Work
<1>2. InOrder(r.script)
  BY DEF Planned
<1>3. Words(r.script) = {Head(r.script).do} \cup Words(Tail(r.script))
  BY <1>1, TailWords
<1>4. /\ InOrder(Tail(r.script))
      /\ \A b \in Words(Tail(r.script)) : ~Barred(Head(r.script).do, b)
      /\ Tail(r.script) # <<>> /\ Tail(r.script)[1].do \in Launches => Head(r.script).do = "sockdir"
      /\ Head(r.script).do \in Creation \cup {"sockdir", "rebuild", "remove", "read"} => Head(r.script).must
  BY <1>1, <1>2, TailInOrder
<1> QED BY <1>3, <1>4 DEF Planned

LEMMA PassPlanned ==
  ASSUME NEW r \in Work, NEW q \in Work, r.script # <<>>, Planned(r), Passes(r, q), q.script # <<>>
  PROVE  Planned(q)
<1> DEFINE h == Head(r.script).do
           W == Words(r.script)
           T == Words(Tail(r.script))
<1>1. /\ W = {h} \cup T /\ InOrder(Tail(r.script)) /\ (\A b \in T : ~Barred(h, b))
      /\ W \cap Creation # {} => {"create", "register"} \subseteq W
      /\ "register" \in W /\ ~r.touched => {"create", "rebuild"} \cap W # {}
      /\ r.touched => W \cap (Creation \cup {"rebuild", "read"}) = {}
      /\ r.doomed => "unvol" \in W /\ W \subseteq Clearing
      /\ ~r.doomed => W \cap Clearing = {}
      /\ r.removal => W \subseteq Removing /\ ("open" \in W => "unregister" \in W)
      /\ ~r.removal => W \cap {"remove", "unregister", "sockets"} = {}
  BY Ahead1
<1>2. /\ q.script = Tail(r.script) /\ q.removal = r.removal /\ q.doomed = r.doomed
      /\ q.touched = (r.touched \/ h \in {"create", "rebuild"})
  BY DEF Passes, Like
<1>3. T # {}
  <2>1. q.script \in Seq(Steps)
    BY DEF Work
  <2>2. 1 \in DOMAIN q.script
    BY <2>1
  <2> QED BY <1>2, <2>2 DEF Words
<1>4. Words(q.script) = T
  BY <1>2
<1> HIDE DEF h, W, T
<1>5. T \cap Creation # {} => {"create", "register"} \subseteq T
  BY <1>1 DEF Barred, Creation
<1>6. "register" \in T /\ ~q.touched => {"create", "rebuild"} \cap T # {}
  BY <1>1, <1>2 DEF Barred, Creation
<1>7. q.touched => T \cap (Creation \cup {"rebuild", "read"}) = {}
  BY <1>1, <1>2 DEF Barred, Creation
<1>8. q.doomed => "unvol" \in T /\ T \subseteq Clearing
  BY <1>1, <1>2, <1>3 DEF Barred, Clearing
<1>9. ~q.doomed => T \cap Clearing = {}
  BY <1>1, <1>2
<1>10. q.removal => T \subseteq Removing /\ ("open" \in T => "unregister" \in T)
  BY <1>1, <1>2 DEF Barred
<1>11. ~q.removal => T \cap {"remove", "unregister", "sockets"} = {}
  BY <1>1, <1>2
<1> QED BY <1>1, <1>2, <1>4, <1>5, <1>6, <1>7, <1>8, <1>9, <1>10, <1>11 DEF Planned

LEMMA UndoPlanned ==
  ASSUME NEW r \in Work, NEW q \in Work, r.script # <<>>, Planned(r), Undoes(r, q)
  PROVE  Planned(q) /\ ~r.touched /\ ~r.removal /\ "create" \in Words(r.script)
<1> DEFINE h == Head(r.script).do
           W == Words(r.script)
<1>1. /\ h \in W
      /\ W \cap Creation # {} => {"create", "register"} \subseteq W
      /\ r.touched => W \cap (Creation \cup {"rebuild", "read"}) = {}
      /\ r.removal => W \subseteq Removing
  BY Ahead1
<1>2. h \in Creation
  BY DEF Undoes
<1>3. Words(q.script) = {"check", "undir", "unvol"} /\ InOrder(q.script)
  BY UndoingScript DEF Script, Undoes
<1>4. q.doomed /\ q.touched = r.touched /\ q.removal = r.removal
  BY DEF Undoes
<1> HIDE DEF h, W
<1>5. ~r.touched /\ ~r.removal /\ "create" \in W
  BY <1>1, <1>2 DEF Creation, Removing
<1>6. Planned(q)
  BY <1>3, <1>4, <1>5 DEF Planned, Clearing, Creation
<1> QED BY <1>5, <1>6 DEF W

LEMMA SplicePlanned ==
  ASSUME NEW r \in Work, NEW q \in Work, r.script # <<>>, Planned(r), Splices(r, q)
  PROVE  /\ Planned(q) /\ q.script # <<>> /\ q.script[1].do \notin Launches
         /\ \A k \in {"create", "rebuild", "register", "read", "remove", "unregister", "desktops", "sockets", "undir"} :
              (k \in Words(q.script)) = (k \in Words(r.script))
<1> DEFINE h == Head(r.script).do
           W == Words(r.script)
           T == Words(Tail(r.script))
           t == Tail(r.script)
<1>1. /\ W = {h} \cup T /\ InOrder(t) /\ (\A b \in T : ~Barred(h, b))
      /\ t # <<>> /\ t[1].do \in Launches => h = "sockdir"
      /\ W \cap Creation # {} => {"create", "register"} \subseteq W
      /\ "register" \in W /\ ~r.touched => {"create", "rebuild"} \cap W # {}
      /\ r.touched => W \cap (Creation \cup {"rebuild", "read"}) = {}
      /\ r.doomed => "unvol" \in W /\ W \subseteq Clearing
      /\ ~r.doomed => W \cap Clearing = {}
      /\ r.removal => W \subseteq Removing /\ ("open" \in W => "unregister" \in W)
      /\ ~r.removal => W \cap {"remove", "unregister", "sockets"} = {}
  BY Ahead1
<1>2. q.touched = r.touched /\ q.removal = r.removal /\ q.doomed = r.doomed
  BY DEF Splices, Spliced, Like
<1>3. t \in Seq(Steps)
  BY Emptiness DEF Work
<1>4. h \in {"probe", "ensure"}
  BY DEF Splices, Spliced
<1>5. Script(t, T)
  BY <1>1, <1>3, <1>4 DEF Script
<1>6. CASE h = "probe" /\ q.script = <<Must("spawn"), Must("await")>> \o t
  <2> DEFINE N == {"spawn", "await"} \cup T
  <2>0. \A a \in {"spawn", "await"}, b \in T : ~Barred(a, b)
    BY DEF Barred
  <2>1. Script(q.script, N)
    <3> DEFINE s == <<Must("spawn"), Must("await")>>
               V == {"spawn", "await"}
    <3>1. Script(s, V) /\ q.script = s \o t /\ \A a \in V, b \in T : ~Barred(a, b)
      BY <2>0, <1>6, BeginningScript
    <3> HIDE DEF s, V, T, t
    <3>2. Script(s \o t, V \cup T)
      BY <3>1, <1>5, Join
    <3> QED BY <3>1, <3>2 DEF V
  <2>2. Words(q.script) = N /\ InOrder(q.script) /\ (q.script # <<>> => q.script[1].do \notin Launches)
    BY <2>1 DEF Script
  <2>3. q.script # <<>>
    BY <2>2, NoWords
  <2> HIDE DEF h, W, T, t
  <2>4. N \cap Creation # {} => {"create", "register"} \subseteq N
    BY <1>1, <1>6 DEF Creation
  <2>5. "register" \in N /\ ~q.touched => {"create", "rebuild"} \cap N # {}
    BY <1>1, <1>2, <1>6
  <2>6. q.touched => N \cap (Creation \cup {"rebuild", "read"}) = {}
    BY <1>1, <1>2, <1>6 DEF Creation
  <2>7. q.doomed => "unvol" \in N /\ N \subseteq Clearing
    BY <1>1, <1>2, <1>6 DEF Clearing
  <2>8. ~q.doomed => N \cap Clearing = {}
    BY <1>1, <1>2, <1>6 DEF Clearing
  <2>9. q.removal => N \subseteq Removing /\ ("open" \in N => "unregister" \in N)
    BY <1>1, <1>2, <1>6 DEF Removing
  <2>10. ~q.removal => N \cap {"remove", "unregister", "sockets"} = {}
    BY <1>1, <1>2, <1>6
  <2>11. Planned(q)
    BY <2>2, <2>4, <2>5, <2>6, <2>7, <2>8, <2>9, <2>10 DEF Planned
  <2> QED BY <2>2, <2>3, <2>11, <1>1, <1>6 DEF W
<1>7. CASE h = "ensure" /\ q.script = Starting \o t
  <2> DEFINE N == {"sockdir", "start", "open", "prepare"} \cup T
  <2>0. \A b \in T : b \notin {"create", "rebuild"}
    BY <1>1, <1>7 DEF Barred
  <2>1. Script(q.script, N)
    BY <2>0, <1>5, <1>7, StartingScript, Join DEF Barred
  <2>2. Words(q.script) = N /\ InOrder(q.script) /\ (q.script # <<>> => q.script[1].do \notin Launches)
    BY <2>1 DEF Script
  <2>3. q.script # <<>>
    BY <2>2, NoWords
  <2> HIDE DEF h, W, T, t
  <2>4. N \cap Creation # {} => {"create", "register"} \subseteq N
    BY <1>1, <1>7 DEF Creation
  <2>5. "register" \in N /\ ~q.touched => {"create", "rebuild"} \cap N # {}
    BY <1>1, <1>2, <1>7
  <2>6. q.touched => N \cap (Creation \cup {"rebuild", "read"}) = {}
    BY <1>1, <1>2, <1>7 DEF Creation
  <2>7. ~q.doomed /\ ~q.removal
    BY <1>1, <1>2, <1>7 DEF Clearing, Removing
  <2>8. N \cap Clearing = {}
    BY <1>1, <1>2, <1>7, <2>7 DEF Clearing
  <2>9. N \cap {"remove", "unregister", "sockets"} = {}
    BY <1>1, <1>2, <1>7, <2>7
  <2>10. Planned(q)
    BY <2>2, <2>4, <2>5, <2>6, <2>7, <2>8, <2>9 DEF Planned
  <2> QED BY <2>2, <2>3, <2>10, <1>1, <1>7 DEF W
<1> QED BY <1>6, <1>7 DEF Splices, Spliced

(***************************************************************************)
(* Commands: the ways a step ends                                          *)
(***************************************************************************)
\* The step has taken effect and is known to have, and nothing is held against it.
Succeeds(w) ==
  /\ Passes(work[w], work'[w]) /\ unsure' = unsure /\ work'[w].hurt = work[w].hurt
  /\ Len(work[w].script) > 1 => work'[w].status = work[w].status
  /\ Len(work[w].script) = 1 => work'[w].status = (IF work[w].doomed THEN "failed" ELSE "ok")

\* It has failed, or is not known to have succeeded.
Misses(w) ==
  /\ \/ Fails(work[w], work'[w]) /\ work'[w].status = "failed"
     \/ Undoes(work[w], work'[w]) /\ work'[w].status = work[w].status
     \/ /\ ~Head(work[w].script).must /\ Passes(work[w], work'[w])
        /\ Len(work[w].script) > 1 => work'[w].status = work[w].status
  /\ work[w].touched => On(w) \in unsure'

LEMMA RecordFacts ==
  ASSUME TypeOK, NEW w \in Workers
  PROVE  /\ work[w] \in Work /\ work \in [Workers -> Work] /\ work[w].script \in Seq(Steps)
         /\ Busy(w) => /\ On(w) \in Names /\ work[w].cfg \in Configs /\ work[w].status = "busy"
                       /\ Len(work[w].script) >= 1 /\ work[w].script # <<>> /\ Len(work[w].script) \in Nat
BY DEF TypeOK, Work, Busy

LEMMA BecomeMoves ==
  ASSUME TypeOK, NEW w \in Workers, NEW q \in Work, Become(w, q)
  PROVE  /\ work'[w] = q /\ work' \in [Workers -> Work]
         /\ \A o \in Workers : o # w => work'[o] = work[o] /\ Stays(work[o], work'[o])
BY DEF TypeOK, Become, Stays, Like

LEMMA AdvanceMoves ==
  ASSUME TypeOK, NEW w \in Workers, Busy(w), Advance(w), Head(work[w].script).do \notin {"create", "rebuild"}
  PROVE  Moves(w) /\ Succeeds(w) /\ faults' = faults
<1> DEFINE r == work[w]
           q == Stepped(r)
<1>1. r \in Work /\ r.script # <<>> /\ Len(r.script) >= 1 /\ Len(r.script) \in Nat
  BY RecordFacts
<1>2. /\ q \in Work /\ q.script = Tail(r.script) /\ q.hurt = r.hurt /\ q.torn = r.torn
      /\ Len(r.script) > 1 => q.touched = r.touched /\ q.mine = r.mine /\ q.cfg = r.cfg /\ q.lied = r.lied
                              /\ q.script # <<>> /\ Like(r, q)
      /\ Len(r.script) = 1 => q.script = <<>> /\ q.status = (IF r.doomed THEN "failed" ELSE "ok")
  BY <1>1, SteppedRecord
<1> HIDE DEF q
<1>3. Become(w, q) /\ UNCHANGED <<raced, unsure, begun, faults>>
  BY DEF Advance, past, q
<1>4. work'[w] = q /\ work' \in [Workers -> Work] /\ \A o \in Workers : o # w => Stays(work[o], work'[o])
  BY <1>2, <1>3, BecomeMoves
<1>5. r.touched \in BOOLEAN
  BY <1>1 DEF Work
<1>6. Passes(r, q)
  BY <1>1, <1>2, <1>5 DEF Passes
<1>7. Len(r.script) > 1 => q.status = r.status
  BY <1>2 DEF Like
<1> QED BY <1>2, <1>3, <1>4, <1>6, <1>7 DEF Moves, Succeeds

\* Of the step that changes the container.
LEMMA ChangedMoves ==
  ASSUME TypeOK, NEW w \in Workers, Busy(w), Changed(w), Head(work[w].script).do \in {"create", "rebuild"}
  PROVE  Moves(w) /\ Succeeds(w) /\ faults' = faults
<1> DEFINE r == work[w]
           p == [r EXCEPT !.touched = TRUE]
           q == Stepped(p)
<1>1. r \in Work /\ r.script # <<>> /\ Len(r.script) >= 1 /\ Len(r.script) \in Nat
  BY RecordFacts
<1>2. p \in Work /\ p.script = r.script /\ p.hurt = r.hurt /\ p.touched = TRUE /\ p.mine = r.mine /\ p.cfg = r.cfg
      /\ p.lied = r.lied /\ p.doomed = r.doomed /\ Like(r, p)
  BY <1>1 DEF Work, Like
<1> HIDE DEF p
<1>3. /\ q \in Work /\ q.script = Tail(r.script) /\ q.hurt = r.hurt
      /\ Len(r.script) > 1 => q.touched = TRUE /\ q.mine = r.mine /\ q.cfg = r.cfg /\ q.lied = r.lied
                              /\ q.script # <<>> /\ Like(p, q)
      /\ Len(r.script) = 1 => q.script = <<>> /\ q.status = (IF r.doomed THEN "failed" ELSE "ok")
  BY <1>1, <1>2, SteppedRecord
<1> HIDE DEF q
<1>4. Become(w, q) /\ UNCHANGED <<raced, unsure, begun, faults>>
  BY DEF Changed, past, q, p
<1>5. work'[w] = q /\ work' \in [Workers -> Work] /\ \A o \in Workers : o # w => Stays(work[o], work'[o])
  BY <1>3, <1>4, BecomeMoves
<1>6. Len(r.script) > 1 => Like(r, q)
  BY <1>2, <1>3 DEF Like
<1>7. Passes(r, q)
  <2>1. (r.touched \/ Head(r.script).do \in {"create", "rebuild"}) = TRUE
    OBVIOUS
  <2>2. Tail(r.script) # <<>> => Len(r.script) > 1
    BY <1>1, <1>3
  <2> HIDE DEF r
  <2> QED BY <1>3, <1>6, <2>1, <2>2 DEF Passes
<1>8. Len(r.script) > 1 => q.status = r.status
  BY <1>6 DEF Like
<1> QED BY <1>3, <1>4, <1>5, <1>7, <1>8 DEF Moves, Succeeds

LEMMA FailedMoves ==
  ASSUME TypeOK, NEW w \in Workers, Busy(w), Planned(work[w]),
         NEW p \in Work, p.script = work[w].script, Like(work[w], p),
         p.touched = work[w].touched, p.mine = work[w].mine, p.cfg = work[w].cfg, work[w].hurt => p.hurt,
         Become(w, Failed(p)), UNCHANGED <<raced, begun>>,
         unsure \subseteq unsure', unsure' \subseteq unsure \cup {On(w)}, work[w].touched => On(w) \in unsure'
  PROVE  Moves(w) /\ Misses(w) /\ work'[w].hurt = p.hurt /\ work'[w].torn = p.torn
<1> DEFINE r == work[w]
           q == Failed(p)
<1>1. r \in Work /\ r.script # <<>> /\ r.status = "busy" /\ Len(r.script) >= 1 /\ Len(r.script) \in Nat
  BY RecordFacts
<1>2. /\ q \in Work /\ q.hurt = p.hurt /\ q.torn = p.torn
      /\ \/ ~Head(r.script).must /\ q = Stepped(p)
         \/ Head(r.script).must /\ q.script = <<>> /\ q.status = "failed"
         \/ Undoes(p, q) /\ q.lied = p.lied
  BY <1>1, FailedRecord
<1>3. /\ Stepped(p).script = Tail(r.script)
      /\ Len(r.script) > 1 => /\ Stepped(p).touched = r.touched /\ Stepped(p).mine = r.mine /\ Stepped(p).cfg = r.cfg
                              /\ Like(p, Stepped(p))
      /\ Len(r.script) = 1 => Stepped(p).script = <<>>
  BY <1>1, SteppedRecord
<1> HIDE DEF q
<1>4. work'[w] = q /\ work' \in [Workers -> Work] /\ \A o \in Workers : o # w => Stays(work[o], work'[o])
  BY <1>2, BecomeMoves DEF q
<1>5. Head(r.script).do \in {"create", "rebuild"} => Head(r.script).must
  BY <1>1, Ahead1 DEF Creation
<1>6. CASE ~Head(r.script).must /\ q = Stepped(p)
  <2>1. Len(r.script) > 1 => Like(r, q)
    BY <1>3, <1>6 DEF Like
  <2>2. r.touched \in BOOLEAN
    BY <1>1 DEF Work
  <2>3. Passes(r, q)
    <3>1. q.script # <<>> => Len(r.script) > 1
      <4>1. Len(r.script) = 1 => q.script = <<>>
        BY <1>3, <1>6
      <4>2. Len(r.script) # 1 => Len(r.script) > 1
        <5> DEFINE n == Len(r.script)
        <5>1. n \in Nat /\ n >= 1
          BY <1>1
        <5> HIDE DEF n
        <5>2. n # 1 => n > 1
          BY <5>1
        <5> QED BY <5>2 DEF n
      <4> QED BY <4>1, <4>2
    <3>2. (r.touched \/ Head(r.script).do \in {"create", "rebuild"}) = r.touched
      BY <1>5, <1>6, <2>2
    <3> HIDE DEF r
    <3> QED BY <1>3, <1>6, <2>1, <3>1, <3>2 DEF Passes
  <2>4. Len(r.script) > 1 => q.status = r.status
    BY <2>1 DEF Like
  <2> QED BY <1>2, <1>4, <1>6, <2>3, <2>4 DEF Moves, Misses
<1>7. CASE Head(r.script).must /\ q.script = <<>> /\ q.status = "failed"
  <2>1. Fails(r, q)
    BY <1>7 DEF Fails, On
  <2> QED BY <1>2, <1>4, <1>7, <2>1 DEF Moves, Misses
<1>8. CASE Undoes(p, q)
  <2>1. Undoes(r, q) /\ q.status = r.status
    BY <1>8 DEF Undoes, Like
  <2> QED BY <1>2, <1>4, <2>1 DEF Moves, Misses
<1> QED BY <1>2, <1>6, <1>7, <1>8

LEMMA RefuseMoves ==
  ASSUME TypeOK, NEW w \in Workers, Busy(w), Planned(work[w]), Refuse(w)
  PROVE  Moves(w) /\ Misses(w) /\ work'[w].hurt = work[w].hurt
<1>1. work[w] \in Work
  BY RecordFacts
<1>2. Like(work[w], work[w])
  BY DEF Like
<1>3. /\ Become(w, Failed(work[w])) /\ UNCHANGED <<raced, begun>>
      /\ unsure \subseteq unsure' /\ unsure' \subseteq unsure \cup {On(w)} /\ (work[w].touched => On(w) \in unsure')
  BY DEF Refuse, Blame
<1> QED BY <1>1, <1>2, <1>3, FailedMoves

LEMMA BreakMoves ==
  ASSUME TypeOK, NEW w \in Workers, Busy(w), Planned(work[w]), Break(w) \/ Unheard(w)
  PROVE  /\ Moves(w) /\ Misses(w) /\ work'[w].hurt /\ (work[w].doomed => work'[w].torn)
         /\ Unheard(w) => On(w) \in unsure'
<1>1. /\ Hurt(w) \in Work /\ Hurt(w).script = work[w].script /\ Like(work[w], Hurt(w)) /\ Hurt(w).hurt
      /\ Hurt(w).touched = work[w].touched /\ Hurt(w).mine = work[w].mine /\ Hurt(w).cfg = work[w].cfg
      /\ Hurt(w).torn = (work[w].torn \/ work[w].doomed)
  BY HurtRecord
<1>2. /\ Become(w, Failed(Hurt(w))) /\ UNCHANGED <<raced, begun>>
      /\ unsure \subseteq unsure' /\ unsure' \subseteq unsure \cup {On(w)} /\ (work[w].touched => On(w) \in unsure')
      /\ Unheard(w) => On(w) \in unsure'
  BY DEF Break, Unheard, Blame
<1> QED BY <1>1, <1>2, FailedMoves

\* A step that has succeeded, of a record that has changed before it is passed.
Before(r, p) ==
  /\ p \in Work /\ p.script = r.script /\ Like(r, p) /\ (r.hurt => p.hurt)
  /\ p.touched = (r.touched \/ Head(r.script).do \in {"create", "rebuild"})
  /\ Head(r.script).do # "read" => p.cfg = r.cfg
  /\ Head(r.script).do # "prescan" => p.mine = r.mine
After(r, p, q) ==
  /\ q.script = Tail(r.script) /\ q.hurt = p.hurt /\ q.torn = p.torn
  /\ Len(r.script) > 1 => /\ q.mine = p.mine /\ q.cfg = p.cfg /\ q.lied = p.lied /\ q.script # <<>>
                          /\ q.status = r.status
  /\ Len(r.script) = 1 => q.script = <<>> /\ q.status = (IF r.doomed THEN "failed" ELSE "ok")

LEMMA PassRecord ==
  ASSUME NEW r \in Work, r.script # <<>>, NEW p, Before(r, p), NEW vs \in SUBSET Volumes
  PROVE  LET q == [Stepped(p) EXCEPT !.seen = @ \ vs] IN
         /\ Stepped(p) \in Work /\ Passes(r, Stepped(p)) /\ After(r, p, Stepped(p))
         /\ q \in Work /\ Passes(r, q) /\ After(r, p, q) /\ q.seen = Stepped(p).seen \ vs
<1> DEFINE s == Stepped(p)
           q == [s EXCEPT !.seen = @ \ vs]
           n == Len(r.script)
<1>1. p \in Work /\ p.script = r.script /\ Like(r, p)
  BY DEF Before
<1>2. n \in Nat /\ n >= 1
  <2>1. r.script \in Seq(Steps)
    BY DEF Work
  <2> QED BY <2>1, Emptiness
<1>3. /\ s \in Work /\ s.script = Tail(r.script) /\ s.hurt = p.hurt /\ s.torn = p.torn
      /\ n > 1 => s.touched = p.touched /\ s.mine = p.mine /\ s.cfg = p.cfg /\ s.lied = p.lied
                  /\ s.script # <<>> /\ Like(p, s)
      /\ n = 1 => s.script = <<>> /\ s.status = (IF r.doomed THEN "failed" ELSE "ok")
  <2>1. r.doomed = p.doomed
    BY <1>1 DEF Like
  <2> QED BY <1>1, <2>1, SteppedRecord
<1> HIDE DEF s
<1>4. q \in Work /\ q.seen = s.seen \ vs /\ q.script = s.script /\ q.hurt = s.hurt /\ q.torn = s.torn
      /\ q.touched = s.touched /\ q.mine = s.mine /\ q.cfg = s.cfg /\ q.lied = s.lied /\ q.status = s.status
  BY <1>3 DEF Work
<1>5. Like(s, q)
  BY <1>3 DEF Like, Work
<1> HIDE DEF q, n
<1>6. n > 1 => Like(r, s) /\ Like(r, q)
  BY <1>1, <1>3, <1>5 DEF Like
<1>7. n # 1 => n > 1
  BY <1>2
<1>8. Passes(r, s)
  BY <1>3, <1>6, <1>7 DEF Passes, Before
<1>9. Passes(r, q)
  BY <1>3, <1>4, <1>6, <1>7 DEF Passes, Before
<1>10. n > 1 => s.status = r.status
  BY <1>6 DEF Like
<1>11. After(r, p, s)
  BY <1>3, <1>10 DEF After, n
<1>12. After(r, p, q)
  BY <1>3, <1>4, <1>10 DEF After, n
<1> QED BY <1>3, <1>4, <1>8, <1>9, <1>11, <1>12 DEF s, q

LEMMA PassMoves ==
  ASSUME TypeOK, NEW w \in Workers, Busy(w), NEW p, Before(work[w], p), Become(w, Stepped(p)),
         UNCHANGED <<raced, begun>>, unsure \subseteq unsure', unsure' \subseteq unsure \cup {On(w)}
  PROVE  Moves(w) /\ Passes(work[w], work'[w]) /\ After(work[w], p, work'[w])
<1>1. work[w] \in Work /\ work[w].script # <<>>
  BY RecordFacts
<1> DEFINE q == Stepped(p)
<1>2. q \in Work /\ Passes(work[w], q) /\ After(work[w], p, q)
  BY <1>1, PassRecord
<1> HIDE DEF q
<1>3. work'[w] = q /\ work' \in [Workers -> Work] /\ \A o \in Workers : o # w => Stays(work[o], work'[o])
  BY <1>2, BecomeMoves DEF q
<1>4. work[w].hurt => q.hurt
  BY <1>2 DEF Before, After
<1> QED BY <1>2, <1>3, <1>4 DEF Moves

LEMMA SeenLess ==
  ASSUME NEW r \in Work, NEW vs, NEW q, q = [r EXCEPT !.seen = @ \ vs]
  PROVE  q \in Work /\ q.seen = r.seen \ vs
BY DEF Work

LEMMA VanishMoves ==
  ASSUME TypeOK, NEW w \in Workers, Busy(w), NEW p, Before(work[w], p),
         NEW vs \in SUBSET Volumes, Vanish(w, vs, Stepped(p)),
         UNCHANGED <<raced, begun>>, unsure \subseteq unsure', unsure' \subseteq unsure \cup {On(w)}
  PROVE  /\ Moves(w) /\ Passes(work[w], work'[w]) /\ After(work[w], p, work'[w])
         /\ \A u \in Workers : work'[u].seen \cap vs = {}
<1> DEFINE q == [Stepped(p) EXCEPT !.seen = @ \ vs]
<1>0. work[w] \in Work /\ work[w].script # <<>> /\ \A o \in Workers : work[o] \in Work
  BY RecordFacts
<1>1. q \in Work /\ Passes(work[w], q) /\ After(work[w], p, q) /\ q.seen = Stepped(p).seen \ vs
  BY <1>0, PassRecord
<1>2. work'[w] = q /\ DOMAIN work' = Workers
  BY DEF Vanish
<1>3. ASSUME NEW o \in Workers, o # w
      PROVE  work'[o] \in Work /\ Stays(work[o], work'[o]) /\ work'[o].seen = work[o].seen \ vs
  <2>1. work'[o] = [work[o] EXCEPT !.seen = @ \ vs]
    BY <1>3 DEF Vanish
  <2>2. work'[o] \in Work /\ work'[o].seen = work[o].seen \ vs
    <3>1. work[o] \in Work
      BY <1>0
    <3> QED BY <2>1, <3>1, SeenLess
  <2>3. Stays(work[o], work'[o])
    BY <1>0, <2>1 DEF Stays, Like, Work
  <2> QED BY <2>2, <2>3
<1> HIDE DEF q
<1>4. work' \in [Workers -> Work]
  <2>1. \A o \in Workers : work'[o] \in Work
    BY <1>1, <1>2, <1>3
  <2>2. work' = [u \in Workers |-> work'[u]]
    BY DEF Vanish
  <2> QED BY <2>1, <2>2
<1>5. work[w].hurt => q.hurt
  BY <1>1 DEF Before, After
<1>6. \A u \in Workers : work'[u].seen \cap vs = {}
  BY <1>1, <1>2, <1>3
<1> QED BY <1>1, <1>2, <1>3, <1>4, <1>5, <1>6 DEF Moves

\* What comes before a step, where nothing has changed but that something has failed.
LEMMA SameBefore ==
  ASSUME TypeOK, NEW w \in Workers, Busy(w), Head(work[w].script).do \notin {"create", "rebuild"}
  PROVE  Before(work[w], work[w]) /\ Before(work[w], Hurt(w))
<1>1. work[w] \in Work /\ work[w].touched \in BOOLEAN
  BY RecordFacts DEF Work
<1>2. /\ Hurt(w) \in Work /\ Hurt(w).script = work[w].script /\ Like(work[w], Hurt(w)) /\ Hurt(w).hurt = TRUE
      /\ Hurt(w).touched = work[w].touched /\ Hurt(w).mine = work[w].mine /\ Hurt(w).cfg = work[w].cfg
  BY HurtRecord
<1>3. Like(work[w], work[w])
  BY DEF Like
<1>4. (work[w].touched \/ Head(work[w].script).do \in {"create", "rebuild"}) = work[w].touched
  BY <1>1
<1> QED BY <1>1, <1>2, <1>3, <1>4 DEF Before

LEMMA DoneMoves ==
  ASSUME TypeOK, NEW w \in Workers, Busy(w), NEW q \in Work, q.script = <<>>, Become(w, q),
         UNCHANGED <<raced, begun>>, unsure \subseteq unsure', unsure' \subseteq unsure \cup {On(w)},
         work[w].touched /\ "register" \in Ahead(w) => On(w) \in unsure'
  PROVE  Moves(w) /\ work'[w] = q
<1>1. work'[w] = q /\ work' \in [Workers -> Work] /\ \A o \in Workers : o # w => Stays(work[o], work'[o])
  BY BecomeMoves
<1>2. Fails(work[w], q)
  BY DEF Fails, On, Ahead
<1> QED BY <1>1, <1>2 DEF Moves

LEMMA SpliceMoves ==
  ASSUME TypeOK, NEW w \in Workers, Busy(w), NEW s \in Seq(Steps),
         Spliced(work[w], s),
         Become(w, [work[w] EXCEPT !.script = s]), UNCHANGED <<raced, begun, unsure>>
  PROVE  Moves(w) /\ Splices(work[w], work'[w]) /\ work'[w].status = work[w].status
<1> DEFINE r == work[w]
           q == [r EXCEPT !.script = s]
<1>1. r \in Work
  BY RecordFacts
<1>2. q \in Work /\ q.script = s /\ q.touched = r.touched /\ q.mine = r.mine /\ q.cfg = r.cfg /\ q.hurt = r.hurt
      /\ q.status = r.status
  BY <1>1 DEF Work
<1>3. Like(r, q)
  BY <1>1 DEF Work, Like
<1> HIDE DEF q
<1>4. work'[w] = q /\ work' \in [Workers -> Work] /\ \A o \in Workers : o # w => Stays(work[o], work'[o])
  BY <1>2, BecomeMoves DEF q
<1>5. Splices(r, q)
  BY <1>2, <1>3 DEF Splices, Spliced
<1> QED BY <1>2, <1>4, <1>5 DEF Moves

(***************************************************************************)
(* What a step of a worker leaves true                                     *)
(***************************************************************************)
\* A command that goes on is the one it was.
LEMMA Still ==
  ASSUME TypeOK, NEW w \in Workers, Moves(w), NEW u \in Workers, Busy(u)'
  PROVE  /\ Busy(u) /\ On(u)' = On(u) /\ work'[u].removal = work[u].removal
         /\ work'[u].overlaps = work[u].overlaps /\ work'[u].had = work[u].had
         /\ work'[u].status = work[u].status
         /\ work'[u].seen \subseteq work[u].seen /\ (work[u].lied => work'[u].lied)
<1>1. work'[u].script # <<>>
  BY DEF Busy
<1>2. CASE u # w
  BY <1>1, <1>2 DEF Moves, Stays, Like, Busy, On
<1>3. CASE u = w
  <2>1. ~Fails(work[w], work'[w])
    BY <1>1, <1>3 DEF Fails
  <2>2. Busy(w)
    BY DEF Moves
  <2>3. CASE Passes(work[w], work'[w])
    BY <1>1, <1>3, <2>2, <2>3 DEF Passes, Like, On
  <2>4. CASE Undoes(work[w], work'[w])
    BY <1>3, <2>2, <2>4 DEF Undoes, On
  <2>5. CASE Splices(work[w], work'[w])
    BY <1>3, <2>2, <2>5 DEF Splices, Spliced, Like, On
  <2> QED BY <2>1, <2>3, <2>4, <2>5 DEF Moves
<1> QED BY <1>2, <1>3

\* Of another worker, and of one that has not moved.
LEMMA Others ==
  ASSUME NEW w \in Workers, Moves(w), NEW u \in Workers, u # w
  PROVE  Ahead(u)' = Ahead(u) /\ Stays(work[u], work'[u]) /\ (Busy(u)' <=> Busy(u)) /\ On(u)' = On(u)
BY DEF Moves, Stays, Like, Ahead, Busy, On

LEMMA StaysPlanned ==
  ASSUME NEW r, NEW q, Planned(r), Stays(r, q)
  PROVE  Planned(q)
<1>1. q.script = r.script /\ q.touched = r.touched /\ q.doomed = r.doomed /\ q.removal = r.removal
  BY DEF Stays, Like
<1> QED BY <1>1 DEF Planned

LEMMA MovesKeep ==
  ASSUME IInv, NEW w \in Workers, Moves(w), Busy(w)' => work'[w].cfg \in Configs
  PROVE  /\ Raced'
         /\ \A u \in Workers : Busy(u)' => /\ Planned(work'[u]) /\ On(u)' \in Names
                                           /\ work'[u].cfg \in Configs /\ work'[u].status = "busy"
<1>1. TypeOK /\ Raced
  BY DEF IInv
<1>2. \A u \in Workers : Busy(u)' => Busy(u) /\ On(u)' = On(u) /\ work'[u].status = work[u].status
  BY <1>1, Still
<1>3. raced' = raced
  BY DEF Moves
<1>4. Raced'
  BY <1>1, <1>2, <1>3 DEF Raced
<1>5. ASSUME NEW u \in Workers, Busy(u)'
      PROVE  Planned(work'[u]) /\ On(u)' \in Names /\ work'[u].cfg \in Configs /\ work'[u].status = "busy"
  <2>1. Busy(u) /\ On(u)' = On(u) /\ work'[u].status = work[u].status
    BY <1>2, <1>5
  <2>2. On(u) \in Names /\ work[u].cfg \in Configs /\ work[u].status = "busy" /\ work[u] \in Work
        /\ work[u].script # <<>> /\ Planned(work[u])
    BY <1>1, <2>1, RecordFacts DEF IInv
  <2>3. CASE u # w
    <3>1. Stays(work[u], work'[u])
      BY <2>3 DEF Moves
    <3> QED BY <2>1, <2>2, <3>1, StaysPlanned DEF Stays
  <2>4. CASE u = w
    <3>1. work'[w] \in Work /\ work'[w].script # <<>>
      BY <1>5, <2>4 DEF Moves, Busy
    <3>2. ~Fails(work[w], work'[w])
      BY <3>1 DEF Fails
    <3>3. Planned(work'[w])
      <4>1. CASE Passes(work[w], work'[w])
        BY <4>1, <3>1, <2>2, <2>4, PassPlanned
      <4>2. CASE Undoes(work[w], work'[w])
        BY <4>2, <3>1, <2>2, <2>4, UndoPlanned
      <4>3. CASE Splices(work[w], work'[w])
        BY <4>3, <3>1, <2>2, <2>4, SplicePlanned
      <4> QED BY <4>1, <4>2, <4>3, <3>2 DEF Moves
    <3> QED BY <2>1, <2>2, <2>4, <3>3, <1>5
  <2> QED BY <2>3, <2>4
<1> QED BY <1>4, <1>5

\* What is ahead of the worker that moves.
LEMMA MovedAhead ==
  ASSUME IInv, NEW w \in Workers, Moves(w), Busy(w)'
  PROVE  LET h == Head(work[w].script).do IN
         \/ /\ Passes(work[w], work'[w])
            /\ Ahead(w) = {h} \cup Ahead(w)' /\ (\A b \in Ahead(w)' : ~Barred(h, b))
            /\ work'[w].doomed = work[w].doomed
            /\ work'[w].touched = (work[w].touched \/ h \in {"create", "rebuild"})
            /\ h # "read" => work'[w].cfg = work[w].cfg
            /\ h # "prescan" => work'[w].mine = work[w].mine
         \/ /\ Undoes(work[w], work'[w])
            /\ Ahead(w)' = Clearing /\ h \in Creation /\ Head(work[w].script).must /\ "create" \in Ahead(w)
            /\ ~work[w].touched /\ ~work'[w].touched /\ ~work[w].removal /\ work'[w].doomed
            /\ work'[w].cfg = work[w].cfg /\ work'[w].mine = work[w].mine
         \/ /\ Splices(work[w], work'[w]) /\ h \in {"probe", "ensure"}
            /\ \A k \in {"create", "rebuild", "register", "read", "remove", "unregister", "desktops", "sockets", "undir"} :
                 k \in Ahead(w)' <=> k \in Ahead(w)
            /\ work'[w].doomed = work[w].doomed /\ work'[w].touched = work[w].touched
            /\ work'[w].cfg = work[w].cfg /\ work'[w].mine = work[w].mine
<1>1. work'[w] \in Work /\ work'[w].script # <<>> /\ Busy(w)
  BY DEF Moves, Busy
<1>2. work[w] \in Work /\ work[w].script # <<>> /\ Planned(work[w])
  BY <1>1, RecordFacts DEF IInv
<1>3. ~Fails(work[w], work'[w])
  BY <1>1 DEF Fails
<1>4. CASE Passes(work[w], work'[w])
  <2>1. /\ Words(work[w].script) = {Head(work[w].script).do} \cup Words(Tail(work[w].script))
        /\ \A b \in Words(Tail(work[w].script)) : ~Barred(Head(work[w].script).do, b)
    BY <1>2, Ahead1
  <2>2. Ahead(w)' = Words(Tail(work[w].script)) /\ Ahead(w) = Words(work[w].script)
    BY <1>4 DEF Passes, Ahead
  <2> QED BY <1>1, <1>4, <2>1, <2>2 DEF Passes, Like
<1>5. CASE Undoes(work[w], work'[w])
  <2>1. ~work[w].touched /\ ~work[w].removal /\ "create" \in Words(work[w].script)
    BY <1>1, <1>2, <1>5, UndoPlanned
  <2>2. Ahead(w)' = Clearing
    BY <1>5, UndoingScript DEF Undoes, Ahead, Script, Clearing
  <2> QED BY <1>5, <2>1, <2>2 DEF Undoes, Ahead
<1>6. CASE Splices(work[w], work'[w])
  <2>1. \A k \in {"create", "rebuild", "register", "read", "remove", "unregister", "desktops", "sockets", "undir"} :
          (k \in Words(work'[w].script)) = (k \in Words(work[w].script))
    BY <1>1, <1>2, <1>6, SplicePlanned
  <2> QED BY <1>6, <2>1 DEF Splices, Spliced, Like, Ahead
<1> QED BY <1>3, <1>4, <1>5, <1>6 DEF Moves

\* What the plan of a busy worker says of the step it is at.
LEMMA HeadFacts ==
  ASSUME IInv, NEW w \in Workers, Busy(w)
  PROVE  LET h == Head(work[w].script).do IN
         /\ work[w] \in Work /\ h \in Ahead(w) /\ On(w) \in Names /\ work[w].cfg \in Configs
         /\ (h \in Creation \cup {"sockdir", "rebuild", "remove", "read"} => Head(work[w].script).must)
         /\ (Ahead(w) \cap Creation # {} => {"create", "register"} \subseteq Ahead(w))
         /\ ("register" \in Ahead(w) /\ ~work[w].touched => {"create", "rebuild"} \cap Ahead(w) # {})
         /\ (work[w].touched => Ahead(w) \cap (Creation \cup {"rebuild", "read"}) = {})
         /\ (work[w].doomed => "unvol" \in Ahead(w) /\ Ahead(w) \subseteq Clearing)
         /\ (~work[w].doomed => Ahead(w) \cap Clearing = {})
         /\ (work[w].removal => Ahead(w) \subseteq Removing)
         /\ (work[w].removal /\ "open" \in Ahead(w) => "unregister" \in Ahead(w))
         /\ (~work[w].removal => Ahead(w) \cap {"remove", "unregister", "sockets"} = {})
         /\ work[w].doomed \in BOOLEAN /\ work[w].removal \in BOOLEAN /\ work[w].touched \in BOOLEAN
         /\ work[w].lied \in BOOLEAN /\ work[w].had \in BOOLEAN /\ work[w].hurt \in BOOLEAN /\ work[w].torn \in BOOLEAN
<1>1. work[w] \in Work /\ work[w].script # <<>> /\ On(w) \in Names /\ work[w].cfg \in Configs /\ Planned(work[w])
  BY RecordFacts DEF IInv
<1>2. work[w].doomed \in BOOLEAN /\ work[w].removal \in BOOLEAN /\ work[w].touched \in BOOLEAN
      /\ work[w].lied \in BOOLEAN /\ work[w].had \in BOOLEAN /\ work[w].hurt \in BOOLEAN /\ work[w].torn \in BOOLEAN
  BY <1>1 DEF Work
<1> DEFINE r == work[w]  h == Head(r.script).do  W == Words(r.script)  T == Words(Tail(r.script))
<1>3. r \in Work /\ r.script # <<>> /\ Planned(r)
  BY <1>1
<1> HIDE DEF r
<1>4. /\ W = {h} \cup T
      /\ h \in Creation \cup {"sockdir", "rebuild", "remove", "read"} => Head(r.script).must
      /\ W \cap Creation # {} => {"create", "register"} \subseteq W
      /\ "register" \in W /\ ~r.touched => {"create", "rebuild"} \cap W # {}
      /\ r.touched => W \cap (Creation \cup {"rebuild", "read"}) = {}
  BY <1>3, Ahead1
<1>5. /\ r.doomed => "unvol" \in W /\ W \subseteq Clearing
      /\ ~r.doomed => W \cap Clearing = {}
      /\ r.removal => W \subseteq Removing /\ ("open" \in W => "unregister" \in W)
      /\ ~r.removal => W \cap {"remove", "unregister", "sockets"} = {}
  BY <1>3, Ahead1
<1>6. h \in W
  BY <1>4
<1>7. Ahead(w) = W
  BY DEF Ahead, r
<1> HIDE DEF h, W, T
<1> QED BY <1>1, <1>2, <1>4, <1>5, <1>6, <1>7 DEF h, r

\* The types, but for the commands.
WorldTyped ==
  /\ box \in [Names -> [st : {"none", "created", "running", "stopped"}, cfg : Configs \cup {None}]]
  /\ \A n \in Names : Exists(n) => box[n].cfg \in Configs
  /\ reg \in [Names -> Configs \cup {None}]
  /\ sock \in [Names -> {"none", "empty", "used"}]
  /\ vol \in [Volumes -> [there : BOOLEAN, ours : BOOLEAN, data : BOOLEAN]]
  /\ spare \cup home \cup xdg \cup entry \cup icons \subseteq Names
  /\ engine \in [file : {"none", "dead", "live"}, coming : Nat]
  /\ fresh \subseteq Workers /\ faults \in Nat

LEMMA Worlds == TypeOK => WorldTyped
BY DEF TypeOK, WorldTyped

LEMMA TypeKept ==
  ASSUME IInv, NEW w \in Workers, Moves(w), Busy(w)' => work'[w].cfg \in Configs, WorldTyped'
  PROVE  TypeOK'
<1>1. \A u \in Workers : Busy(u)' => On(u)' \in Names /\ work'[u].cfg \in Configs /\ work'[u].status = "busy"
  BY MovesKeep
<1>2. raced' \cup unsure' \subseteq Names \cup {None} /\ begun' \in Nat
  <2>1. On(w) \in Names
    BY HeadFacts DEF Moves
  <2> QED BY <2>1 DEF Moves, IInv, TypeOK
<1>3. work' \in [Workers -> Work]
  BY DEF Moves
<1> QED BY <1>1, <1>2, <1>3 DEF WorldTyped, TypeOK

\* Somebody has changed the container of that name and has yet to register it.
Pending(n) == \E u \in Workers : Busy(u) /\ On(u) = n /\ work[u].touched /\ "register" \in Ahead(u)

LEMMA HonestKept ==
  ASSUME IInv, NEW w \in Workers, Moves(w),
         Head(work[w].script).do = "register" => \A n \in Names : n = On(w) => n \in raced' \cup unsure' \/ Truth(n)',
         \A n \in Names \ (raced' \cup unsure') : Truth(n) => Truth(n)' \/ Pending(n)'
  PROVE  Honest'
<1> SUFFICES ASSUME NEW n \in Names \ (raced' \cup unsure') PROVE Truth(n)' \/ Pending(n)'
  BY DEF Honest, Pending
<1>0. Busy(w) /\ TypeOK
  BY DEF Moves, IInv
<1>1. n \notin raced \cup unsure
  BY DEF Moves
<1>2. CASE Truth(n)
  BY <1>2
<1>3. ASSUME NEW u \in Workers, Busy(u), On(u) = n, work[u].touched, "register" \in Ahead(u), u # w
      PROVE  Pending(n)'
  <2>1. Ahead(u)' = Ahead(u) /\ (Busy(u)' <=> Busy(u)) /\ On(u)' = On(u) /\ work'[u].touched = work[u].touched
    BY <1>3, Others DEF Stays
  <2> QED BY <1>3, <2>1 DEF Pending
<1>4. ASSUME On(w) = n, work[w].touched, "register" \in Ahead(w)
      PROVE  Truth(n)' \/ Pending(n)'
  <2>1. CASE Head(work[w].script).do = "register"
    BY <2>1, <1>4
  <2>2. CASE Head(work[w].script).do # "register" /\ Busy(w)'
    <3>1. On(w)' = n
      BY <1>0, <1>4, <2>2, Still
    <3>2. "register" \in Ahead(w)' /\ work'[w].touched
      BY <1>4, <2>2, MovedAhead
    <3> QED BY <2>2, <3>1, <3>2 DEF Pending
  <2>3. CASE Head(work[w].script).do # "register" /\ ~Busy(w)'
    <3>1. work'[w].script = <<>>
      BY <2>3 DEF Busy
    <3>2. work[w] \in Work /\ work[w].script # <<>> /\ Planned(work[w])
      BY <1>0, RecordFacts DEF IInv
    <3>3. ~Fails(work[w], work'[w])
      BY <1>4 DEF Fails, On, Ahead
    <3>4. ~Passes(work[w], work'[w])
      <4>1. Words(work[w].script) = {Head(work[w].script).do} \cup Words(Tail(work[w].script))
        BY <3>2, Ahead1
      <4> QED BY <4>1, <3>1, <1>4, <2>3, NoWords DEF Passes, Ahead
    <3>5. ~Undoes(work[w], work'[w])
      BY <3>1, UndoingScript, NoWords DEF Undoes, Script
    <3>6. ~Splices(work[w], work'[w])
      <4>1. work'[w] \in Work
        BY DEF Moves
      <4> QED BY <3>1, <3>2, <4>1, SplicePlanned
    <3> QED BY <3>3, <3>4, <3>5, <3>6 DEF Moves
  <2> QED BY <2>1, <2>2, <2>3
<1> QED BY <1>1, <1>2, <1>3, <1>4 DEF IInv, Honest

LEMMA RegistersKept ==
  ASSUME IInv, NEW w \in Workers, Moves(w), Busy(w)' => work'[w].cfg \in Configs,
         \A n \in Names \ {On(w)} : /\ Exists(n)' => Exists(n) /\ box'[n].cfg = box[n].cfg
                                    /\ reg[n] # None => reg'[n] = reg[n],
         \A n \in Names \ (raced' \cup unsure') : LET h == Head(work[w].script).do IN
           n = On(w) /\ Busy(w)' =>
             /\ Exists(n)' /\ work'[w].touched =>
                  IF h \in {"create", "rebuild"} THEN box'[n].cfg = work[w].cfg
                                                 ELSE Exists(n) /\ box'[n].cfg = box[n].cfg
             /\ h \notin {"register", "unregister"} /\ reg[n] # None => reg'[n] = reg[n]
             /\ h = "read" => work'[w].cfg = reg'[n]
  PROVE  \A u \in Workers : Busy(u)' => Registers(u)'
<1> SUFFICES ASSUME NEW u \in Workers, Busy(u)' PROVE Registers(u)'
  OBVIOUS
<1>0. Busy(w) /\ TypeOK /\ raced' = raced /\ unsure \subseteq unsure'
  BY DEF Moves, IInv
<1>1. Busy(u) /\ On(u)' = On(u)
  BY <1>0, Still
<1>2. Registers(u) /\ work[u].cfg \in Configs /\ On(u) \in Names
  BY <1>1, HeadFacts DEF IInv
<1>3. work[u].cfg # None
  BY <1>2, EnvironmentAssumption
<1>4. CASE u # w
  <2>1. Ahead(u)' = Ahead(u) /\ work'[u].touched = work[u].touched /\ work'[u].cfg = work[u].cfg
    BY <1>4, Others DEF Stays
  <2>2. CASE On(u) = On(w)
    <3>1. On(u) \in raced'
      BY <1>0, <1>1, <1>4, <2>2 DEF IInv, Raced
    <3> QED BY <3>1, <1>1 DEF Registers
  <2>3. CASE On(u) # On(w)
    BY <2>1, <2>3, <1>0, <1>1, <1>2, <1>3 DEF Registers
  <2> QED BY <2>2, <2>3
<1>5. CASE u = w
  <2> DEFINE h == Head(work[w].script).do
  <2> SUFFICES ASSUME NEW n \in Names, n = On(w), n = On(w)', n \notin raced' \cup unsure'
               PROVE  /\ work'[w].touched /\ Exists(n)' => box'[n].cfg = work'[w].cfg
                      /\ "rebuild" \in Ahead(w)' => \/ {"register", "read"} \cap Ahead(w)' # {}
                                                    \/ reg'[n] = work'[w].cfg
    BY <1>1, <1>2, <1>5 DEF Registers, Exists
  <2>1. /\ Exists(n)' /\ work'[w].touched =>
             IF h \in {"create", "rebuild"} THEN box'[n].cfg = work[w].cfg
                                            ELSE Exists(n) /\ box'[n].cfg = box[n].cfg
        /\ h \notin {"register", "unregister"} /\ reg[n] # None => reg'[n] = reg[n]
        /\ h = "read" => work'[w].cfg = reg'[n]
    BY <1>5
  <2>2. /\ work[w].touched /\ Exists(n) => box[n].cfg = work[w].cfg
        /\ "rebuild" \in Ahead(w) => {"register", "read"} \cap Ahead(w) # {} \/ reg[n] = work[w].cfg
    BY <1>0, <1>2, <1>5 DEF Registers
  <2>3. /\ h \in Ahead(w) /\ (work[w].touched => Ahead(w) \cap {"rebuild", "read"} = {})
        /\ (work[w].removal => Ahead(w) \subseteq Removing)
        /\ (~work[w].removal => "unregister" \notin Ahead(w))
    BY <1>0, HeadFacts
  <2> HIDE DEF h
  <2>4. CASE Passes(work[w], work'[w]) /\ Ahead(w) = {h} \cup Ahead(w)' /\ (\A b \in Ahead(w)' : ~Barred(h, b))
             /\ work'[w].touched = (work[w].touched \/ h \in {"create", "rebuild"})
             /\ (h # "read" => work'[w].cfg = work[w].cfg)
    <3>1. work'[w].touched /\ Exists(n)' => box'[n].cfg = work'[w].cfg
      BY <2>1, <2>2, <2>3, <2>4
    <3>2. ASSUME "rebuild" \in Ahead(w)'
          PROVE  {"register", "read"} \cap Ahead(w)' # {} \/ reg'[n] = work'[w].cfg
      <4>1. h # "register"
        BY <2>4, <3>2 DEF Barred
      <4>2. h # "unregister"
        BY <2>3, <2>4, <3>2 DEF Removing
      <4>3. CASE h = "read"
        BY <4>3, <2>1
      <4>4. CASE h # "read"
        BY <4>1, <4>2, <4>4, <2>1, <2>2, <2>4, <3>2, <1>3, <1>5
      <4> QED BY <4>3, <4>4
    <3> QED BY <3>1, <3>2
  <2>5. CASE Ahead(w)' = Clearing /\ ~work'[w].touched
    BY <2>5 DEF Clearing
  <2>6. CASE /\ h \in {"probe", "ensure"}
             /\ \A k \in {"rebuild", "register", "read"} : k \in Ahead(w)' <=> k \in Ahead(w)
             /\ work'[w].touched = work[w].touched /\ work'[w].cfg = work[w].cfg
    BY <2>6, <2>1, <2>2, <1>3, <1>5
  <2>7. Busy(w)'
    BY <1>5
  <2> QED BY <2>4, <2>5, <2>6, <2>7, MovedAhead DEF h
<1> QED BY <1>4, <1>5

LEMMA MakesKept ==
  ASSUME IInv, NEW w \in Workers, Moves(w),
         \A u \in Workers : \A v \in work'[u].seen : v \in Volumes /\ (vol[v].there => vol'[v].there),
         Head(work[w].script).do = "prescan" /\ Busy(w)' => work'[w].lied \/ work'[w].mine \cap work'[w].seen = {},
         \A n \in Names \ {On(w)} : sock'[n] \in {sock[n], "none"},
         \A n \in Names \ raced : LET h == Head(work[w].script).do IN
           n = On(w) /\ Busy(w)' =>
             /\ \/ h \in {"start", "restart", "rebuild"} \/ sock'[n] \in {sock[n], "none"}
                \/ sock'[n] = "empty" /\ h \notin Clearing
             /\ h = "undir" /\ sock[n] # "used" => sock'[n] = "none"
  PROVE  \A u \in Workers : Busy(u)' => Makes(u)'
<1> SUFFICES ASSUME NEW u \in Workers, Busy(u)' PROVE Makes(u)'
  OBVIOUS
<1>0. Busy(w) /\ TypeOK /\ raced' = raced
  BY DEF Moves, IInv
<1>1. Busy(u) /\ On(u)' = On(u) /\ work'[u].had = work[u].had /\ work'[u].seen \subseteq work[u].seen
      /\ (work[u].lied => work'[u].lied)
  BY <1>0, Still
<1>2. /\ \A v \in work[u].seen : vol[v].there
      /\ work[u].lied \/ work[u].mine \cap work[u].seen = {}
      /\ On(u) \notin raced /\ ~work[u].had =>
           /\ "create" \in Ahead(u) \/ work[u].doomed => sock[On(u)] # "used"
           /\ work[u].doomed /\ "undir" \notin Ahead(u) => sock[On(u)] = "none"
  BY <1>1 DEF IInv, Makes
<1>3. \A v \in work'[u].seen : vol'[v].there
  BY <1>1, <1>2
<1>4. On(u) \in Names
  BY <1>1, HeadFacts
<1>5. CASE u # w
  <2>1. Ahead(u)' = Ahead(u) /\ work'[u].mine = work[u].mine /\ work'[u].doomed = work[u].doomed
    BY <1>5, Others DEF Stays, Like
  <2>2. CASE On(u) = On(w)
    <3>1. On(u) \in raced
      BY <1>0, <1>1, <1>5, <2>2 DEF IInv, Raced
    <3> QED BY <3>1, <2>1, <1>0, <1>1, <1>2, <1>3 DEF Makes
  <2>3. CASE On(u) # On(w)
    <3>1. sock'[On(u)] \in {sock[On(u)], "none"}
      BY <1>4, <2>3
    <3> QED BY <3>1, <2>1, <1>0, <1>1, <1>2, <1>3 DEF Makes
  <2> QED BY <2>2, <2>3
<1>6. CASE u = w
  <2> DEFINE h == Head(work[w].script).do
             n == On(w)
  <2>1. /\ h \in Ahead(w)
        /\ (work[w].doomed => Ahead(w) \subseteq Clearing) /\ (~work[w].doomed => Ahead(w) \cap Clearing = {})
    BY <1>0, HeadFacts
  <2>2. n \notin raced => /\ \/ h \in {"start", "restart", "rebuild"} \/ sock'[n] \in {sock[n], "none"}
                             \/ sock'[n] = "empty" /\ h \notin Clearing
                          /\ h = "undir" /\ sock[n] # "used" => sock'[n] = "none"
    BY <1>4, <1>6
  <2>3. n \notin raced /\ ~work[w].had =>
           /\ "create" \in Ahead(w) \/ work[w].doomed => sock[n] # "used"
           /\ work[w].doomed /\ "undir" \notin Ahead(w) => sock[n] = "none"
    BY <1>2, <1>6
  <2>4. SUFFICES /\ work'[w].lied \/ work'[w].mine \cap work'[w].seen = {}
                 /\ n \notin raced /\ ~work[w].had =>
                      /\ "create" \in Ahead(w)' \/ work'[w].doomed => sock'[n] # "used"
                      /\ work'[w].doomed /\ "undir" \notin Ahead(w)' => sock'[n] = "none"
    BY <1>0, <1>1, <1>3, <1>6 DEF Makes
  <2> HIDE DEF h, n
  <2>5. h # "prescan" /\ work'[w].mine = work[w].mine => work'[w].lied \/ work'[w].mine \cap work'[w].seen = {}
    BY <1>1, <1>2, <1>6
  <2>6. h = "prescan" => work'[w].lied \/ work'[w].mine \cap work'[w].seen = {}
    BY <1>6 DEF h
  <2>7. CASE /\ Passes(work[w], work'[w])
             /\ Ahead(w) = {h} \cup Ahead(w)' /\ (\A b \in Ahead(w)' : ~Barred(h, b))
             /\ work'[w].doomed = work[w].doomed
             /\ h # "prescan" => work'[w].mine = work[w].mine
    <3>1. ASSUME n \notin raced, ~work[w].had, "create" \in Ahead(w)' PROVE sock'[n] # "used"
      <4>1. h \notin {"start", "restart", "rebuild"}
        BY <2>7, <3>1 DEF Barred, Creation
      <4> QED BY <4>1, <2>2, <2>3, <2>7, <3>1
    <3>2. ASSUME n \notin raced, ~work[w].had, work'[w].doomed
          PROVE  sock'[n] # "used" /\ ("undir" \notin Ahead(w)' => sock'[n] = "none")
      <4>1. h \in Clearing
        BY <2>1, <2>7, <3>2
      <4>2. sock'[n] \in {sock[n], "none"}
        BY <4>1, <2>2, <3>2 DEF Clearing
      <4>3. ASSUME "undir" \notin Ahead(w)' PROVE sock'[n] = "none"
        <5>1. CASE h = "undir"
          BY <5>1, <2>2, <2>3, <2>7, <3>2
        <5>2. CASE h # "undir"
          BY <5>2, <4>2, <4>3, <2>3, <2>7, <3>2
        <5> QED BY <5>1, <5>2
      <4> QED BY <4>2, <4>3, <2>3, <2>7, <3>2
    <3> QED BY <3>1, <3>2, <2>5, <2>6, <2>7
  <2>8. CASE /\ Ahead(w)' = Clearing /\ h \in Creation /\ "create" \in Ahead(w) /\ work'[w].mine = work[w].mine
    <3>1. ASSUME n \notin raced, ~work[w].had PROVE sock'[n] # "used"
      <4>1. h \notin {"start", "restart", "rebuild"}
        BY <2>8 DEF Creation
      <4> QED BY <4>1, <2>2, <2>3, <2>8, <3>1
    <3>2. "undir" \in Ahead(w)' /\ "create" \notin Ahead(w)'
      BY <2>8 DEF Clearing
    <3> QED BY <3>1, <3>2, <2>5, <2>6, <2>8
  <2>9. CASE /\ h \in {"probe", "ensure"} /\ work'[w].doomed = work[w].doomed /\ work'[w].mine = work[w].mine
             /\ "create" \in Ahead(w)' <=> "create" \in Ahead(w)
    <3>1. ~work'[w].doomed /\ h \notin {"start", "restart", "rebuild"} /\ h # "prescan"
      BY <2>1, <2>9 DEF Clearing
    <3> QED BY <3>1, <2>2, <2>3, <2>5, <2>9
  <2>10. Busy(w)'
    BY <1>6
  <2> QED BY <2>7, <2>8, <2>9, <2>10, MovedAhead DEF h
<1> QED BY <1>5, <1>6

LEMMA RemovesKept ==
  ASSUME IInv, NEW w \in Workers, Moves(w),
         \A n \in Names \ {On(w)} : box[n] = NoBox => box'[n] = NoBox,
         \A n \in Names \ raced : n = On(w) /\ Busy(w)' /\ work[w].removal =>
             /\ box[n] = NoBox => box'[n] = NoBox
             /\ Head(work[w].script).do = "remove" => box'[n] = NoBox
  PROVE  \A u \in Workers : Busy(u)' => Removes(u)'
<1> SUFFICES ASSUME NEW u \in Workers, Busy(u)', work'[u].removal, "remove" \notin Ahead(u)', On(u)' \notin raced'
             PROVE  box'[On(u)'] = NoBox
  BY DEF Removes
<1>0. Busy(w) /\ TypeOK /\ raced' = raced
  BY DEF Moves, IInv
<1>1. Busy(u) /\ On(u)' = On(u) /\ work[u].removal
  BY <1>0, Still
<1>2. On(u) \in Names /\ Removes(u)
  BY <1>1, HeadFacts DEF IInv
<1>3. CASE u # w
  <2>1. Ahead(u)' = Ahead(u)
    BY <1>3, Others
  <2>2. On(u) # On(w)
    BY <1>0, <1>1, <1>3 DEF IInv, Raced
  <2> QED BY <2>1, <2>2, <1>0, <1>1, <1>2 DEF Removes
<1>4. CASE u = w
  <2>1. CASE Head(work[w].script).do = "remove"
    BY <2>1, <1>0, <1>1, <1>2, <1>4
  <2>2. CASE Head(work[w].script).do # "remove"
    <3>1. "remove" \notin Ahead(w)
      <4>1. Busy(w)' /\ ("remove" \in Ahead(w) => ~(Ahead(w)' = Clearing /\ ~work[w].removal))
        BY <1>1, <1>4
      <4> QED BY <4>1, <1>1, <1>4, <2>2, MovedAhead
    <3> QED BY <3>1, <1>0, <1>1, <1>2, <1>4 DEF Removes
  <2> QED BY <2>1, <2>2
<1> QED BY <1>3, <1>4

\* A step that leaves containers, registry and socket directories as they are.
Quiet == UNCHANGED <<box, reg, home, xdg, sock>>

LEMMA QuietKeeps ==
  ASSUME IInv, NEW w \in Workers, Moves(w), Quiet, WorldTyped',
         Busy(w)' => work'[w].cfg \in Configs,
         \A u \in Workers : \A v \in work'[u].seen : v \in Volumes /\ (vol[v].there => vol'[v].there),
         Head(work[w].script).do = "register" => On(w) \in unsure',
         Busy(w)' => LET h == Head(work[w].script).do IN
           /\ h = "prescan" => work'[w].lied \/ work'[w].mine \cap work'[w].seen = {}
           /\ h = "read" => work'[w].cfg = reg[On(w)]
           /\ h \in {"create", "rebuild"} => ~work'[w].touched
           /\ h \notin {"undir", "remove"}
  PROVE  IInv'
<1>1. /\ box' = box /\ reg' = reg /\ sock' = sock /\ home' = home /\ xdg' = xdg
      /\ \A n \in Names : /\ Exists(n)' <=> Exists(n)
                          /\ Truth(n) => Truth(n)'
                          /\ sock'[n] \in {sock[n], "none"}
  BY DEF Quiet, Exists, Truth
<1>2. TypeOK'
  BY TypeKept
<1>3. Raced' /\ \A u \in Workers : Busy(u)' => Planned(work'[u])
  BY MovesKeep
<1>4. Honest'
  BY <1>1, HonestKept
<1>5. \A u \in Workers : Busy(u)' => Registers(u)'
  <2> DEFINE h == Head(work[w].script).do
  <2>1. ASSUME NEW n \in Names \ (raced' \cup unsure'), n = On(w), Busy(w)'
        PROVE  /\ Exists(n)' /\ work'[w].touched =>
                    IF h \in {"create", "rebuild"} THEN box'[n].cfg = work[w].cfg
                                                   ELSE Exists(n) /\ box'[n].cfg = box[n].cfg
               /\ h \notin {"register", "unregister"} /\ reg[n] # None => reg'[n] = reg[n]
               /\ h = "read" => work'[w].cfg = reg'[n]
    BY <2>1, <1>1
  <2> QED BY <2>1, <1>1, RegistersKept
<1>6. \A u \in Workers : Busy(u)' => Makes(u)'
  BY <1>1, MakesKept
<1>7. \A u \in Workers : Busy(u)' => Removes(u)'
  BY <1>1, RemovesKept
<1> QED BY <1>2, <1>3, <1>4, <1>5, <1>6, <1>7 DEF IInv

LEMMA WorldSame ==
  ASSUME TypeOK, UNCHANGED <<world, engine, fresh>>, Fault \/ faults' = faults
  PROVE  WorldTyped' /\ Quiet /\ \A v \in Volumes : vol'[v] = vol[v]
<1>1. WorldTyped /\ faults \in Nat
  BY Worlds DEF WorldTyped
<1>2. faults' \in Nat
  BY <1>1 DEF Fault
<1>3. /\ box' = box /\ reg' = reg /\ sock' = sock /\ home' = home /\ xdg' = xdg /\ spare' = spare
      /\ vol' = vol /\ entry' = entry /\ icons' = icons /\ engine' = engine /\ fresh' = fresh
  BY DEF world
<1> QED BY <1>1, <1>2, <1>3 DEF WorldTyped, Quiet, Exists

LEMMA SeenKept ==
  ASSUME work' \in [Workers -> Work], \A v \in Volumes : vol[v].there => vol'[v].there
  PROVE  \A u \in Workers : \A v \in work'[u].seen : v \in Volumes /\ (vol[v].there => vol'[v].there)
BY DEF Work

\* Steps that fail, or are not known to have succeeded.
LEMMA MissKeeps ==
  ASSUME IInv, NEW w \in Workers, Moves(w), Misses(w), Quiet, WorldTyped',
         \A v \in Volumes : vol[v].there => vol'[v].there,
         Head(work[w].script).do # "undir",
         Head(work[w].script).do = "register" => On(w) \in unsure'
  PROVE  IInv'
<1> DEFINE h == Head(work[w].script).do
<1>0. Busy(w) /\ work' \in [Workers -> Work]
  BY DEF Moves
<1>1. /\ work[w].cfg \in Configs /\ (h \in Creation \cup {"sockdir", "rebuild", "remove", "read"} => Head(work[w].script).must)
      /\ (work[w].lied \/ work[w].mine \cap work[w].seen = {})
  BY <1>0, HeadFacts DEF IInv, Makes
<1>2. ASSUME Busy(w)'
      PROVE  /\ work'[w].cfg \in Configs
             /\ h = "prescan" => work'[w].lied \/ work'[w].mine \cap work'[w].seen = {}
             /\ h = "read" => work'[w].cfg = reg[On(w)]
             /\ h \in {"create", "rebuild"} => ~work'[w].touched
             /\ h \notin {"undir", "remove"}
  <2>1. work'[w].script # <<>>
    BY <1>2 DEF Busy
  <2>2. CASE Undoes(work[w], work'[w])
    <3>1. work'[w].cfg = work[w].cfg /\ work'[w].mine = work[w].mine /\ h \in Creation
          /\ work'[w].seen \subseteq work[w].seen /\ (work[w].lied => work'[w].lied) /\ work'[w].touched = work[w].touched
      BY <2>2 DEF Undoes
    <3>2. ~work[w].touched
      <4>1. work[w] \in Work /\ work[w].script # <<>> /\ work'[w] \in Work /\ Planned(work[w])
        BY <1>0, RecordFacts DEF IInv
      <4> QED BY <4>1, <2>2, UndoPlanned
    <3> HIDE DEF h
    <3> QED BY <1>1, <3>1, <3>2 DEF Creation
  <2>3. CASE Passes(work[w], work'[w]) /\ ~Head(work[w].script).must
    <3>1. h # "read" => work'[w].cfg = work[w].cfg
      BY <2>1, <2>3 DEF Passes
    <3>2. h \notin Creation \cup {"sockdir", "rebuild", "remove", "read"}
      BY <1>1, <2>3
    <3> QED BY <1>1, <3>1, <3>2 DEF Creation
  <2> QED BY <2>1, <2>2, <2>3 DEF Misses, Fails
<1>3. \A u \in Workers : \A v \in work'[u].seen : v \in Volumes /\ (vol[v].there => vol'[v].there)
  BY <1>0, SeenKept
<1> QED BY <1>2, <1>3, QuietKeeps

LEMMA PassKeeps ==
  ASSUME IInv, NEW w \in Workers, Moves(w), Passes(work[w], work'[w]), Quiet, WorldTyped',
         \A u \in Workers : \A v \in work'[u].seen : v \in Volumes /\ (vol[v].there => vol'[v].there),
         Head(work[w].script).do \notin {"prescan", "read", "create", "rebuild", "undir", "remove", "register"}
  PROVE  IInv'
<1>1. Busy(w)' => work'[w].cfg = work[w].cfg
  BY DEF Passes, Busy
<1>2. work[w].cfg \in Configs
  BY HeadFacts DEF Moves
<1> QED BY <1>1, <1>2, QuietKeeps

LEMMA LostKeeps ==
  ASSUME IInv, NEW w \in Workers, Busy(w), Break(w), UNCHANGED <<world, engine, fresh>>,
         Head(work[w].script).do # "undir"
  PROVE  IInv'
<1>0. TypeOK /\ Planned(work[w])
  BY DEF IInv
<1>1. Moves(w) /\ Misses(w)
  BY <1>0, BreakMoves
<1>2. Head(work[w].script).do = "register" => On(w) \in unsure'
  BY DEF Break, Blame
<1>3. WorldTyped' /\ Quiet /\ \A v \in Volumes : vol'[v] = vol[v]
  BY <1>0, WorldSame DEF Break
<1> QED BY <1>1, <1>2, <1>3, MissKeeps

LEMMA RefuseKeeps ==
  ASSUME IInv, NEW w \in Workers, Busy(w), Refuse(w), UNCHANGED <<world, engine, fresh>>,
         Head(work[w].script).do \notin {"undir", "register"}
  PROVE  IInv'
<1>0. TypeOK /\ Planned(work[w])
  BY DEF IInv
<1>1. Moves(w) /\ Misses(w)
  BY <1>0, RefuseMoves
<1>3. WorldTyped' /\ Quiet /\ \A v \in Volumes : vol'[v] = vol[v]
  BY <1>0, WorldSame DEF Refuse
<1> QED BY <1>1, <1>3, MissKeeps

LEMMA AdvanceKeeps ==
  ASSUME IInv, NEW w \in Workers, Busy(w), Advance(w), Quiet, WorldTyped',
         \A v \in Volumes : vol[v].there => vol'[v].there,
         Head(work[w].script).do \notin {"prescan", "read", "create", "rebuild", "undir", "remove", "register"}
  PROVE  IInv'
<1>0. TypeOK
  BY DEF IInv
<1>1. Moves(w) /\ Passes(work[w], work'[w])
  BY <1>0, AdvanceMoves DEF Succeeds
<1>2. \A u \in Workers : \A v \in work'[u].seen : v \in Volumes /\ (vol[v].there => vol'[v].there)
  BY <1>1, SeenKept DEF Moves
<1> QED BY <1>1, <1>2, PassKeeps

\* Steps that concern nothing of this.
Idling == {"probe", "spawn", "await", "ensure", "ready", "list", "logs", "prepare", "commit", "exec", "setup", "window"}

LEMMA IdlingKeeps ==
  ASSUME IInv, NEW w \in Workers, Busy(w), Head(work[w].script).do \in Idling,
         Advance(w) \/ Refuse(w) \/ Break(w), UNCHANGED <<world, engine, fresh>>
  PROVE  IInv'
<1>0. TypeOK
  BY DEF IInv
<1>1. Head(work[w].script).do \notin {"prescan", "read", "create", "rebuild", "undir", "remove", "register"}
  BY DEF Idling
<1>2. CASE Advance(w)
  <2>1. WorldTyped' /\ Quiet /\ \A v \in Volumes : vol'[v] = vol[v]
    BY <1>0, <1>2, WorldSame DEF Advance
  <2> QED BY <1>1, <1>2, <2>1, AdvanceKeeps
<1> QED BY <1>1, <1>2, RefuseKeeps, LostKeeps

LEMMA PlainKeeps ==
  ASSUME IInv, NEW w \in Workers,
         Ready(w) \/ List(w) \/ Logs(w) \/ Prepare(w) \/ Commit(w) \/ Exec(w) \/ Window(w)
  PROVE  IInv'
<1>1. Busy(w) /\ UNCHANGED <<world, engine, fresh>> /\ (Advance(w) \/ Refuse(w) \/ Break(w))
      /\ Head(work[w].script).do \in Idling
  BY DEF Ready, List, Logs, Prepare, Commit, Exec, Window, Plain, At, Idling
<1> QED BY <1>1, IdlingKeeps

\* A step before which there is more to do.
LEMMA SpliceKeeps ==
  ASSUME IInv, NEW w \in Workers, Moves(w), Splices(work[w], work'[w]), UNCHANGED <<world, engine, fresh, faults>>
  PROVE  IInv'
<1>0. TypeOK /\ Busy(w)
  BY DEF IInv, Moves
<1>1. WorldTyped' /\ Quiet /\ \A v \in Volumes : vol'[v] = vol[v]
  BY <1>0, WorldSame
<1>2. \A u \in Workers : \A v \in work'[u].seen : v \in Volumes /\ (vol[v].there => vol'[v].there)
  BY <1>1, SeenKept DEF Moves
<1>3. work'[w].cfg = work[w].cfg /\ Head(work[w].script).do \in {"probe", "ensure"}
  BY DEF Splices, Spliced
<1>4. work[w].cfg \in Configs
  BY <1>0, HeadFacts
<1> QED BY <1>1, <1>2, <1>3, <1>4, QuietKeeps

LEMMA ProbeKeeps == ASSUME IInv, NEW w \in Workers, Probe(w) PROVE IInv'
<1>0. TypeOK /\ Busy(w) /\ Head(work[w].script).do = "probe" /\ UNCHANGED <<world, engine, fresh>>
  BY DEF IInv, Probe, At, Own
<1>1. CASE Advance(w)
  BY <1>0, <1>1, IdlingKeeps DEF Idling
<1>2. CASE Become(w, [work[w] EXCEPT !.script = <<Must("spawn"), Must("await")>> \o Tail(@)]) /\ UNCHANGED <<past, faults>>
  <2> DEFINE s == <<Must("spawn"), Must("await")>> \o Tail(work[w].script)
  <2>1. s \in Seq(Steps)
    <3>1. <<Must("spawn"), Must("await")>> \in Seq(Steps)
      BY BeginningScript DEF Script
    <3>2. Tail(work[w].script) \in Seq(Steps)
      BY <1>0, RecordFacts, Emptiness
    <3> QED BY <3>1, <3>2
  <2>2. Become(w, [work[w] EXCEPT !.script = s]) /\ UNCHANGED <<raced, begun, unsure>>
    BY <1>2 DEF past
  <2>s. s = <<Must("spawn"), Must("await")>> \o Tail(work[w].script)
    OBVIOUS
  <2> HIDE DEF s
  <2>3. Moves(w) /\ Splices(work[w], work'[w])
    <3>1. Spliced(work[w], s)
      BY <1>0, <2>s DEF Spliced
    <3> QED BY <3>1, <1>0, <2>1, <2>2, SpliceMoves
  <2> QED BY <1>0, <1>2, <2>3, SpliceKeeps
<1> QED BY <1>1, <1>2 DEF Probe

LEMMA EnsureKeeps == ASSUME IInv, NEW w \in Workers, Ensure(w) PROVE IInv'
<1>0. TypeOK /\ Busy(w) /\ Head(work[w].script).do = "ensure" /\ UNCHANGED <<world, engine, fresh>>
  BY DEF IInv, Ensure, At
<1>1. CASE Advance(w) \/ Refuse(w) \/ Break(w)
  BY <1>0, <1>1, IdlingKeeps DEF Idling
<1>2. CASE Become(w, [work[w] EXCEPT !.script = Starting \o Tail(@)]) /\ UNCHANGED <<past, faults>>
  <2> DEFINE s == Starting \o Tail(work[w].script)
  <2>1. s \in Seq(Steps)
    <3>1. Starting \in Seq(Steps)
      BY StartingScript DEF Script
    <3>2. Tail(work[w].script) \in Seq(Steps)
      BY <1>0, RecordFacts, Emptiness
    <3> QED BY <3>1, <3>2
  <2>2. Become(w, [work[w] EXCEPT !.script = s]) /\ UNCHANGED <<raced, begun, unsure>>
    BY <1>2 DEF past
  <2>s. Spliced(work[w], s)
    BY <1>0 DEF Spliced
  <2> HIDE DEF s
  <2>3. Moves(w) /\ Splices(work[w], work'[w])
    BY <1>0, <2>1, <2>2, <2>s, SpliceMoves
  <2> QED BY <1>0, <1>2, <2>3, SpliceKeeps
<1> QED BY <1>1, <1>2 DEF Ensure

LEMMA SpawnKeeps == ASSUME IInv, NEW w \in Workers, Spawn(w) PROVE IInv'
<1>0. TypeOK /\ WorldTyped /\ Busy(w) /\ Head(work[w].script).do = "spawn" /\ UNCHANGED <<world, fresh>> /\ Advance(w)
  BY Worlds DEF IInv, Spawn, At, Own
<1>1. engine' \in [file : {"none", "dead", "live"}, coming : Nat]
  <2>1. engine.coming \in Nat /\ engine' = [engine EXCEPT !.file = "none", !.coming = @ + 1]
    BY <1>0 DEF Spawn, WorldTyped
  <2>2. engine.coming + 1 \in Nat
    BY <2>1
  <2>3. engine \in [file : {"none", "dead", "live"}, coming : Nat]
    BY <1>0 DEF WorldTyped
  <2>4. engine' = [file |-> "none", coming |-> engine.coming + 1]
    BY <2>1, <2>3
  <2> QED BY <2>2, <2>4
<1>2. /\ box' = box /\ reg' = reg /\ sock' = sock /\ home' = home /\ xdg' = xdg /\ spare' = spare
      /\ vol' = vol /\ entry' = entry /\ icons' = icons /\ fresh' = fresh /\ faults' = faults
  BY <1>0 DEF world, Advance
<1>3. WorldTyped' /\ Quiet
  BY <1>0, <1>1, <1>2 DEF WorldTyped, Quiet, Exists
<1> QED BY <1>0, <1>2, <1>3, AdvanceKeeps

LEMMA AwaitKeeps == ASSUME IInv, NEW w \in Workers, Await(w) PROVE IInv'
<1>0. TypeOK /\ Busy(w) /\ Head(work[w].script).do = "await" /\ UNCHANGED <<world, engine, fresh>>
  BY DEF IInv, Await, At, Own
<1>1. CASE Advance(w) \/ Break(w)
  BY <1>0, <1>1, IdlingKeeps DEF Idling
<1>2. CASE Fault /\ Become(w, Stepped(Hurt(w))) /\ UNCHANGED past
  <2>1. Moves(w) /\ Passes(work[w], work'[w])
    BY <1>0, <1>2, SameBefore, PassMoves DEF past
  <2>2. WorldTyped' /\ Quiet /\ \A v \in Volumes : vol'[v] = vol[v]
    BY <1>0, <1>2, WorldSame
  <2>3. \A u \in Workers : \A v \in work'[u].seen : v \in Volumes /\ (vol[v].there => vol'[v].there)
    BY <2>1, <2>2, SeenKept DEF Moves
  <2> QED BY <1>0, <2>1, <2>2, <2>3, PassKeeps
<1> QED BY <1>1, <1>2 DEF Await

\* A command that goes on has had more than the step it was at.
LEMMA GoesOn ==
  ASSUME TypeOK, NEW w \in Workers, Busy(w), NEW p, After(work[w], p, work'[w]), Busy(w)'
  PROVE  work'[w].mine = p.mine /\ work'[w].cfg = p.cfg /\ work'[w].lied = p.lied
<1> DEFINE n == Len(work[w].script)
<1>1. n \in Nat /\ n >= 1
  BY RecordFacts
<1>2. work'[w].script # <<>>
  BY DEF Busy
<1> HIDE DEF n
<1>3. n # 1 => n > 1
  BY <1>1
<1> QED BY <1>2, <1>3 DEF After, n

LEMMA PrescanKeeps == ASSUME IInv, NEW w \in Workers, Prescan(w) PROVE IInv'
<1> DEFINE r == work[w]
           absent == {v \in work[w].cfg.vols : ~vol[v].there}
<1>0. TypeOK /\ Busy(w) /\ Head(r.script).do = "prescan" /\ UNCHANGED <<world, engine, fresh>> /\ UNCHANGED past
      /\ (Fault \/ faults' = faults)
  BY DEF IInv, Prescan, At
<1>1. r \in Work /\ r.cfg \in Configs /\ Makes(w) /\ r.touched \in BOOLEAN /\ r.cfg.vols \subseteq Volumes
  BY <1>0, HeadFacts, EnvironmentAssumption DEF IInv
<1>2. PICK p : /\ Become(w, Stepped(p))
               /\ \/ p = [r EXCEPT !.mine = absent]
                  \/ p = [r EXCEPT !.mine = {}, !.hurt = TRUE]
                  \/ p = [r EXCEPT !.mine = r.cfg.vols, !.lied = TRUE]
  BY DEF Prescan
<1>3. /\ p \in Work /\ p.script = r.script /\ Like(r, p) /\ (r.hurt => p.hurt) /\ p.touched = r.touched /\ p.cfg = r.cfg
      /\ p.lied \/ p.mine \subseteq {v \in Volumes : ~vol[v].there}
  <2>1. CASE p = [r EXCEPT !.mine = absent]
    BY <2>1, <1>1 DEF Work, Like
  <2>2. CASE p = [r EXCEPT !.mine = {}, !.hurt = TRUE]
    BY <2>2, <1>1 DEF Work, Like
  <2>3. CASE p = [r EXCEPT !.mine = r.cfg.vols, !.lied = TRUE]
    BY <2>3, <1>1 DEF Work, Like
  <2> QED BY <1>2, <2>1, <2>2, <2>3
<1>4. Before(r, p)
  <2>1. (r.touched \/ Head(r.script).do \in {"create", "rebuild"}) = r.touched
    BY <1>0, <1>1
  <2> QED BY <2>1, <1>0, <1>3 DEF Before
<1>5. Moves(w) /\ After(r, p, work'[w])
  BY <1>0, <1>2, <1>4, PassMoves DEF past
<1>6. WorldTyped' /\ Quiet /\ \A v \in Volumes : vol'[v] = vol[v]
  BY <1>0, WorldSame
<1>7. \A u \in Workers : \A v \in work'[u].seen : v \in Volumes /\ (vol[v].there => vol'[v].there)
  BY <1>5, <1>6, SeenKept DEF Moves
<1>8. ASSUME Busy(w)' PROVE work'[w].cfg \in Configs /\ (work'[w].lied \/ work'[w].mine \cap work'[w].seen = {})
  <2>1. work'[w].mine = p.mine /\ work'[w].cfg = p.cfg /\ work'[w].lied = p.lied
    BY <1>0, <1>5, <1>8, GoesOn
  <2>2. work'[w].seen \subseteq r.seen
    BY <1>0, <1>5, <1>8, Still
  <2> QED BY <2>1, <2>2, <1>1, <1>3 DEF Makes
<1> QED BY <1>0, <1>5, <1>6, <1>7, <1>8, QuietKeeps

LEMMA ReadKeeps == ASSUME IInv, NEW w \in Workers, Read(w) PROVE IInv'
<1> DEFINE r == work[w]
           p == [r EXCEPT !.cfg = reg[On(w)]]
<1>0. TypeOK /\ Busy(w) /\ Head(r.script).do = "read" /\ UNCHANGED <<world, engine, fresh>>
  BY DEF IInv, Read, At
<1>1. CASE Refuse(w)
  BY <1>0, <1>1, RefuseKeeps
<1>2. CASE reg[On(w)] # None /\ Become(w, Stepped(p)) /\ UNCHANGED <<past, faults>>
  <2>1. r \in Work /\ On(w) \in Names /\ r.touched \in BOOLEAN /\ reg[On(w)] \in Configs
    <3>1. reg \in [Names -> Configs \cup {None}]
      BY <1>0 DEF TypeOK
    <3> QED BY <3>1, <1>0, <1>2, HeadFacts
  <2>2. p \in Work /\ p.script = r.script /\ Like(r, p) /\ (r.hurt => p.hurt) /\ p.touched = r.touched
        /\ p.cfg = reg[On(w)] /\ p.mine = r.mine
    BY <2>1 DEF Work, Like
  <2> HIDE DEF p
  <2>3. Before(r, p)
    <3>1. (r.touched \/ Head(r.script).do \in {"create", "rebuild"}) = r.touched
      BY <1>0, <2>1
    <3> QED BY <3>1, <1>0, <2>2 DEF Before
  <2>4. Moves(w) /\ After(r, p, work'[w])
    BY <1>0, <1>2, <2>3, PassMoves DEF past
  <2>5. WorldTyped' /\ Quiet /\ \A v \in Volumes : vol'[v] = vol[v]
    BY <1>0, <1>2, WorldSame
  <2>6. \A u \in Workers : \A v \in work'[u].seen : v \in Volumes /\ (vol[v].there => vol'[v].there)
    BY <2>4, <2>5, SeenKept DEF Moves
  <2>7. Busy(w)' => work'[w].cfg \in Configs /\ work'[w].cfg = reg[On(w)]
    BY <1>0, <2>1, <2>2, <2>4, GoesOn
  <2> QED BY <1>0, <2>4, <2>5, <2>6, <2>7, QuietKeeps
<1> QED BY <1>1, <1>2 DEF Read

LEMMA CheckKeeps == ASSUME IInv, NEW w \in Workers, Check(w) PROVE IInv'
<1>0. TypeOK /\ Busy(w) /\ Head(work[w].script).do = "check" /\ UNCHANGED <<world, engine, fresh>> /\ UNCHANGED past
      /\ (Fault \/ faults' = faults)
  BY DEF IInv, Check, At
<1>1. work[w] \in Work /\ "register" \notin Ahead(w)
  BY <1>0, HeadFacts DEF Clearing
<1>2. WorldTyped' /\ Quiet /\ \A v \in Volumes : vol'[v] = vol[v]
  BY <1>0, WorldSame
<1>3. CASE Become(w, Stepped(work[w]))
  <2>1. Moves(w) /\ Passes(work[w], work'[w])
    BY <1>0, <1>3, SameBefore, PassMoves DEF past
  <2>2. \A u \in Workers : \A v \in work'[u].seen : v \in Volumes /\ (vol[v].there => vol'[v].there)
    BY <1>2, <2>1, SeenKept DEF Moves
  <2> QED BY <1>0, <1>2, <2>1, <2>2, PassKeeps
<1>4. ASSUME NEW p \in Work, Become(w, Done(p, "failed")) PROVE IInv'
  <2> DEFINE q == Done(p, "failed")
  <2>1. q \in Work /\ q.script = <<>>
    BY DoneRecord
  <2> HIDE DEF q
  <2>2. Moves(w) /\ work'[w] = q
    BY <1>0, <1>1, <1>4, <2>1, DoneMoves DEF past, q
  <2>3. ~Busy(w)'
    BY <2>1, <2>2 DEF Busy
  <2>4. \A u \in Workers : \A v \in work'[u].seen : v \in Volumes /\ (vol[v].there => vol'[v].there)
    BY <1>2, <2>2, SeenKept DEF Moves
  <2> QED BY <1>0, <1>2, <2>2, <2>3, <2>4, QuietKeeps
<1>5. Hurt(w) \in Work
  BY <1>0, HurtRecord
<1> QED BY <1>1, <1>3, <1>4, <1>5 DEF Check

LEMMA VolumesTyped ==
  ASSUME TypeOK, NEW vs, NEW label \in BOOLEAN
  PROVE  /\ VolumesMade(vs, label) \in [Volumes -> [there : BOOLEAN, ours : BOOLEAN, data : BOOLEAN]]
         /\ \A v \in Volumes : vol[v].there => VolumesMade(vs, label)[v].there
BY DEF TypeOK, VolumesMade

\* Steps that change nothing but volumes.
VolumesOnly == UNCHANGED <<box, spare, reg, home, xdg, sock, entry, icons, engine, fresh>>

LEMMA VolumesWorld ==
  ASSUME TypeOK, VolumesOnly, vol' \in [Volumes -> [there : BOOLEAN, ours : BOOLEAN, data : BOOLEAN]],
         Fault \/ faults' = faults
  PROVE  WorldTyped' /\ Quiet
<1>1. WorldTyped /\ faults' \in Nat
  BY Worlds DEF WorldTyped, Fault
<1> QED BY <1>1 DEF WorldTyped, VolumesOnly, Quiet, Exists

LEMMA EnsureVolumesKeeps == ASSUME IInv, NEW w \in Workers, EnsureVolumes(w) PROVE IInv'
<1>0. TypeOK /\ Busy(w) /\ Head(work[w].script).do = "volumes" /\ VolumesOnly /\ Planned(work[w])
  BY DEF IInv, EnsureVolumes, At, VolumesOnly
<1>1. PICK vs : vol' = VolumesMade(vs, TRUE) /\ (Advance(w) \/ Break(w))
  BY DEF EnsureVolumes
<1>2. vol' \in [Volumes -> [there : BOOLEAN, ours : BOOLEAN, data : BOOLEAN]]
      /\ \A v \in Volumes : vol[v].there => vol'[v].there
  BY <1>0, <1>1, VolumesTyped
<1>3. WorldTyped' /\ Quiet
  BY <1>0, <1>1, <1>2, VolumesWorld DEF Advance, Break
<1>4. CASE Advance(w)
  BY <1>0, <1>2, <1>3, <1>4, AdvanceKeeps
<1>5. CASE Break(w)
  BY <1>0, <1>2, <1>3, <1>5, BreakMoves, MissKeeps
<1> QED BY <1>1, <1>4, <1>5

LEMMA MakeVolumeKeeps == ASSUME IInv, NEW w \in Workers, MakeVolume(w) PROVE IInv'
<1>0. TypeOK /\ Busy(w) /\ Head(work[w].script).do = "volume" /\ UNCHANGED <<engine, fresh>>
  BY DEF IInv, MakeVolume, At
<1>1. CASE Advance(w) /\ VolumesOnly /\ \E v : vol' = VolumesMade({v}, TRUE)
  <2>1. vol' \in [Volumes -> [there : BOOLEAN, ours : BOOLEAN, data : BOOLEAN]]
        /\ \A v \in Volumes : vol[v].there => vol'[v].there
    <3>1. PICK v : vol' = VolumesMade({v}, TRUE)
      BY <1>1
    <3> QED BY <3>1, <1>0, VolumesTyped
  <2>2. WorldTyped' /\ Quiet
    BY <1>0, <1>1, <2>1, VolumesWorld DEF Advance
  <2> QED BY <1>0, <1>1, <2>1, <2>2, AdvanceKeeps
<1>2. CASE (Refuse(w) \/ Break(w)) /\ UNCHANGED world
  BY <1>0, <1>2, RefuseKeeps, LostKeeps
<1> QED BY <1>0, <1>1, <1>2 DEF MakeVolume, Lost, VolumesOnly

\* Volumes that vanish are none that somebody has seen all the time.
LEMMA VanishKeeps ==
  ASSUME IInv, NEW w \in Workers, Busy(w), NEW p, Before(work[w], p), NEW vs \in SUBSET Volumes,
         Vanish(w, vs, Stepped(p)), VolumesOnly, UNCHANGED <<raced, begun>>,
         unsure \subseteq unsure', unsure' \subseteq unsure \cup {On(w)}, Fault \/ faults' = faults,
         Head(work[w].script).do \in {"unvol", "unmade"}
  PROVE  IInv' /\ Moves(w) /\ After(work[w], p, work'[w])
<1>0. TypeOK
  BY DEF IInv
<1>1. /\ Moves(w) /\ Passes(work[w], work'[w]) /\ After(work[w], p, work'[w])
      /\ \A u \in Workers : work'[u].seen \cap vs = {}
  BY <1>0, VanishMoves
<1>2. vol' = [v \in Volumes |-> IF v \in vs THEN NoVolume ELSE vol[v]]
  BY DEF Vanish
<1>3. vol' \in [Volumes -> [there : BOOLEAN, ours : BOOLEAN, data : BOOLEAN]]
  BY <1>0, <1>2 DEF TypeOK, NoVolume
<1>4. WorldTyped' /\ Quiet
  BY <1>0, <1>3, VolumesWorld
<1>5. ASSUME NEW u \in Workers, NEW v \in work'[u].seen PROVE v \in Volumes /\ (vol[v].there => vol'[v].there)
  <2>1. work'[u] \in Work
    BY <1>1 DEF Moves
  <2>2. v \in Volumes /\ v \notin vs
    BY <1>1, <2>1 DEF Work
  <2> QED BY <2>2, <1>2
<1> QED BY <1>1, <1>4, <1>5, PassKeeps

LEMMA UnvolKeeps == ASSUME IInv, NEW w \in Workers, Unvol(w) PROVE IInv'
<1> DEFINE orphans == {v \in work[w].mine : vol[v].there /\ vol[v].ours /\ ~Mounted(v)}
<1>0. TypeOK /\ Busy(w) /\ Head(work[w].script).do = "unvol" /\ VolumesOnly /\ UNCHANGED <<raced, begun>>
  BY DEF IInv, Unvol, At, VolumesOnly
<1>1. work[w].mine \subseteq Volumes
  BY <1>0, HeadFacts DEF Work
<1>2. Before(work[w], work[w]) /\ Before(work[w], Hurt(w))
  BY <1>0, SameBefore
<1>3. CASE Vanish(w, orphans, Stepped(work[w])) /\ UNCHANGED <<unsure, faults>>
  BY <1>0, <1>1, <1>2, <1>3, VanishKeeps
<1>4. ASSUME NEW gone \in SUBSET orphans, Vanish(w, gone, Stepped(Hurt(w))), Fault, Blame(w, work[w].touched)
      PROVE  IInv'
  <2>1. gone \in SUBSET Volumes /\ unsure \subseteq unsure' /\ unsure' \subseteq unsure \cup {On(w)}
    BY <1>1, <1>4 DEF Blame
  <2> QED BY <1>0, <1>2, <1>4, <2>1, VanishKeeps
<1> QED BY <1>3, <1>4 DEF Unvol

LEMMA UnmakeKeeps == ASSUME IInv, NEW w \in Workers, Unmake(w) PROVE IInv'
<1>0. TypeOK /\ Busy(w) /\ Head(work[w].script).do = "unmade" /\ UNCHANGED <<engine, fresh>>
  BY DEF IInv, Unmake, At
<1>1. ASSUME NEW v \in work[w].cfg.vols, Vanish(w, {v}, Stepped(work[w])),
             UNCHANGED <<box, spare, reg, home, xdg, sock, entry, icons, past, faults>>
      PROVE  IInv'
  <2>1. work[w].cfg \in Configs
    BY <1>0, HeadFacts
  <2>2. {v} \in SUBSET Volumes
    BY <2>1, EnvironmentAssumption
  <2>3. Before(work[w], work[w])
    BY <1>0, SameBefore
  <2>4. VolumesOnly /\ UNCHANGED <<raced, begun>> /\ unsure' = unsure
    BY <1>0, <1>1 DEF VolumesOnly, past
  <2> QED BY <1>0, <1>1, <2>2, <2>3, <2>4, VanishKeeps
<1>2. CASE (Refuse(w) \/ Break(w)) /\ UNCHANGED world
  BY <1>0, <1>2, RefuseKeeps, LostKeeps
<1> QED BY <1>1, <1>2 DEF Unmake, Lost

LEMMA DrawKeeps == ASSUME IInv, NEW w \in Workers, Draw(w) \/ DrawFails(w) PROVE IInv'
<1>1. CASE Draw(w)
  <2>0. TypeOK /\ WorldTyped /\ Busy(w) /\ Head(work[w].script).do \in {"entry", "desktops", "picture", "icons"} /\ Advance(w)
        /\ UNCHANGED <<box, spare, reg, home, xdg, sock, vol, engine, fresh, faults>>
    BY <1>1, Worlds DEF IInv, Draw, At, Advance
  <2>1. On(w) \in Names
    BY <2>0, HeadFacts
  <2>2. entry' \cup icons' \subseteq Names
    BY <1>1, <2>0, <2>1 DEF Draw, WorldTyped
  <2>3. WorldTyped' /\ Quiet /\ vol' = vol
    BY <2>0, <2>2 DEF WorldTyped, Quiet, Exists
  <2> QED BY <2>0, <2>3, AdvanceKeeps
<1>2. CASE DrawFails(w)
  <2>1. Busy(w) /\ Head(work[w].script).do \in {"entry", "desktops", "picture", "icons"} /\ Break(w)
        /\ UNCHANGED <<world, engine, fresh>>
    BY <1>2 DEF DrawFails, At, Lost
  <2> QED BY <2>1, LostKeeps
<1> QED BY <1>1, <1>2

\* What is ahead of a worker is not behind it before its turn.
LEMMA StillAhead ==
  ASSUME IInv, NEW w \in Workers, Busy(w), Passes(work[w], work'[w]),
         NEW k \in Ahead(w), k # Head(work[w].script).do
  PROVE  Busy(w)' /\ k \in Ahead(w)'
<1>1. work[w] \in Work /\ work[w].script # <<>> /\ Planned(work[w])
  BY RecordFacts DEF IInv
<1>2. Words(work[w].script) = {Head(work[w].script).do} \cup Words(Tail(work[w].script))
  BY <1>1, Ahead1
<1>3. work'[w].script = Tail(work[w].script)
  BY DEF Passes
<1>4. k \in Words(work'[w].script)
  BY <1>2, <1>3 DEF Ahead
<1> QED BY <1>4, NoWords DEF Busy, Ahead

LEMMA SameCfg ==
  ASSUME IInv, NEW w \in Workers, Moves(w), Head(work[w].script).do # "read", Busy(w)'
  PROVE  work'[w].cfg = work[w].cfg /\ work'[w].cfg \in Configs
<1>1. work[w].cfg \in Configs
  BY HeadFacts DEF Moves
<1> QED BY <1>1, MovedAhead

\* A step that must succeed and has not ends the command, or turns it back.
LEMMA MustMisses ==
  ASSUME IInv, NEW w \in Workers, Moves(w), Misses(w),
         Head(work[w].script).do \in Creation \cup {"sockdir", "rebuild", "remove", "read"}, Busy(w)'
  PROVE  Head(work[w].script).do \in Creation /\ ~work'[w].touched
<1>1. Head(work[w].script).must
  BY HeadFacts DEF Moves
<1>2. work'[w].script # <<>>
  BY DEF Busy
<1>3. Undoes(work[w], work'[w])
  BY <1>1, <1>2 DEF Misses, Fails
<1>4. work[w] \in Work /\ work[w].script # <<>> /\ work'[w] \in Work /\ Planned(work[w])
  BY RecordFacts DEF IInv, Moves
<1>5. ~work[w].touched
  BY <1>3, <1>4, UndoPlanned
<1> QED BY <1>3, <1>5 DEF Undoes

LEMMA StepKeeps ==
  ASSUME IInv, NEW w \in Workers, Moves(w), WorldTyped', UNCHANGED <<reg, home, xdg>>,
         \A v \in Volumes : vol[v].there => vol'[v].there,
         Head(work[w].script).do \notin {"prescan", "read", "register", "unregister"},
         \A n \in Names \ {On(w)} : box'[n] = box[n] /\ sock'[n] \in {sock[n], "none"},
         \A n \in Names : n = On(w) => LET h == Head(work[w].script).do IN
           /\ n \in raced' \cup unsure' \/ (Truth(n) => Truth(n)' \/ Pending(n)')
           /\ n \notin raced' \cup unsure' /\ Busy(w)' /\ Exists(n)' /\ work'[w].touched =>
                IF h \in {"create", "rebuild"} THEN box'[n].cfg = work[w].cfg
                                               ELSE Exists(n) /\ box'[n].cfg = box[n].cfg
           /\ Busy(w)' => /\ \/ h \in {"start", "restart", "rebuild"} \/ sock'[n] \in {sock[n], "none"}
                             \/ sock'[n] = "empty" /\ h \notin Clearing
                          /\ h = "undir" /\ sock[n] # "used" => sock'[n] = "none"
           /\ Busy(w)' /\ work[w].removal => /\ box[n] = NoBox => box'[n] = NoBox
                                             /\ h = "remove" => box'[n] = NoBox
  PROVE  IInv'
<1>1. \A n \in Names \ {On(w)} : /\ Truth(n) => Truth(n)'
                                 /\ Exists(n)' => Exists(n) /\ box'[n].cfg = box[n].cfg
                                 /\ reg[n] # None => reg'[n] = reg[n]
  BY DEF Truth, Exists
<1>2. Busy(w)' => work'[w].cfg \in Configs
  BY SameCfg
<1>3. TypeOK'
  BY <1>2, TypeKept
<1>4. Raced' /\ \A u \in Workers : Busy(u)' => Planned(work'[u])
  BY <1>2, MovesKeep
<1>5. Honest'
  <2>1. \A n \in Names \ (raced' \cup unsure') : Truth(n) => Truth(n)' \/ Pending(n)'
    BY <1>1
  <2> QED BY <2>1, HonestKept
<1>6. \A u \in Workers : Busy(u)' => Registers(u)'
  <2> DEFINE h == Head(work[w].script).do
  <2>1. ASSUME NEW n \in Names \ (raced' \cup unsure'), n = On(w), Busy(w)'
        PROVE  /\ Exists(n)' /\ work'[w].touched =>
                    IF h \in {"create", "rebuild"} THEN box'[n].cfg = work[w].cfg
                                                   ELSE Exists(n) /\ box'[n].cfg = box[n].cfg
               /\ h \notin {"register", "unregister"} /\ reg[n] # None => reg'[n] = reg[n]
               /\ h = "read" => work'[w].cfg = reg'[n]
    BY <2>1
  <2> QED BY <2>1, <1>1, <1>2, RegistersKept
<1>7. \A u \in Workers : Busy(u)' => Makes(u)'
  <2>1. \A u \in Workers : \A v \in work'[u].seen : v \in Volumes /\ (vol[v].there => vol'[v].there)
    BY SeenKept DEF Moves
  <2> QED BY <2>1, MakesKept
<1>8. \A u \in Workers : Busy(u)' => Removes(u)'
  BY RemovesKept
<1> QED BY <1>3, <1>4, <1>5, <1>6, <1>7, <1>8 DEF IInv

\* Steps that change nothing but socket directories.
LEMMA SocketsOnly ==
  ASSUME IInv, NEW w \in Workers, Busy(w), Advance(w),
         UNCHANGED <<box, spare, reg, home, xdg, entry, icons, vol, engine, fresh>>,
         sock' \in [Names -> {"none", "empty", "used"}],
         Head(work[w].script).do \in {"sockdir", "mkdir", "undir", "sockets"},
         \A n \in Names \ {On(w)} : sock'[n] \in {sock[n], "none"},
         \A n \in Names : n = On(w) => LET h == Head(work[w].script).do IN
           /\ sock'[n] \in {sock[n], "none"} \/ (sock'[n] = "empty" /\ h \notin Clearing)
           /\ h = "undir" /\ sock[n] # "used" => sock'[n] = "none"
  PROVE  IInv'
<1>0. TypeOK /\ WorldTyped
  BY Worlds DEF IInv
<1>1. Moves(w) /\ faults' = faults /\ Passes(work[w], work'[w])
  BY <1>0, AdvanceMoves DEF Succeeds
<1>2. WorldTyped'
  BY <1>0, <1>1 DEF WorldTyped, Exists
<1>3. \A n \in Names : Truth(n)' <=> Truth(n)
  BY DEF Truth, Exists
<1>4. ASSUME Busy(w)', work'[w].touched, NEW n \in Names \ (raced' \cup unsure'), n = On(w), Exists(n)
      PROVE  Exists(n) /\ box'[n].cfg = box[n].cfg
  BY <1>4
<1>5. \A n \in Names : Exists(n)' <=> Exists(n)
  BY DEF Exists
<1> QED BY <1>1, <1>2, <1>3, <1>5, StepKeeps

LEMMA SockDirKeeps == ASSUME IInv, NEW w \in Workers, SockDir(w) PROVE IInv'
<1>0. TypeOK /\ Busy(w) /\ Head(work[w].script).do = "sockdir" /\ UNCHANGED <<engine, fresh>>
      /\ sock \in [Names -> {"none", "empty", "used"}]
  BY DEF IInv, SockDir, At, TypeOK
<1>1. CASE Lost(w)
  BY <1>0, <1>1, LostKeeps DEF Lost
<1>2. ASSUME NEW m \in SocketPaths(On(w)), sock' = [sock EXCEPT ![m] = IF @ = "none" THEN "empty" ELSE @],
             Advance(w), UNCHANGED <<box, spare, reg, home, xdg, entry, icons, vol>>
      PROVE  IInv'
  <2>1. m = On(w) \/ sock[m] # "none"
    BY DEF SocketPaths, Resolved
  <2>2. sock' \in [Names -> {"none", "empty", "used"}]
    BY <1>0, <1>2
  <2>3. \A n \in Names \ {On(w)} : sock'[n] = sock[n]
    BY <1>0, <1>2, <2>1
  <2>4. \A n \in Names : sock'[n] = sock[n] \/ sock'[n] = "empty"
    BY <1>0, <1>2
  <2> QED BY <1>0, <1>2, <2>2, <2>3, <2>4, SocketsOnly DEF Clearing
<1> QED BY <1>1, <1>2 DEF SockDir

LEMMA MkdirKeeps == ASSUME IInv, NEW w \in Workers, Mkdir(w) PROVE IInv'
<1>0. TypeOK /\ Busy(w) /\ Head(work[w].script).do = "mkdir" /\ UNCHANGED <<engine, fresh>>
      /\ sock \in [Names -> {"none", "empty", "used"}]
  BY DEF IInv, Mkdir, At, TypeOK
<1>1. CASE Lost(w)
  BY <1>0, <1>1, LostKeeps DEF Lost
<1>2. CASE /\ sock' = [sock EXCEPT ![On(w)] = IF @ = "none" THEN "empty" ELSE @]
           /\ Advance(w) /\ UNCHANGED <<box, spare, reg, home, xdg, entry, icons, vol>>
  <2>1. sock' \in [Names -> {"none", "empty", "used"}]
    BY <1>0, <1>2
  <2>2. \A n \in Names : IF n = On(w) THEN sock'[n] = sock[n] \/ sock'[n] = "empty" ELSE sock'[n] = sock[n]
    BY <1>0, <1>2
  <2> QED BY <1>0, <1>2, <2>1, <2>2, SocketsOnly DEF Clearing
<1> QED BY <1>1, <1>2 DEF Mkdir

LEMMA UndirKeeps == ASSUME IInv, NEW w \in Workers, Undir(w) PROVE IInv'
<1>0. /\ Busy(w) /\ Head(work[w].script).do = "undir" /\ UNCHANGED <<engine, fresh>>
      /\ sock \in [Names -> {"none", "empty", "used"}]
      /\ sock' = [sock EXCEPT ![On(w)] = IF @ = "empty" THEN "none" ELSE @]
      /\ Advance(w) /\ UNCHANGED <<box, spare, reg, home, xdg, entry, icons, vol>>
  BY DEF IInv, Undir, At, TypeOK
<1>1. sock' \in [Names -> {"none", "empty", "used"}]
  BY <1>0
<1>2. \A n \in Names : IF n = On(w) THEN sock'[n] = (IF sock[n] = "empty" THEN "none" ELSE sock[n]) ELSE sock'[n] = sock[n]
  BY <1>0
<1>3. \A n \in Names : sock[n] \in {"none", "empty", "used"}
  BY <1>0
<1>4. \A n \in Names : sock'[n] \in {sock[n], "none"} /\ (n = On(w) /\ sock[n] # "used" => sock'[n] = "none")
  BY <1>2, <1>3
<1>5. Head(work[w].script).do \in {"sockdir", "mkdir", "undir", "sockets"}
  BY <1>0
<1>6. \A n \in Names \ {On(w)} : sock'[n] \in {sock[n], "none"}
  BY <1>4
<1>7. \A n \in Names : n = On(w) => LET h == Head(work[w].script).do IN
         /\ sock'[n] \in {sock[n], "none"} \/ (sock'[n] = "empty" /\ h \notin Clearing)
         /\ h = "undir" /\ sock[n] # "used" => sock'[n] = "none"
  BY <1>4
<1>8. Advance(w) /\ UNCHANGED <<box, spare, reg, home, xdg, entry, icons, vol, engine, fresh>>
  BY <1>0
<1> QED BY <1>0, <1>1, <1>5, <1>6, <1>7, <1>8, SocketsOnly

LEMMA SocketsKeeps == ASSUME IInv, NEW w \in Workers, Sockets(w) PROVE IInv'
<1>0. TypeOK /\ Busy(w) /\ Head(work[w].script).do = "sockets" /\ UNCHANGED <<engine, fresh>>
      /\ sock \in [Names -> {"none", "empty", "used"}]
  BY DEF IInv, Sockets, At, TypeOK
<1>1. CASE Lost(w)
  BY <1>0, <1>1, LostKeeps DEF Lost
<1>2. CASE /\ sock' = [m \in Names |-> IF m \in Resolved(On(w)) THEN "none" ELSE sock[m]]
           /\ Advance(w) /\ UNCHANGED <<box, spare, reg, home, xdg, entry, icons, vol>>
  <2>1. sock' \in [Names -> {"none", "empty", "used"}]
    BY <1>0, <1>2
  <2>2. \A n \in Names : sock'[n] \in {sock[n], "none"}
    BY <1>2
  <2>3. Head(work[w].script).do \in {"sockdir", "mkdir", "undir", "sockets"} /\ Head(work[w].script).do # "undir"
    BY <1>0
  <2>4. Advance(w) /\ UNCHANGED <<box, spare, reg, home, xdg, entry, icons, vol, engine, fresh>>
    BY <1>0, <1>2
  <2>5. \A n \in Names \ {On(w)} : sock'[n] \in {sock[n], "none"}
    BY <2>2
  <2>6. \A n \in Names : n = On(w) => LET h == Head(work[w].script).do IN
           /\ sock'[n] \in {sock[n], "none"} \/ (sock'[n] = "empty" /\ h \notin Clearing)
           /\ h = "undir" /\ sock[n] # "used" => sock'[n] = "none"
    BY <2>2, <2>3 DEF Clearing
  <2>7. Busy(w)
    BY <1>0
  <2> QED BY <2>1, <2>3, <2>4, <2>5, <2>6, <2>7, SocketsOnly
<1> QED BY <1>1, <1>2 DEF Sockets

\* Requests about a container.
LEMMA BoxTyped ==
  ASSUME TypeOK, NEW n \in Names, NEW c \in [st : {"none", "created", "running", "stopped"}, cfg : Configs \cup {None}],
         c.st # "none" => c.cfg \in Configs, box' = [box EXCEPT ![n] = c]
  PROVE  /\ box' \in [Names -> [st : {"none", "created", "running", "stopped"}, cfg : Configs \cup {None}]]
         /\ \A m \in Names : Exists(m)' => box'[m].cfg \in Configs
         /\ box'[n] = c /\ \A m \in Names \ {n} : box'[m] = box[m]
<1>1. box \in [Names -> [st : {"none", "created", "running", "stopped"}, cfg : Configs \cup {None}]]
      /\ \A m \in Names : Exists(m) => box[m].cfg \in Configs
  BY DEF TypeOK
<1>2. box' \in [Names -> [st : {"none", "created", "running", "stopped"}, cfg : Configs \cup {None}]]
      /\ box'[n] = c /\ \A m \in Names \ {n} : box'[m] = box[m]
  BY <1>1
<1> QED BY <1>1, <1>2 DEF Exists

LEMMA BoxesAre ==
  ASSUME TypeOK, NEW n \in Names
  PROVE  /\ box[n] \in [st : {"none", "created", "running", "stopped"}, cfg : Configs \cup {None}]
         /\ Exists(n) => box[n].cfg \in Configs
         /\ sock[n] \in {"none", "empty", "used"} /\ reg[n] \in Configs \cup {None}
         /\ NoBox \in [st : {"none", "created", "running", "stopped"}, cfg : Configs \cup {None}]
         /\ NoBox.st = "none" /\ NoBox.cfg = None
BY DEF TypeOK, NoBox

LEMMA CreateKeeps == ASSUME IInv, NEW w \in Workers, Create(w) PROVE IInv'
<1>0. TypeOK /\ WorldTyped /\ Busy(w) /\ Head(work[w].script).do = "create" /\ UNCHANGED <<engine, fresh>> /\ Planned(work[w])
  BY Worlds DEF IInv, Create, At
<1>h. work[w].cfg \in Configs /\ On(w) \in Names /\ "register" \in Ahead(w) /\ ~work[w].removal
  <2>1. "create" \in Ahead(w) /\ "create" \in Creation /\ "create" \notin Removing
    BY <1>0, HeadFacts DEF Creation, Removing
  <2> QED BY <1>0, <2>1, HeadFacts
<1>1. CASE (Refuse(w) \/ Lost(w)) /\ UNCHANGED world
  BY <1>0, <1>1, LostKeeps, RefuseKeeps DEF Lost
<1>2. CASE /\ ~Exists(On(w))
           /\ box' = [box EXCEPT ![On(w)] = [st |-> "created", cfg |-> work[w].cfg]]
           /\ vol' = VolumesMade(work[w].cfg.vols, FALSE)
           /\ UNCHANGED <<spare, reg, home, xdg, sock, entry, icons>>
           /\ Changed(w) \/ Unheard(w)
  <2> DEFINE c == [st |-> "created", cfg |-> work[w].cfg]
  <2>1. c \in [st : {"none", "created", "running", "stopped"}, cfg : Configs \cup {None}] /\ c.cfg = work[w].cfg
    BY <1>h
  <2>2. /\ box' \in [Names -> [st : {"none", "created", "running", "stopped"}, cfg : Configs \cup {None}]]
        /\ \A m \in Names : Exists(m)' => box'[m].cfg \in Configs
        /\ box'[On(w)] = c /\ \A m \in Names \ {On(w)} : box'[m] = box[m]
    BY <1>0, <1>2, <1>h, <2>1, BoxTyped
  <2> HIDE DEF c
  <2>3. vol' \in [Volumes -> [there : BOOLEAN, ours : BOOLEAN, data : BOOLEAN]]
        /\ \A v \in Volumes : vol[v].there => vol'[v].there
    BY <1>0, <1>2, VolumesTyped
  <2>4. CASE Changed(w)
    <3>1. Moves(w) /\ Passes(work[w], work'[w]) /\ faults' = faults
      BY <1>0, <2>4, ChangedMoves DEF Succeeds
    <3>2. WorldTyped'
      BY <1>0, <1>2, <2>2, <2>3, <3>1 DEF WorldTyped
    <3>3. Busy(w)' /\ "register" \in Ahead(w)'
      BY <1>0, <1>h, <3>1, StillAhead
    <3>4. On(w)' = On(w) /\ work'[w].touched
      <4>1. work'[w].script # <<>>
        BY <3>3 DEF Busy
      <4> QED BY <1>0, <3>1, <3>3, <4>1, Still DEF Passes
    <3>5. Pending(On(w))'
      BY <3>3, <3>4 DEF Pending
    <3>6. \A n \in Names : n = On(w) => Pending(n)'
      BY <3>3, <3>4 DEF Pending
    <3>7. \A n \in Names : n = On(w) => box'[n].cfg = work[w].cfg
      BY <2>1, <2>2
    <3>8. reg' = reg /\ home' = home /\ xdg' = xdg /\ sock' = sock
      BY <1>2
    <3> QED BY <1>0, <1>h, <2>2, <2>3, <3>1, <3>2, <3>6, <3>7, <3>8, StepKeeps
  <2>5. CASE Unheard(w)
    <3>1. Moves(w) /\ Misses(w) /\ On(w) \in unsure'
      BY <1>0, <2>5, BreakMoves
    <3>2. WorldTyped'
      <4>1. faults' \in Nat
        BY <1>0, <2>5 DEF WorldTyped, Unheard, Fault
      <4>2. UNCHANGED <<spare, reg, home, xdg, sock, entry, icons, engine, fresh>>
        BY <1>0, <1>2
      <4> QED BY <4>1, <4>2, <1>0, <2>2, <2>3 DEF WorldTyped
    <3>8. reg' = reg /\ home' = home /\ xdg' = xdg /\ sock' = sock
      BY <1>2
    <3> QED BY <1>0, <1>h, <2>2, <2>3, <3>1, <3>2, <3>8, StepKeeps
  <2> QED BY <1>2, <2>4, <2>5
<1> QED BY <1>1, <1>2 DEF Create, Lost

\* A container that is there goes on with its configuration, or is gone.
LEMMA TurnKeeps ==
  ASSUME IInv, NEW w \in Workers, Busy(w), Advance(w) \/ Unheard(w),
         Head(work[w].script).do \in {"start", "restart", "stop", "remove"},
         NEW c \in [st : {"none", "created", "running", "stopped"}, cfg : Configs \cup {None}], Turn(w, c),
         IF Head(work[w].script).do = "remove" THEN c = NoBox ELSE Exists(On(w)) /\ c.st # "none" /\ c.cfg = box[On(w)].cfg,
         UNCHANGED <<engine, fresh>>,
         sock' \in [Names -> {"none", "empty", "used"}], \A n \in Names \ {On(w)} : sock'[n] = sock[n],
         Head(work[w].script).do \in {"start", "restart"} \/ sock' = sock
  PROVE  IInv'
<1> DEFINE h == Head(work[w].script).do
<1>0. TypeOK /\ WorldTyped /\ Planned(work[w])
  BY Worlds DEF IInv
<1>h. On(w) \in Names /\ h \in Ahead(w) /\ (work[w].removal => Ahead(w) \subseteq Removing)
  BY HeadFacts
<1>1. c.st # "none" => c.cfg \in Configs
  BY <1>0, <1>h, BoxesAre
<1>2. box' = [box EXCEPT ![On(w)] = c] /\ UNCHANGED <<spare, reg, home, xdg, entry, icons, vol>>
  BY DEF Turn
<1>3. /\ box' \in [Names -> [st : {"none", "created", "running", "stopped"}, cfg : Configs \cup {None}]]
      /\ \A m \in Names : Exists(m)' => box'[m].cfg \in Configs
      /\ box'[On(w)] = c /\ \A m \in Names \ {On(w)} : box'[m] = box[m]
  BY <1>0, <1>1, <1>2, <1>h, BoxTyped
<1>4. Moves(w) /\ (faults' = faults \/ Fault)
  BY <1>0, AdvanceMoves, BreakMoves DEF Unheard
<1>5. WorldTyped'
  BY <1>0, <1>2, <1>3, <1>4 DEF WorldTyped, Fault
<1>6. \A n \in Names : n = On(w) /\ Exists(n)' => Exists(n) /\ box'[n].cfg = box[n].cfg
  BY <1>3 DEF Exists, NoBox
<1>7. \A n \in Names : n = On(w) => (Truth(n) => Truth(n)')
  BY <1>2, <1>6 DEF Truth
<1>8. work[w].removal => h = "remove"
  BY <1>h DEF Removing
<1>9. h \notin {"prescan", "read", "register", "unregister", "create", "rebuild", "undir"}
  OBVIOUS
<1>10. \A n \in Names : n = On(w) => /\ h \in {"start", "restart", "rebuild"} \/ sock'[n] \in {sock[n], "none"}
                                     /\ work[w].removal => box'[n] = NoBox
  BY <1>3, <1>8
<1>11. h = "remove" => \A n \in Names : n = On(w) => box'[n] = NoBox
  BY <1>3
<1> HIDE DEF h
<1>12. \A v \in Volumes : vol[v].there => vol'[v].there
  BY <1>2
<1>13. \A n \in Names \ {On(w)} : box'[n] = box[n] /\ sock'[n] \in {sock[n], "none"}
  BY <1>3
<1>14. reg' = reg /\ home' = home /\ xdg' = xdg
  BY <1>2
<1> QED BY <1>4, <1>5, <1>6, <1>7, <1>9, <1>10, <1>11, <1>12, <1>13, <1>14, StepKeeps DEF h

LEMMA StartKeeps == ASSUME IInv, NEW w \in Workers, Start(w) PROVE IInv'
<1>0. TypeOK /\ Busy(w) /\ Head(work[w].script).do \in {"start", "restart"} /\ UNCHANGED <<engine, fresh>>
  BY DEF IInv, Start, At
<1>1. CASE (Refuse(w) \/ Lost(w)) /\ UNCHANGED world
  BY <1>0, <1>1, LostKeeps, RefuseKeeps DEF Lost
<1>2. CASE /\ Startable(w) /\ Turn(w, [box[On(w)] EXCEPT !.st = "running"])
           /\ sock' = [sock EXCEPT ![On(w)] = "used"] /\ (Advance(w) \/ Unheard(w))
  <2> DEFINE c == [box[On(w)] EXCEPT !.st = "running"]
  <2>1. On(w) \in Names /\ box[On(w)] \in [st : {"none", "created", "running", "stopped"}, cfg : Configs \cup {None}]
    BY <1>0, HeadFacts, BoxesAre
  <2>2. c \in [st : {"none", "created", "running", "stopped"}, cfg : Configs \cup {None}]
        /\ c.st = "running" /\ c.cfg = box[On(w)].cfg
    BY <2>1
  <2>3. sock' \in [Names -> {"none", "empty", "used"}] /\ \A n \in Names \ {On(w)} : sock'[n] = sock[n]
    BY <1>0, <1>2 DEF TypeOK
  <2>4. Exists(On(w)) /\ Turn(w, c)
    BY <1>2 DEF Startable
  <2> HIDE DEF c
  <2> QED BY <1>0, <1>2, <2>2, <2>3, <2>4, TurnKeeps
<1> QED BY <1>1, <1>2 DEF Start, Lost

LEMMA StopKeeps == ASSUME IInv, NEW w \in Workers, Stop(w) PROVE IInv'
<1>0. TypeOK /\ Busy(w) /\ Head(work[w].script).do = "stop" /\ UNCHANGED <<engine, fresh>>
  BY DEF IInv, Stop, At
<1>1. CASE (Refuse(w) \/ Lost(w)) /\ UNCHANGED world
  BY <1>0, <1>1, LostKeeps, RefuseKeeps DEF Lost
<1>2. CASE Runs(On(w)) /\ Turn(w, [box[On(w)] EXCEPT !.st = "stopped"]) /\ UNCHANGED sock /\ (Advance(w) \/ Unheard(w))
  <2> DEFINE c == [box[On(w)] EXCEPT !.st = "stopped"]
  <2>1. On(w) \in Names /\ box[On(w)] \in [st : {"none", "created", "running", "stopped"}, cfg : Configs \cup {None}]
    BY <1>0, HeadFacts, BoxesAre
  <2>2. c \in [st : {"none", "created", "running", "stopped"}, cfg : Configs \cup {None}]
        /\ c.st = "stopped" /\ c.cfg = box[On(w)].cfg
    BY <2>1
  <2>3. sock' \in [Names -> {"none", "empty", "used"}] /\ sock' = sock
    BY <1>0, <1>2 DEF TypeOK
  <2>4. Exists(On(w)) /\ Turn(w, c)
    BY <1>2 DEF Runs, Exists
  <2> HIDE DEF c
  <2> QED BY <1>0, <1>2, <2>2, <2>3, <2>4, TurnKeeps
<1> QED BY <1>1, <1>2 DEF Stop, Lost

LEMMA RemoveKeeps == ASSUME IInv, NEW w \in Workers, Remove(w) PROVE IInv'
<1>0. TypeOK /\ Busy(w) /\ Head(work[w].script).do = "remove" /\ UNCHANGED <<engine, fresh>>
  BY DEF IInv, Remove, At
<1>1. CASE Lost(w)
  BY <1>0, <1>1, LostKeeps DEF Lost
<1>2. CASE Turn(w, NoBox) /\ UNCHANGED sock /\ (Advance(w) \/ Unheard(w))
  <2>1. NoBox \in [st : {"none", "created", "running", "stopped"}, cfg : Configs \cup {None}]
    BY DEF NoBox
  <2>2. sock' \in [Names -> {"none", "empty", "used"}] /\ sock' = sock
    BY <1>0, <1>2 DEF TypeOK
  <2> QED BY <1>0, <1>2, <2>1, <2>2, TurnKeeps
<1>3. CASE Refuse(w) /\ UNCHANGED world
  BY <1>0, <1>3, RefuseKeeps
<1> QED BY <1>1, <1>2, <1>3 DEF Remove

LEMMA RebuildKeeps == ASSUME IInv, NEW w \in Workers, Rebuild(w) PROVE IInv'
<1>0. TypeOK /\ WorldTyped /\ Busy(w) /\ Head(work[w].script).do = "rebuild" /\ Planned(work[w])
      /\ UNCHANGED <<reg, home, xdg, entry, icons, engine, fresh>> /\ Registers(w)
  BY Worlds DEF IInv, Rebuild, At
<1>h. /\ work[w].cfg \in Configs /\ On(w) \in Names /\ "rebuild" \in Ahead(w) /\ ~work[w].removal
      /\ box[On(w)] \in [st : {"none", "created", "running", "stopped"}, cfg : Configs \cup {None}]
      /\ Exists(On(w)) => box[On(w)].cfg \in Configs
  <2>1. "rebuild" \notin Removing
    BY DEF Removing
  <2> QED BY <1>0, <2>1, HeadFacts, BoxesAre
<1>m. /\ sock \in [Names -> {"none", "empty", "used"}]
      /\ vol \in [Volumes -> [there : BOOLEAN, ours : BOOLEAN, data : BOOLEAN]]
  BY <1>0 DEF WorldTyped
\* The new container is in the old one's place.
<1>1. CASE /\ Exists(On(w))
           /\ box' = [box EXCEPT ![On(w)] = [st |-> "running", cfg |-> work[w].cfg]]
           /\ spare' = spare \ {On(w)}
           /\ sock' = [sock EXCEPT ![On(w)] = "used"]
           /\ vol' = VolumesMade(work[w].cfg.vols, TRUE)
           /\ Changed(w) \/ Unheard(w)
  <2> DEFINE c == [st |-> "running", cfg |-> work[w].cfg]
  <2>1. c \in [st : {"none", "created", "running", "stopped"}, cfg : Configs \cup {None}] /\ c.cfg = work[w].cfg
    BY <1>h
  <2>2. /\ box' \in [Names -> [st : {"none", "created", "running", "stopped"}, cfg : Configs \cup {None}]]
        /\ \A m \in Names : Exists(m)' => box'[m].cfg \in Configs
        /\ box'[On(w)] = c /\ \A m \in Names \ {On(w)} : box'[m] = box[m]
    BY <1>0, <1>1, <1>h, <2>1, BoxTyped
  <2> HIDE DEF c
  <2>3. vol' \in [Volumes -> [there : BOOLEAN, ours : BOOLEAN, data : BOOLEAN]]
        /\ \A v \in Volumes : vol[v].there => vol'[v].there
    BY <1>0, <1>1, VolumesTyped
  <2>4. sock' \in [Names -> {"none", "empty", "used"}] /\ \A n \in Names \ {On(w)} : sock'[n] = sock[n]
    BY <1>1, <1>m
  <2>5. spare' \subseteq Names
    BY <1>0, <1>1 DEF WorldTyped
  <2>6. faults' \in Nat /\ Moves(w)
    <3>1. CASE Changed(w)
      BY <1>0, <3>1, ChangedMoves DEF WorldTyped
    <3>2. CASE Unheard(w)
      <4>1. faults' \in Nat
        BY <1>0, <3>2 DEF WorldTyped, Unheard, Fault
      <4> QED BY <4>1, <1>0, <3>2, BreakMoves
    <3> QED BY <1>1, <3>1, <3>2
  <2>7. WorldTyped'
    BY <1>0, <2>2, <2>3, <2>4, <2>5, <2>6 DEF WorldTyped
  <2>8. reg' = reg /\ home' = home /\ xdg' = xdg
    BY <1>0
  <2>9. \A n \in Names \ {On(w)} : box'[n] = box[n] /\ sock'[n] \in {sock[n], "none"}
    BY <2>2, <2>4
  <2>10. ASSUME NEW n \in Names, n = On(w), n \notin raced' \cup unsure' PROVE Truth(n)' \/ Pending(n)'
    <3>1. Changed(w)
      BY <1>0, <1>1, <2>10, BreakMoves
    <3>2. Passes(work[w], work'[w]) /\ n \notin raced \cup unsure
      BY <1>0, <2>10, <3>1, ChangedMoves DEF Succeeds, Moves
    <3>3. CASE "register" \in Ahead(w)
      <4>1. Busy(w)' /\ "register" \in Ahead(w)'
        BY <1>0, <3>2, <3>3, StillAhead
      <4>2. On(w)' = On(w) /\ work'[w].touched
        <5>1. work'[w].script # <<>>
          BY <4>1 DEF Busy
        <5> QED BY <1>0, <2>6, <3>2, <4>1, <5>1, Still DEF Passes
      <4> QED BY <4>1, <4>2, <2>10 DEF Pending
    <3>4. CASE "register" \notin Ahead(w)
      <4>1. "read" \notin Ahead(w)
        <5>1. ASSUME "read" \in Ahead(w) PROVE FALSE
          <6>1. Busy(w)' /\ "read" \in Ahead(w)'
            BY <1>0, <3>2, <5>1, StillAhead
          <6>2. \A b \in Ahead(w)' : ~Barred("rebuild", b)
            BY <1>0, <2>6, <6>1, MovedAhead DEF Creation
          <6> QED BY <6>1, <6>2 DEF Barred
        <5> QED BY <5>1
      <4>2. reg[n] = work[w].cfg
        BY <1>0, <1>h, <3>2, <3>4, <4>1, <2>10 DEF Registers
      <4>3. reg'[n] = box'[n].cfg
        BY <4>2, <2>1, <2>2, <2>8, <2>10
      <4> QED BY <4>3 DEF Truth
    <3> QED BY <3>3, <3>4
  <2>11. \A n \in Names : n = On(w) => box'[n].cfg = work[w].cfg
    BY <2>1, <2>2
  <2>12. \A n \in Names : n = On(w) => n \in raced' \cup unsure' \/ (Truth(n) => Truth(n)' \/ Pending(n)')
    BY <2>10
  <2> QED BY <1>0, <1>h, <2>3, <2>6, <2>7, <2>8, <2>9, <2>11, <2>12, StepKeeps
\* There is none.
<1>2. CASE ~Exists(On(w)) /\ spare' = spare \ {On(w)} /\ Refuse(w) /\ UNCHANGED <<box, sock, vol>>
  <2>1. Moves(w) /\ Misses(w) /\ faults' = faults
    BY <1>0, <1>2, RefuseMoves DEF Refuse
  <2>2. WorldTyped' /\ Quiet
    BY <1>0, <1>2, <2>1 DEF WorldTyped, Quiet, Exists
  <2> QED BY <1>0, <1>2, <2>1, <2>2, MissKeeps
\* The old one is still there, or the new one has only got the other name.
<1>3. ASSUME Exists(On(w)), Break(w), UNCHANGED vol,
             NEW c \in [st : {"none", "created", "running", "stopped"}, cfg : Configs \cup {None}],
             box' = [box EXCEPT ![On(w)] = c], c = NoBox \/ c.cfg = box[On(w)].cfg,
             spare' \subseteq spare \cup {On(w)},
             sock' = [sock EXCEPT ![On(w)] = IF box'[On(w)].st = "running" THEN "used" ELSE @]
      PROVE  IInv'
  <2>1. c.st # "none" => c.cfg \in Configs
    BY <1>3, <1>h DEF NoBox
  <2>2. /\ box' \in [Names -> [st : {"none", "created", "running", "stopped"}, cfg : Configs \cup {None}]]
        /\ \A m \in Names : Exists(m)' => box'[m].cfg \in Configs
        /\ box'[On(w)] = c /\ \A m \in Names \ {On(w)} : box'[m] = box[m]
    BY <1>0, <1>3, <1>h, <2>1, BoxTyped
  <2>3. sock' \in [Names -> {"none", "empty", "used"}] /\ \A n \in Names \ {On(w)} : sock'[n] = sock[n]
    BY <1>3, <1>m
  <2>4. Moves(w) /\ Misses(w) /\ faults' \in Nat
    BY <1>0, <1>3, BreakMoves DEF Break, Fault, WorldTyped
  <2>5. WorldTyped'
    <3>1. spare' \subseteq Names
      BY <1>0, <1>h, <1>3 DEF WorldTyped
    <3> QED BY <1>0, <1>3, <2>2, <2>3, <2>4, <3>1 DEF WorldTyped
  <2>6. ~Busy(w)'
    BY <1>0, <2>4, MustMisses DEF Creation
  <2>7. ASSUME NEW n \in Names, n = On(w), Truth(n) PROVE Truth(n)'
    BY <1>0, <1>3, <2>2, <2>7 DEF Truth, Exists, NoBox
  <2>8. \A n \in Names \ {On(w)} : box'[n] = box[n] /\ sock'[n] \in {sock[n], "none"}
    BY <2>2, <2>3
  <2>9. reg' = reg /\ home' = home /\ xdg' = xdg /\ vol' = vol
    BY <1>0, <1>3
  <2> QED BY <1>0, <2>4, <2>5, <2>6, <2>7, <2>8, <2>9, StepKeeps
<1>4. ASSUME NEW st \in {"running", "stopped"}, Exists(On(w)), box' = [box EXCEPT ![On(w)].st = st], spare' = spare \ {On(w)},
             Break(w), UNCHANGED vol,
             sock' = [sock EXCEPT ![On(w)] = IF box'[On(w)].st = "running" THEN "used" ELSE @]
      PROVE  IInv'
  <2> DEFINE c == [box[On(w)] EXCEPT !.st = st]
  <2>1. c \in [st : {"none", "created", "running", "stopped"}, cfg : Configs \cup {None}] /\ c.cfg = box[On(w)].cfg
    BY <1>h
  <2>2. box' = [box EXCEPT ![On(w)] = c]
    BY <1>4
  <2> HIDE DEF c
  <2> QED BY <1>3, <1>4, <2>1, <2>2
<1>5. CASE /\ Exists(On(w)) /\ box' = [box EXCEPT ![On(w)] = NoBox] /\ spare' = spare \cup {On(w)}
           /\ Break(w) /\ UNCHANGED vol
           /\ sock' = [sock EXCEPT ![On(w)] = IF box'[On(w)].st = "running" THEN "used" ELSE @]
  <2>1. NoBox \in [st : {"none", "created", "running", "stopped"}, cfg : Configs \cup {None}]
    BY DEF NoBox
  <2> QED BY <1>3, <1>5, <2>1
<1> QED BY <1>1, <1>2, <1>4, <1>5 DEF Rebuild

(***************************************************************************)
(* The registry                                                            *)
(***************************************************************************)
LEMMA RegistryKeeps ==
  ASSUME IInv, NEW w \in Workers, Moves(w), WorldTyped', UNCHANGED <<box, sock, vol>>,
         Head(work[w].script).do \in {"open", "register", "unregister"},
         \A n \in Names \ (raced' \cup unsure') : Truth(n) => Truth(n)',
         Head(work[w].script).do = "register" => \A n \in Names : n = On(w) => n \in raced' \cup unsure' \/ Truth(n)',
         \A n \in Names : Head(work[w].script).do = "open" \/ n # On(w) => (reg[n] # None => reg'[n] = reg[n])
  PROVE  IInv'
<1> DEFINE h == Head(work[w].script).do
<1>1. \A n \in Names : /\ Exists(n)' <=> Exists(n)
                       /\ sock'[n] \in {sock[n], "none"} /\ box'[n] = box[n]
  BY DEF Exists
<1>2. Busy(w)' => work'[w].cfg \in Configs
  BY SameCfg
<1>3. TypeOK'
  BY <1>2, TypeKept
<1>4. Raced' /\ \A u \in Workers : Busy(u)' => Planned(work'[u])
  BY <1>2, MovesKeep
<1>5. Honest'
  BY HonestKept
<1>6. \A u \in Workers : Busy(u)' => Registers(u)'
  <2>1. ASSUME NEW n \in Names \ (raced' \cup unsure'), n = On(w), Busy(w)'
        PROVE  /\ Exists(n)' /\ work'[w].touched =>
                    IF h \in {"create", "rebuild"} THEN box'[n].cfg = work[w].cfg
                                                   ELSE Exists(n) /\ box'[n].cfg = box[n].cfg
               /\ h \notin {"register", "unregister"} /\ reg[n] # None => reg'[n] = reg[n]
               /\ h = "read" => work'[w].cfg = reg'[n]
    BY <2>1, <1>1
  <2>2. \A n \in Names \ {On(w)} : /\ Exists(n)' => Exists(n) /\ box'[n].cfg = box[n].cfg
                                   /\ reg[n] # None => reg'[n] = reg[n]
    BY <1>1
  <2> QED BY <2>1, <2>2, <1>2, RegistersKept
<1>7. \A u \in Workers : Busy(u)' => Makes(u)'
  <2>1. \A u \in Workers : \A v \in work'[u].seen : v \in Volumes /\ (vol[v].there => vol'[v].there)
    BY SeenKept DEF Moves
  <2> QED BY <2>1, <1>1, MakesKept
<1>8. \A u \in Workers : Busy(u)' => Removes(u)'
  BY <1>1, RemovesKept
<1> QED BY <1>3, <1>4, <1>5, <1>6, <1>7, <1>8 DEF IInv

LEMMA RegisterKeeps == ASSUME IInv, NEW w \in Workers, Register(w) PROVE IInv'
<1> DEFINE h == Head(work[w].script).do
<1>0. TypeOK /\ WorldTyped /\ Busy(w) /\ h \in {"register", "unregister"} /\ UNCHANGED <<engine, fresh>>
  BY Worlds DEF IInv, Register, At
<1>1. CASE Lost(w)
  BY <1>0, <1>1, LostKeeps DEF Lost
<1>2. CASE /\ reg' = [reg EXCEPT ![On(w)] = IF At(w, "register") THEN work[w].cfg ELSE None]
           /\ UNCHANGED <<box, spare, home, xdg, sock, entry, icons, vol>> /\ Advance(w)
  <2>1. Moves(w) /\ Passes(work[w], work'[w]) /\ faults' = faults /\ unsure' = unsure /\ raced' = raced
    BY <1>0, <1>2, AdvanceMoves DEF Succeeds, Moves
  <2>2. On(w) \in Names /\ work[w].cfg \in Configs /\ h \in Ahead(w)
    BY <1>0, HeadFacts
  <2>3. reg' \in [Names -> Configs \cup {None}]
    BY <1>0, <1>2, <2>2 DEF WorldTyped
  <2>4. WorldTyped'
    BY <1>0, <1>2, <2>1, <2>3 DEF WorldTyped, Exists
  <2>5. \A n \in Names : n # On(w) => reg'[n] = reg[n]
    BY <1>0, <1>2 DEF WorldTyped
  <2>6. reg'[On(w)] = IF h = "register" THEN work[w].cfg ELSE None
    BY <1>0, <1>2, <2>2 DEF WorldTyped, At
  <2>t. ASSUME NEW k \in {"create", "rebuild", "remove"}, k \in Ahead(w), Barred(h, k) PROVE FALSE
    <3>1. Busy(w)' /\ k \in Ahead(w)'
      BY <1>0, <2>1, <2>t, StillAhead
    <3> QED BY <1>0, <2>1, <2>t, <3>1, MovedAhead DEF Creation
  <2>7. ASSUME NEW n \in Names, n = On(w), n \notin raced' \cup unsure' PROVE Truth(n)'
    <3>1. CASE h = "register"
      <4>1. {"create", "rebuild"} \cap Ahead(w) = {}
        BY <3>1, <2>t DEF Barred
      <4>2. work[w].touched
        BY <4>1, <1>0, <2>2, <3>1, HeadFacts
      <4>3. Exists(n) => box[n].cfg = work[w].cfg
        BY <4>2, <1>0, <2>1, <2>7 DEF IInv, Registers
      <4> QED BY <4>3, <3>1, <2>6, <2>7, <1>2 DEF Truth, Exists
    <3>2. CASE h = "unregister"
      <4>1. "remove" \notin Ahead(w)
        BY <3>2, <2>t DEF Barred
      <4>2. work[w].removal
        BY <1>0, <2>2, <3>2, HeadFacts
      <4>3. box[n] = NoBox
        BY <4>1, <4>2, <1>0, <2>1, <2>7 DEF IInv, Removes
      <4> QED BY <4>3, <1>2 DEF Truth, Exists, NoBox
    <3> QED BY <1>0, <3>1, <3>2
  <2>8. ASSUME NEW n \in Names \ (raced' \cup unsure'), Truth(n) PROVE Truth(n)'
    <3>1. CASE n = On(w)
      BY <2>7, <3>1
    <3>2. CASE n # On(w)
      BY <1>2, <2>5, <2>8, <3>2 DEF Truth, Exists
    <3> QED BY <3>1, <3>2
  <2>9. UNCHANGED <<box, sock, vol>>
    BY <1>2
  <2> QED BY <1>0, <2>1, <2>4, <2>5, <2>7, <2>8, <2>9, RegistryKeeps
<1> QED BY <1>1, <1>2 DEF Register

LEMMA OpenKeeps == ASSUME IInv, NEW w \in Workers, Open(w) PROVE IInv'
<1> DEFINE h == Head(work[w].script).do
<1>0. TypeOK /\ WorldTyped /\ Busy(w) /\ h = "open" /\ UNCHANGED <<box, spare, xdg, sock, entry, icons, vol, engine>>
  BY Worlds DEF IInv, Open, At
<1>1. Moves(w) /\ faults' \in Nat
  <2>1. CASE Advance(w)
    BY <1>0, <2>1, AdvanceMoves DEF WorldTyped
  <2>2. CASE Fault /\ Become(w, Stepped(Hurt(w))) /\ UNCHANGED past
    <3>1. Before(work[w], Hurt(w))
      BY <1>0, SameBefore
    <3>2. Moves(w)
      BY <1>0, <2>2, <3>1, PassMoves DEF past
    <3> QED BY <1>0, <2>2, <3>2 DEF Fault, WorldTyped
  <2> QED BY <2>1, <2>2 DEF Open
<1>2. Copied \subseteq home \cup xdg
  BY DEF Copied
<1>3. OldCfg \in Configs
  BY EnvironmentAssumption DEF OldCfg
<1>4. /\ reg \in [Names -> Configs \cup {None}] /\ fresh \subseteq Workers
  BY <1>0 DEF WorldTyped
<1>5. /\ home' \subseteq home \cup xdg
      /\ fresh' \subseteq fresh
      /\ reg' \in [Names -> Configs \cup {None}]
      /\ \A n \in Names : reg'[n] = reg[n] \/ (reg[n] = None /\ n \in home \cup xdg /\ reg'[n] = OldCfg)
  BY <1>2, <1>3, <1>4 DEF Open
<1>6. WorldTyped'
  BY <1>0, <1>1, <1>5 DEF WorldTyped, Exists
<1>7. ASSUME NEW n \in Names, Truth(n) PROVE Truth(n)'
  <2>1. Exists(n) => box[n].cfg \in Configs /\ box[n].cfg # None
    BY <1>0, EnvironmentAssumption DEF WorldTyped
  <2>2. box' = box /\ xdg' = xdg
    BY <1>0
  <2> QED BY <2>1, <2>2, <1>5, <1>7 DEF Truth, Exists
<1>8. UNCHANGED <<box, sock, vol>>
  BY <1>0
<1>9. \A n \in Names : reg[n] # None => reg'[n] = reg[n]
  BY <1>5
<1> QED BY <1>0, <1>1, <1>6, <1>7, <1>8, <1>9, RegistryKeeps

(***************************************************************************)
(* Commands begin and are cut off; around the program                      *)
(***************************************************************************)
LEMMA BeginKeeps ==
  ASSUME IInv, NEW w \in Workers, NEW op \in Ops, NEW n \in Names, NEW c \in Configs, Begin(w, op, n, c)
  PROVE  IInv'
<1>20. /\ \E force \in Forces(op) :
              Become(w, [Idle EXCEPT !.script = Handler[op], !.name = n, !.cfg = c,
                                    !.removal = op \in Removals, !.force = force, !.overlaps = op \in Overlapping,
                                    !.had = op \in Given /\ sock[n] # "none",
                                    !.seen = {v \in c.vols : vol[v].there}, !.status = "busy"])
      /\ ~Busy(w) /\ begun' = begun + 1
      /\ raced' = (IF \E o \in Workers : Busy(o) /\ On(o) = n THEN raced \cup {n} ELSE raced)
      /\ fresh' = (IF w = Cli THEN fresh \cup {Cli} ELSE fresh)
      /\ UNCHANGED <<world, engine, unsure, faults>>
  BY DEF Begin
<1> DEFINE s == Handler[op]
<1>21. PICK force \in Forces(op) :
          Become(w, [Idle EXCEPT !.script = s, !.name = n, !.cfg = c,
                                 !.removal = op \in Removals, !.force = force, !.overlaps = op \in Overlapping,
                                 !.had = op \in Given /\ sock[n] # "none",
                                 !.seen = {v \in c.vols : vol[v].there}, !.status = "busy"])
  BY <1>20
<1>22. force \in BOOLEAN
  BY DEF Forces
<1> DEFINE q == [Idle EXCEPT !.script = s, !.name = n, !.cfg = c,
                             !.removal = op \in Removals, !.force = force, !.overlaps = op \in Overlapping,
                             !.had = op \in Given /\ sock[n] # "none",
                             !.seen = {v \in c.vols : vol[v].there}, !.status = "busy"]
<1>0. /\ TypeOK /\ WorldTyped /\ Raced /\ Honest /\ ~Busy(w) /\ Become(w, q) /\ begun' = begun + 1
      /\ raced' = (IF \E o \in Workers : Busy(o) /\ On(o) = n THEN raced \cup {n} ELSE raced)
      /\ fresh' = (IF w = Cli THEN fresh \cup {Cli} ELSE fresh)
      /\ UNCHANGED <<world, engine, unsure, faults>>
  BY <1>20, <1>21, Worlds DEF IInv
<1>1. Handles(op, s)
  BY HandlerHandles, OpsAssumption
<1>2. c.vols \subseteq Volumes
  BY EnvironmentAssumption
<1>3. /\ q \in Work /\ q.script = s /\ q.name = n /\ q.cfg = c /\ q.removal = (op \in Removals)
      /\ q.had = (op \in Given /\ sock[n] # "none") /\ q.seen = {v \in c.vols : vol[v].there}
      /\ q.status = "busy" /\ q.mine = {} /\ q.touched = FALSE /\ q.doomed = FALSE /\ q.lied = FALSE
  <2>1. s \in Seq(Steps)
    BY <1>1 DEF Handles
  <2>2. (op \in Given /\ sock[n] # "none") \in BOOLEAN /\ (op \in Removals) \in BOOLEAN /\ (op \in Overlapping) \in BOOLEAN
    OBVIOUS
  <2> HIDE DEF s
  <2> QED BY <1>2, <1>22, <2>1, <2>2 DEF Idle, Work
<1> HIDE DEF q, s
<1>4. work'[w] = q /\ work' \in [Workers -> Work] /\ \A o \in Workers : o # w => work'[o] = work[o]
  BY <1>0, <1>3, BecomeMoves
<1>5. /\ box' = box /\ reg' = reg /\ sock' = sock /\ home' = home /\ xdg' = xdg /\ spare' = spare
      /\ vol' = vol /\ entry' = entry /\ icons' = icons /\ unsure' = unsure /\ raced \subseteq raced'
  BY <1>0 DEF world
<1>6. TypeOK'
  <2>1. WorldTyped'
    BY <1>0, <1>5 DEF WorldTyped, Exists, Workers
  <2>2. raced' \cup unsure' \subseteq Names \cup {None} /\ begun' \in Nat
    BY <1>0 DEF TypeOK
  <2>3. ASSUME NEW u \in Workers, Busy(u)'
        PROVE  On(u)' \in Names /\ work'[u].cfg \in Configs /\ work'[u].status = "busy"
    <3>1. CASE u = w
      BY <3>1, <1>3, <1>4 DEF On
    <3>2. CASE u # w
      BY <3>2, <1>0, <1>4, <2>3 DEF On, Busy, TypeOK
    <3> QED BY <3>1, <3>2
  <2> QED BY <2>1, <2>2, <2>3, <1>4 DEF WorldTyped, TypeOK
<1>7. Raced'
  <2> SUFFICES ASSUME NEW u \in Workers, NEW o \in Workers, u # o, Busy(u)', Busy(o)', On(u)' = On(o)'
               PROVE  On(u)' \in raced'
    BY DEF Raced
  <2>1. CASE u # w /\ o # w
    BY <2>1, <1>0, <1>4, <1>5 DEF Raced, Busy, On
  <2>2. ASSUME NEW x \in Workers, x # w, Busy(x)', On(x)' = n PROVE n \in raced'
    BY <2>2, <1>0, <1>4 DEF Busy, On
  <2>3. On(w)' = n
    BY <1>3, <1>4 DEF On
  <2> QED BY <2>1, <2>2, <2>3
<1>8. Honest'
  <2> SUFFICES ASSUME NEW m \in Names \ (raced' \cup unsure') PROVE Truth(m)' \/ Pending(m)'
    BY DEF Honest, Pending
  <2>1. CASE Truth(m)
    BY <2>1, <1>5 DEF Truth, Exists
  <2>2. ASSUME NEW u \in Workers, Busy(u), On(u) = m, work[u].touched, "register" \in Ahead(u) PROVE Pending(m)'
    <3>1. u # w
      BY <2>2, <1>0
    <3> QED BY <2>2, <3>1, <1>4 DEF Pending, Busy, On, Ahead
  <2> QED BY <2>1, <2>2, <1>0, <1>5 DEF Honest
<1>9. ASSUME NEW u \in Workers, Busy(u)' PROVE Planned(work'[u]) /\ Registers(u)' /\ Makes(u)' /\ Removes(u)'
  <2>1. CASE u # w
    <3>1. /\ work'[u] = work[u] /\ Busy(u) /\ On(u)' = On(u) /\ Ahead(u)' = Ahead(u)
      BY <2>1, <1>4, <1>9 DEF Busy, On, Ahead
    <3>2. Planned(work[u]) /\ Registers(u) /\ Makes(u) /\ Removes(u)
      BY <3>1 DEF IInv
    <3>3. Registers(u)'
      BY <3>1, <3>2, <1>5 DEF Registers, Exists
    <3>4. Makes(u)'
      BY <3>1, <3>2, <1>5 DEF Makes
    <3>5. Removes(u)'
      BY <3>1, <3>2, <1>5 DEF Removes
    <3> QED BY <3>1, <3>2, <3>3, <3>4, <3>5
  <2>2. CASE u = w
    <3>1. Ahead(w)' = Words(s) /\ On(w)' = n
      BY <1>3, <1>4 DEF Ahead, On
    <3>2. Planned(q)
      BY <1>1, <1>3 DEF Planned, Handles
    <3>3. Registers(w)'
      <4>1. "rebuild" \in Words(s) => {"register", "read"} \cap Words(s) # {}
        BY <1>1 DEF Handles
      <4> QED BY <4>1, <3>1, <1>3, <1>4 DEF Registers
    <3>4. Makes(w)'
      <4>1. "create" \in Words(s) => op \in Given
        BY <1>1 DEF Handles, Creation
      <4>2. ~q.had => ("create" \in Words(s) => sock[n] = "none")
        BY <4>1, <1>3
      <4> QED BY <4>2, <3>1, <1>3, <1>4, <1>5 DEF Makes
    <3>5. Removes(w)'
      <4>1. op \in Removals => "remove" \in Words(s)
        BY <1>1 DEF Handles
      <4> QED BY <4>1, <3>1, <1>3, <1>4 DEF Removes
    <3> QED BY <2>2, <1>4, <3>2, <3>3, <3>4, <3>5
  <2> QED BY <2>1, <2>2
<1> QED BY <1>6, <1>7, <1>8, <1>9 DEF IInv

LEMMA IdleRecord == Idle \in Work /\ Idle.script = <<>> /\ Idle.seen = {} /\ Idle.status = "idle" /\ Idle.hurt = FALSE
BY EnvironmentAssumption DEF Idle, Work

LEMMA DieKeeps == ASSUME IInv, NEW w \in Workers, Die(w) PROVE IInv' /\ Moves(w) /\ work'[w] = Idle
<1>0. TypeOK /\ WorldTyped /\ Busy(w) /\ Fault /\ Become(w, Idle) /\ fresh' = fresh \cup {w}
      /\ Blame(w, work[w].touched) /\ UNCHANGED <<world, engine, raced, begun>>
  BY Worlds DEF IInv, Die
<1>1. unsure \subseteq unsure' /\ unsure' \subseteq unsure \cup {On(w)} /\ (work[w].touched => On(w) \in unsure')
  BY <1>0 DEF Blame
<1>2. Moves(w) /\ work'[w] = Idle
  BY <1>0, <1>1, IdleRecord, DoneMoves
<1>3. /\ box' = box /\ reg' = reg /\ sock' = sock /\ home' = home /\ xdg' = xdg /\ spare' = spare
      /\ vol' = vol /\ entry' = entry /\ icons' = icons /\ faults' \in Nat
  BY <1>0 DEF world, Fault, WorldTyped
<1>4. WorldTyped' /\ Quiet
  BY <1>0, <1>3 DEF WorldTyped, Quiet, Exists
<1>5. ~Busy(w)'
  BY <1>2, IdleRecord DEF Busy
<1>6. \A u \in Workers : \A v \in work'[u].seen : v \in Volumes /\ (vol[v].there => vol'[v].there)
  BY <1>2, <1>3, SeenKept DEF Moves
<1>7. Head(work[w].script).do = "register" => On(w) \in unsure'
  <2> SUFFICES ASSUME Head(work[w].script).do = "register" PROVE work[w].touched
    BY <1>1
  <2>1. work[w] \in Work /\ work[w].script # <<>> /\ Planned(work[w]) /\ "register" \in Ahead(w)
    BY <1>0, RecordFacts, HeadFacts DEF IInv
  <2>2. {"create", "rebuild"} \cap Ahead(w) = {}
    <3> DEFINE h == Head(work[w].script).do
    <3>1. Words(work[w].script) = {h} \cup Words(Tail(work[w].script))
          /\ \A b \in Words(Tail(work[w].script)) : ~Barred(h, b)
      BY <2>1, Ahead1
    <3>2. h = "register"
      OBVIOUS
    <3> HIDE DEF h
    <3> QED BY <3>1, <3>2 DEF Barred, Ahead
  <2> QED BY <1>0, <2>1, <2>2, HeadFacts
<1> QED BY <1>2, <1>4, <1>5, <1>6, <1>7, QuietKeeps

\* Steps of nobody's command.
LEMMA OutsideKeeps ==
  ASSUME IInv, WorldTyped', UNCHANGED <<reg, home, xdg, sock, work, unsure, begun>>,
         raced \subseteq raced', raced' \subseteq Names \cup {None},
         \A v \in Volumes : vol[v].there => vol'[v].there,
         \A n \in Names : Exists(n)' => Exists(n) /\ box'[n].cfg = box[n].cfg,
         \A n \in Names : box[n] = NoBox => box'[n] = NoBox
  PROVE  IInv'
<1>0. TypeOK /\ Raced /\ Honest /\ work \in [Workers -> Work]
  BY DEF IInv, TypeOK
<1>1. \A u \in Workers : /\ work'[u] = work[u] /\ On(u)' = On(u) /\ Ahead(u)' = Ahead(u) /\ (Busy(u)' <=> Busy(u))
                         /\ work[u].seen \subseteq Volumes /\ (Busy(u) => On(u) \in Names)
  BY <1>0 DEF On, Ahead, Busy, TypeOK, Work
<1>2. TypeOK'
  BY <1>0, <1>1 DEF TypeOK, WorldTyped
<1>3. Raced'
  BY <1>0, <1>1 DEF Raced
<1>4. Honest'
  <2> SUFFICES ASSUME NEW m \in Names \ (raced' \cup unsure') PROVE Truth(m)' \/ Pending(m)'
    BY DEF Honest, Pending
  <2>1. Truth(m) => Truth(m)'
    BY DEF Truth
  <2>2. Pending(m) => Pending(m)'
    BY <1>1 DEF Pending
  <2>3. Truth(m) \/ Pending(m)
    BY <1>0 DEF Honest, Pending
  <2> QED BY <2>1, <2>2, <2>3
<1>5. ASSUME NEW u \in Workers, Busy(u)' PROVE Planned(work'[u]) /\ Registers(u)' /\ Makes(u)' /\ Removes(u)'
  <2>1. Planned(work[u]) /\ Registers(u) /\ Makes(u) /\ Removes(u) /\ On(u) \in Names
    BY <1>1, <1>5 DEF IInv
  <2>2. Registers(u)'
    BY <1>1, <2>1 DEF Registers
  <2>3. Makes(u)'
    BY <1>1, <2>1 DEF Makes
  <2>4. Removes(u)'
    BY <1>1, <2>1 DEF Removes
  <2> QED BY <1>1, <2>1, <2>2, <2>3, <2>4
<1> QED BY <1>2, <1>3, <1>4, <1>5 DEF IInv

LEMMA MeddleKeeps ==
  ASSUME IInv, NEW n \in Names, Ends(n) \/ UserRemoves(n)
  PROVE  IInv'
<1>0. TypeOK /\ WorldTyped
  BY Worlds DEF IInv
<1>1. PICK c \in [st : {"none", "created", "running", "stopped"}, cfg : Configs \cup {None}] :
         Meddle(n, c) /\ Exists(n) /\ (c = NoBox \/ (c.st = "stopped" /\ c.cfg = box[n].cfg)) /\ (Fault \/ faults' = faults)
  <2>1. CASE Ends(n)
    <3> DEFINE d == [box[n] EXCEPT !.st = "stopped"]
    <3>1. d \in [st : {"none", "created", "running", "stopped"}, cfg : Configs \cup {None}]
          /\ d.st = "stopped" /\ d.cfg = box[n].cfg
      BY <1>0, BoxesAre
    <3>2. Meddle(n, d) /\ Exists(n) /\ faults' = faults
      BY <2>1 DEF Ends, Runs, Exists
    <3> HIDE DEF d
    <3> QED BY <3>1, <3>2
  <2>2. CASE UserRemoves(n)
    BY <2>2, <1>0, BoxesAre DEF UserRemoves
  <2> QED BY <2>1, <2>2
<1>2. /\ box' = [box EXCEPT ![n] = c]
      /\ UNCHANGED <<spare, reg, home, xdg, sock, entry, icons, vol, engine, work, fresh, unsure, begun>>
      /\ raced \subseteq raced' /\ raced' \subseteq raced \cup {n}
  BY <1>1 DEF Meddle
<1>3. c.st # "none" => c.cfg \in Configs
  BY <1>0, <1>1, BoxesAre DEF NoBox
<1>4. /\ box' \in [Names -> [st : {"none", "created", "running", "stopped"}, cfg : Configs \cup {None}]]
      /\ \A m \in Names : Exists(m)' => box'[m].cfg \in Configs
      /\ box'[n] = c /\ \A m \in Names \ {n} : box'[m] = box[m]
  BY <1>0, <1>2, <1>3, BoxTyped
<1>5. WorldTyped'
  <2>1. faults' \in Nat
    BY <1>0, <1>1 DEF Fault, WorldTyped
  <2> QED BY <1>0, <1>2, <1>4, <2>1 DEF WorldTyped
<1>6. ASSUME NEW m \in Names, Exists(m)' PROVE Exists(m) /\ box'[m].cfg = box[m].cfg
  <2>1. CASE m = n
    <3>1. box'[m].st # "none"
      BY <1>6 DEF Exists
    <3> QED BY <2>1, <3>1, <1>1, <1>4 DEF NoBox
  <2>2. CASE m # n
    BY <2>2, <1>4, <1>6 DEF Exists
  <2> QED BY <2>1, <2>2
<1>7. ASSUME NEW m \in Names, box[m] = NoBox PROVE box'[m] = NoBox
  BY <1>1, <1>4, <1>7 DEF Exists, NoBox
<1>8. raced' \subseteq Names \cup {None}
  BY <1>0, <1>2 DEF TypeOK
<1> QED BY <1>2, <1>5, <1>6, <1>7, <1>8, OutsideKeeps

LEMMA UseKeeps == ASSUME IInv, NEW v \in Volumes, Use(v) PROVE IInv'
<1>0. TypeOK /\ WorldTyped
  BY Worlds DEF IInv
<1>1. /\ vol[v].there /\ vol' = [vol EXCEPT ![v].data = TRUE]
      /\ UNCHANGED <<box, spare, reg, home, xdg, sock, entry, icons, engine, work, fresh, past, faults>>
  BY DEF Use
<1>2. vol' \in [Volumes -> [there : BOOLEAN, ours : BOOLEAN, data : BOOLEAN]]
      /\ \A u \in Volumes : vol[u].there => vol'[u].there
  BY <1>0, <1>1 DEF WorldTyped
<1>3. WorldTyped'
  BY <1>0, <1>1, <1>2 DEF WorldTyped, Exists
<1>4. \A n \in Names : Exists(n)' <=> Exists(n)
  BY <1>1 DEF Exists
<1>5. UNCHANGED <<reg, home, xdg, sock, work, unsure, begun>> /\ raced' = raced /\ box' = box
  BY <1>1 DEF past
<1>6. raced' \subseteq Names \cup {None}
  BY <1>0, <1>5 DEF TypeOK
<1> QED BY <1>2, <1>3, <1>4, <1>5, <1>6, OutsideKeeps

LEMMA EngineKeeps == ASSUME IInv, Bind \/ EngineDies PROVE IInv'
<1>0. TypeOK /\ WorldTyped
  BY Worlds DEF IInv
<1>1. UNCHANGED <<world, work, fresh, past>> /\ (Fault \/ faults' = faults)
  BY DEF Bind, EngineDies
<1>2. engine' \in [file : {"none", "dead", "live"}, coming : Nat]
  <2>1. engine \in [file : {"none", "dead", "live"}, coming : Nat]
    BY <1>0 DEF WorldTyped
  <2>2. CASE EngineDies
    BY <2>1, <2>2 DEF EngineDies
  <2>3. CASE Bind
    <3>1. engine.coming \in Nat /\ engine.coming - 1 \in Nat
      BY <2>1, <2>3 DEF Bind
    <3>2. engine' = [file |-> IF engine.file = "none" THEN "live" ELSE engine.file, coming |-> engine.coming - 1]
      BY <2>1, <2>3 DEF Bind
    <3> QED BY <2>1, <3>1, <3>2
  <2> QED BY <2>2, <2>3
<1>3. /\ box' = box /\ reg' = reg /\ sock' = sock /\ home' = home /\ xdg' = xdg /\ spare' = spare
      /\ vol' = vol /\ entry' = entry /\ icons' = icons /\ fresh' = fresh /\ work' = work
      /\ raced' = raced /\ unsure' = unsure /\ begun' = begun
  BY <1>1 DEF world, past
<1>4. WorldTyped'
  <2>1. faults' \in Nat
    BY <1>0, <1>1 DEF WorldTyped, Fault
  <2> QED BY <1>0, <1>2, <1>3, <2>1 DEF WorldTyped, Exists
<1>5. raced' \subseteq Names \cup {None}
  BY <1>0, <1>3 DEF TypeOK
<1>6. \A n \in Names : Exists(n)' <=> Exists(n)
  BY <1>3 DEF Exists
<1> QED BY <1>3, <1>4, <1>5, <1>6, OutsideKeeps

LEMMA RebootKeeps == ASSUME IInv, Reboot PROVE IInv'
<1>0. TypeOK /\ WorldTyped /\ Honest
  BY Worlds DEF IInv
<1>1. /\ box' = [n \in Names |-> IF Runs(n) THEN [box[n] EXCEPT !.st = "stopped"] ELSE box[n]]
      /\ sock' = [n \in Names |-> "none"] /\ engine' = [file |-> "none", coming |-> 0] /\ fresh' = Workers
      /\ work' = [w \in Workers |-> Idle]
      /\ unsure' = unsure \cup {On(w) : w \in {u \in Workers : work[u].touched}}
      /\ UNCHANGED <<spare, reg, home, xdg, entry, icons, vol, raced, begun>> /\ Fault
  BY DEF Reboot, NoEngine
<1>2. ASSUME NEW n \in Names
      PROVE  /\ box'[n] \in [st : {"none", "created", "running", "stopped"}, cfg : Configs \cup {None}]
             /\ Exists(n)' <=> Exists(n)
             /\ box'[n].cfg = box[n].cfg
  <2>1. box[n] \in [st : {"none", "created", "running", "stopped"}, cfg : Configs \cup {None}]
    BY <1>0, BoxesAre
  <2>2. box'[n] = IF Runs(n) THEN [box[n] EXCEPT !.st = "stopped"] ELSE box[n]
    BY <1>1
  <2> QED BY <2>1, <2>2 DEF Exists, Runs
<1>3. box' \in [Names -> [st : {"none", "created", "running", "stopped"}, cfg : Configs \cup {None}]]
  <2>1. box' = [n \in Names |-> box'[n]]
    BY <1>1
  <2> QED BY <2>1, <1>2
<1>4. \A u \in Workers : work'[u] = Idle /\ ~Busy(u)'
  BY <1>1, IdleRecord DEF Busy
<1>5. WorldTyped'
  <2>1. faults' \in Nat
    BY <1>0, <1>1 DEF WorldTyped, Fault
  <2>2. sock' \in [Names -> {"none", "empty", "used"}] /\ engine' \in [file : {"none", "dead", "live"}, coming : Nat]
    BY <1>1
  <2>3. \A n \in Names : Exists(n)' => box'[n].cfg \in Configs
    BY <1>0, <1>2 DEF WorldTyped
  <2> QED BY <1>0, <1>1, <1>3, <2>1, <2>2, <2>3 DEF WorldTyped
<1>6. TypeOK'
  <2>1. work' \in [Workers -> Work]
    BY <1>1, IdleRecord
  <2>2. \A u \in Workers : On(u) \in Names \cup {None}
    BY <1>0 DEF TypeOK, On, Work
  <2>3. raced' \cup unsure' \subseteq Names \cup {None} /\ begun' \in Nat
    BY <1>0, <1>1, <2>2 DEF TypeOK
  <2> QED BY <1>4, <1>5, <2>1, <2>3 DEF TypeOK, WorldTyped
<1>7. Honest'
  <2> SUFFICES ASSUME NEW n \in Names \ (raced' \cup unsure') PROVE Truth(n)'
    BY DEF Honest
  <2>1. n \notin raced \cup unsure
    BY <1>1
  <2>2. \A u \in Workers : ~(On(u) = n /\ work[u].touched)
    BY <1>1
  <2>3. Truth(n)
    BY <1>0, <2>1, <2>2 DEF Honest
  <2> QED BY <2>3, <1>1, <1>2 DEF Truth
<1>8. Raced'
  BY <1>4 DEF Raced
<1> QED BY <1>4, <1>6, <1>7, <1>8 DEF IInv

LEMMA InitHolds == Init => IInv
<1> SUFFICES ASSUME Init PROVE IInv
  OBVIOUS
<1>0. PICK n \in Names, c \in Configs, made \in BOOLEAN, by \in Legacies : Found(n, c, made, by)
  BY DEF Init
<1>1. /\ box = [m \in Names |-> IF made /\ m = n THEN [st |-> "running", cfg |-> IF by = "none" THEN c ELSE OldCfg]
                                ELSE NoBox]
      /\ reg = [m \in Names |-> IF made /\ m = n /\ by = "none" THEN c ELSE None]
      /\ home = (IF made /\ by = "home" THEN {n} ELSE {})
      /\ xdg = (IF made /\ by = "xdg" THEN {n} ELSE {})
      /\ sock = [m \in Names |-> IF made /\ m = n THEN "used" ELSE "none"]
      /\ vol \in [Volumes -> {NoVolume} \cup [there : {TRUE}, ours : BOOLEAN, data : {TRUE}]]
  BY <1>0 DEF Found
<1>2. /\ spare = {} /\ entry = {} /\ icons = {} /\ engine = [file |-> "none", coming |-> 0]
      /\ work = [w \in Workers |-> Idle] /\ fresh = Workers
      /\ raced = {} /\ unsure = {} /\ begun = 0 /\ faults = 0
  BY DEF Init, NoEngine
<1>3. OldCfg \in Configs
  BY EnvironmentAssumption DEF OldCfg
<1>4. vol \in [Volumes -> [there : BOOLEAN, ours : BOOLEAN, data : BOOLEAN]]
  <2>1. {NoVolume} \cup [there : {TRUE}, ours : BOOLEAN, data : {TRUE}] \subseteq [there : BOOLEAN, ours : BOOLEAN, data : BOOLEAN]
    <3> SUFFICES ASSUME NEW x \in {NoVolume} \cup [there : {TRUE}, ours : BOOLEAN, data : {TRUE}]
                 PROVE x \in [there : BOOLEAN, ours : BOOLEAN, data : BOOLEAN]
      OBVIOUS
    <3>1. CASE x = NoVolume
      BY <3>1 DEF NoVolume
    <3>2. CASE x \in [there : {TRUE}, ours : BOOLEAN, data : {TRUE}]
      BY <3>2
    <3> QED BY <3>1, <3>2
  <2> QED BY <1>1, <2>1
<1>5. box \in [Names -> [st : {"none", "created", "running", "stopped"}, cfg : Configs \cup {None}]]
      /\ \A m \in Names : Exists(m) => box[m].cfg \in Configs
  BY <1>1, <1>3 DEF NoBox, Exists
<1>6. \A w \in Workers : work[w] = Idle /\ ~Busy(w)
  BY <1>2, IdleRecord DEF Busy
<1>7. TypeOK
  <2>1. reg \in [Names -> Configs \cup {None}] /\ sock \in [Names -> {"none", "empty", "used"}]
    BY <1>1
  <2>2. spare \cup home \cup xdg \cup entry \cup icons \subseteq Names
    BY <1>1, <1>2
  <2>3. work \in [Workers -> Work]
    BY <1>2, IdleRecord
  <2> QED BY <1>2, <1>4, <1>5, <1>6, <2>1, <2>2, <2>3 DEF TypeOK
<1>8. ASSUME NEW m \in Names PROVE Truth(m)
  <2>1. CASE made /\ m = n /\ by = "none"
    BY <2>1, <1>1 DEF Truth
  <2>2. CASE made /\ m = n /\ by # "none"
    BY <2>2, <1>1 DEF Truth
  <2>3. CASE ~(made /\ m = n)
    BY <2>3, <1>1 DEF Truth, Exists, NoBox
  <2> QED BY <2>1, <2>2, <2>3
<1> QED BY <1>6, <1>7, <1>8 DEF IInv, Honest, Raced

LEMMA StutterKeeps == ASSUME IInv, UNCHANGED vars PROVE IInv'
<1>0. TypeOK /\ WorldTyped
  BY Worlds DEF IInv
<1>1. /\ box' = box /\ reg' = reg /\ sock' = sock /\ home' = home /\ xdg' = xdg /\ spare' = spare
      /\ vol' = vol /\ entry' = entry /\ icons' = icons /\ fresh' = fresh /\ work' = work /\ engine' = engine
      /\ raced' = raced /\ unsure' = unsure /\ begun' = begun /\ faults' = faults
  BY DEF vars, world, past
<1>2. WorldTyped' /\ \A n \in Names : Exists(n)' <=> Exists(n)
  BY <1>0, <1>1 DEF WorldTyped, Exists
<1>3. raced' \subseteq Names \cup {None}
  BY <1>0, <1>1 DEF TypeOK
<1> QED BY <1>1, <1>2, <1>3, OutsideKeeps

LEMMA NextKeeps == IInv /\ [Next]_vars => IInv'
<1> SUFFICES ASSUME IInv, [Next]_vars PROVE IInv'
  OBVIOUS
<1>1. ASSUME NEW w \in Workers, EngineStep(w) PROVE IInv'
  BY <1>1, ProbeKeeps, SpawnKeeps, AwaitKeeps, SockDirKeeps, PrescanKeeps, MkdirKeeps, EnsureVolumesKeeps,
     CreateKeeps, CheckKeeps, UndirKeeps, UnvolKeeps, StartKeeps, StopKeeps, RemoveKeeps, RebuildKeeps DEF EngineStep
<1>2. ASSUME NEW w \in Workers, HostStep(w) PROVE IInv'
  BY <1>2, SocketsKeeps, EnsureKeeps, PlainKeeps, MakeVolumeKeeps, UnmakeKeeps, OpenKeeps, ReadKeeps, RegisterKeeps,
     DrawKeeps DEF HostStep
<1>3. ASSUME NEW w \in Workers, Command(w) PROVE IInv'
  <2>1. PICK op \in Ops, n \in Names : \E c \in IF op \in Given THEN Configs ELSE {OldCfg} : Begin(w, op, n, c)
    BY <1>3 DEF Command
  <2>2. OldCfg \in Configs
    BY EnvironmentAssumption DEF OldCfg
  <2>3. PICK c \in Configs : Begin(w, op, n, c)
    BY <2>1, <2>2
  <2> QED BY <2>3, BeginKeeps
<1> QED BY <1>1, <1>2, <1>3, DieKeeps, MeddleKeeps, UseKeeps, EngineKeeps, RebootKeeps, StutterKeeps DEF Next

\* What holds of environments on the host whatever the commands do: types, what scripts
\* in hand still have to do, and what registry, volumes and directories have to do with it.
THEOREM EnvironmentHolds == Spec => []IInv
<1>1. Init => IInv
  BY InitHolds
<1>2. IInv /\ [Next]_vars => IInv'
  BY NextKeeps
<1> QED BY <1>1, <1>2, PTL DEF Spec

\* configfile.rs, config.rs:108: between commands the registered configuration of a
\* container is the one it was made from, unless commands about it overlapped, or one
\* that had changed it failed or was killed.
THEOREM RegistryTrue == Spec => []RegistryTellsTheTruth
<1>1. IInv => RegistryTellsTheTruth
  <2> SUFFICES ASSUME IInv, NEW n \in Names, Exists(n), reg[n] # None, n \notin raced \cup unsure,
                      \A w \in Workers : ~(Busy(w) /\ On(w) = n)
               PROVE  reg[n] = box[n].cfg
    BY DEF RegistryTellsTheTruth
  <2>1. Truth(n)
    BY DEF IInv, Honest
  <2> QED BY <2>1 DEF Truth
<1> QED BY <1>1, EnvironmentHolds, PTL

(***************************************************************************)
(* What one step does to the commands                                      *)
(***************************************************************************)
\* The ways a step ends, of those that do nothing else to the record.
LEMMA WayMoves ==
  ASSUME IInv, NEW w \in Workers, Busy(w),
         \/ Advance(w) /\ Head(work[w].script).do \notin {"create", "rebuild"}
         \/ Changed(w) /\ Head(work[w].script).do \in {"create", "rebuild"}
         \/ Refuse(w) \/ Break(w) \/ Unheard(w)
  PROVE  Moves(w)
<1>1. TypeOK /\ Planned(work[w])
  BY DEF IInv
<1> QED BY <1>1, AdvanceMoves, ChangedMoves, RefuseMoves, BreakMoves

LEMMA SpliceWay ==
  ASSUME IInv, NEW w \in Workers, Probe(w) \/ Ensure(w)
  PROVE  \/ Moves(w) /\ Splices(work[w], work'[w]) /\ work'[w].status = work[w].status
         \/ Advance(w)
         \/ Ensure(w) /\ (Refuse(w) \/ Break(w))
<1>0. TypeOK /\ Busy(w) /\ Tail(work[w].script) \in Seq(Steps)
  BY RecordFacts, Emptiness DEF IInv, Probe, Ensure, At
<1>1. ASSUME NEW t \in Seq(Steps), Spliced(work[w], t \o Tail(work[w].script)),
             Become(w, [work[w] EXCEPT !.script = t \o Tail(@)]), UNCHANGED <<past, faults>>
      PROVE  Moves(w) /\ Splices(work[w], work'[w]) /\ work'[w].status = work[w].status
  <2> DEFINE s == t \o Tail(work[w].script)
  <2>1. s \in Seq(Steps)
    BY <1>0
  <2>2. Become(w, [work[w] EXCEPT !.script = s]) /\ UNCHANGED <<raced, begun, unsure>> /\ Spliced(work[w], s)
    BY <1>1 DEF past
  <2> HIDE DEF s
  <2> QED BY <1>0, <2>1, <2>2, SpliceMoves
<1>2. CASE Probe(w)
  <2>1. <<Must("spawn"), Must("await")>> \in Seq(Steps)
    BY BeginningScript DEF Script
  <2>2. Spliced(work[w], <<Must("spawn"), Must("await")>> \o Tail(work[w].script))
    BY <1>2 DEF Probe, At, Spliced
  <2> QED BY <1>1, <1>2, <2>1, <2>2 DEF Probe
<1>3. CASE Ensure(w)
  <2>1. Starting \in Seq(Steps)
    BY StartingScript DEF Script
  <2>2. Spliced(work[w], Starting \o Tail(work[w].script))
    BY <1>3 DEF Ensure, At, Spliced
  <2> QED BY <1>1, <1>3, <2>1, <2>2 DEF Ensure
<1> QED BY <1>2, <1>3

\* Prescan and Read change the record before they pass the step.
LEMMA PrescanMoves == ASSUME IInv, NEW w \in Workers, Prescan(w) PROVE Moves(w)
<1> DEFINE r == work[w]
           absent == {v \in work[w].cfg.vols : ~vol[v].there}
<1>0. TypeOK /\ Busy(w) /\ Head(r.script).do = "prescan" /\ UNCHANGED past
  BY DEF IInv, Prescan, At
<1>1. r \in Work /\ r.cfg \in Configs /\ r.touched \in BOOLEAN /\ r.cfg.vols \subseteq Volumes
  BY <1>0, HeadFacts, EnvironmentAssumption
<1>2. PICK p : /\ Become(w, Stepped(p))
               /\ \/ p = [r EXCEPT !.mine = absent]
                  \/ p = [r EXCEPT !.mine = {}, !.hurt = TRUE]
                  \/ p = [r EXCEPT !.mine = r.cfg.vols, !.lied = TRUE]
  BY DEF Prescan
<1>3. p \in Work /\ p.script = r.script /\ Like(r, p) /\ (r.hurt => p.hurt) /\ p.touched = r.touched /\ p.cfg = r.cfg
  <2>1. CASE p = [r EXCEPT !.mine = absent]
    BY <2>1, <1>1 DEF Work, Like
  <2>2. CASE p = [r EXCEPT !.mine = {}, !.hurt = TRUE]
    BY <2>2, <1>1 DEF Work, Like
  <2>3. CASE p = [r EXCEPT !.mine = r.cfg.vols, !.lied = TRUE]
    BY <2>3, <1>1 DEF Work, Like
  <2> QED BY <1>2, <2>1, <2>2, <2>3
<1>4. (r.touched \/ Head(r.script).do \in {"create", "rebuild"}) = r.touched
  BY <1>0, <1>1
<1>5. Before(r, p)
  BY <1>0, <1>3, <1>4 DEF Before
<1> QED BY <1>0, <1>2, <1>5, PassMoves DEF past

LEMMA ReadMoves == ASSUME IInv, NEW w \in Workers, Read(w) PROVE Moves(w)
<1> DEFINE r == work[w]
           p == [r EXCEPT !.cfg = reg[On(w)]]
<1>0. TypeOK /\ Busy(w) /\ Head(r.script).do = "read"
  BY DEF IInv, Read, At
<1>1. CASE Refuse(w)
  BY <1>0, <1>1, WayMoves
<1>2. CASE reg[On(w)] # None /\ Become(w, Stepped(p)) /\ UNCHANGED <<past, faults>>
  <2>1. r \in Work /\ On(w) \in Names /\ r.touched \in BOOLEAN /\ reg[On(w)] \in Configs
    BY <1>0, <1>2, HeadFacts DEF TypeOK
  <2>2. p \in Work /\ p.script = r.script /\ Like(r, p) /\ (r.hurt => p.hurt) /\ p.touched = r.touched
        /\ p.mine = r.mine
    BY <2>1 DEF Work, Like
  <2> HIDE DEF p
  <2>3. (r.touched \/ Head(r.script).do \in {"create", "rebuild"}) = r.touched
    BY <1>0, <2>1
  <2>4. Before(r, p)
    BY <1>0, <2>2, <2>3 DEF Before
  <2> QED BY <1>0, <1>2, <2>4, PassMoves DEF past
<1> QED BY <1>1, <1>2 DEF Read

LEMMA CheckMoves == ASSUME IInv, NEW w \in Workers, Check(w) PROVE Moves(w)
<1>0. TypeOK /\ Busy(w) /\ Head(work[w].script).do = "check" /\ UNCHANGED past
  BY DEF IInv, Check, At
<1>1. work[w] \in Work /\ "register" \notin Ahead(w)
  BY <1>0, HeadFacts DEF Clearing
<1>2. CASE Become(w, Stepped(work[w]))
  BY <1>0, <1>2, SameBefore, PassMoves DEF past
<1>3. ASSUME NEW p \in Work, Become(w, Done(p, "failed")) PROVE Moves(w)
  <2> DEFINE q == Done(p, "failed")
  <2>1. q \in Work /\ q.script = <<>>
    BY DoneRecord
  <2> HIDE DEF q
  <2> QED BY <1>0, <1>1, <1>3, <2>1, DoneMoves DEF past, q
<1>4. Hurt(w) \in Work
  BY <1>0, HurtRecord
<1> QED BY <1>1, <1>2, <1>3, <1>4 DEF Check

LEMMA UnvolDoes ==
  ASSUME IInv, NEW w \in Workers, Unvol(w)
  PROVE  /\ Moves(w)
         /\ \A v \in Volumes \ work[w].mine : vol'[v] = vol[v]
         /\ \/ work[w].doomed => work'[w].torn
            \/ \A v \in work[w].mine : ~vol'[v].there \/ ~vol[v].ours \/ Mounted(v)
<1> DEFINE orphans == {v \in work[w].mine : vol[v].there /\ vol[v].ours /\ ~Mounted(v)}
<1>0. TypeOK /\ Busy(w) /\ Head(work[w].script).do = "unvol" /\ VolumesOnly /\ UNCHANGED <<raced, begun>>
  BY DEF IInv, Unvol, At, VolumesOnly
<1>1. work[w].mine \subseteq Volumes /\ vol \in [Volumes -> [there : BOOLEAN, ours : BOOLEAN, data : BOOLEAN]]
  BY <1>0, HeadFacts DEF Work, TypeOK
<1>2. Before(work[w], work[w]) /\ Before(work[w], Hurt(w))
  BY <1>0, SameBefore
<1>3. CASE Vanish(w, orphans, Stepped(work[w])) /\ UNCHANGED <<unsure, faults>>
  <2>1. Moves(w)
    BY <1>0, <1>1, <1>2, <1>3, VanishKeeps
  <2>2. vol' = [v \in Volumes |-> IF v \in orphans THEN NoVolume ELSE vol[v]]
    BY <1>3 DEF Vanish
  <2>3. \A v \in Volumes \ work[w].mine : vol'[v] = vol[v]
    BY <2>2
  <2>4. ASSUME NEW v \in work[w].mine PROVE ~vol'[v].there \/ ~vol[v].ours \/ Mounted(v)
    <3>1. CASE v \in orphans
      BY <3>1, <2>2, <1>1 DEF NoVolume
    <3>2. CASE v \notin orphans
      BY <3>2, <2>2, <1>1
    <3> QED BY <3>1, <3>2
  <2> QED BY <2>1, <2>3, <2>4
<1>4. ASSUME NEW gone \in SUBSET orphans, Vanish(w, gone, Stepped(Hurt(w))), Fault, Blame(w, work[w].touched)
      PROVE  Moves(w) /\ (\A v \in Volumes \ work[w].mine : vol'[v] = vol[v]) /\ (work[w].doomed => work'[w].torn)
  <2>1. gone \in SUBSET Volumes /\ unsure \subseteq unsure' /\ unsure' \subseteq unsure \cup {On(w)}
    BY <1>1, <1>4 DEF Blame
  <2>2. Moves(w) /\ After(work[w], Hurt(w), work'[w])
    BY <1>0, <1>2, <1>4, <2>1, VanishKeeps
  <2>3. \A v \in Volumes \ work[w].mine : vol'[v] = vol[v]
    BY <1>4 DEF Vanish
  <2>4. work[w].doomed => work'[w].torn
    BY <1>0, <2>2, HurtRecord DEF After
  <2> QED BY <2>2, <2>3, <2>4
<1> QED BY <1>3, <1>4 DEF Unvol

LEMMA UnmakeMoves == ASSUME IInv, NEW w \in Workers, Unmake(w) PROVE Moves(w)
<1>0. TypeOK /\ Busy(w) /\ Head(work[w].script).do = "unmade" /\ UNCHANGED <<engine, fresh>>
  BY DEF IInv, Unmake, At
<1>1. ASSUME NEW v \in work[w].cfg.vols, Vanish(w, {v}, Stepped(work[w])),
             UNCHANGED <<box, spare, reg, home, xdg, sock, entry, icons, past, faults>>
      PROVE  Moves(w)
  <2>1. work[w].cfg \in Configs
    BY <1>0, HeadFacts
  <2>2. {v} \in SUBSET Volumes
    BY <2>1, EnvironmentAssumption
  <2>3. Before(work[w], work[w])
    BY <1>0, SameBefore
  <2>4. VolumesOnly /\ UNCHANGED <<raced, begun>> /\ unsure' = unsure
    BY <1>0, <1>1 DEF VolumesOnly, past
  <2> QED BY <1>0, <1>1, <2>2, <2>3, <2>4, VanishKeeps
<1>2. CASE (Refuse(w) \/ Break(w)) /\ UNCHANGED world
  BY <1>0, <1>2, WayMoves
<1> QED BY <1>1, <1>2 DEF Unmake, Lost

LEMMA HurtMoves ==
  ASSUME IInv, NEW w \in Workers, Await(w) \/ Open(w)
  PROVE  Moves(w) /\ (Advance(w) \/ work'[w].hurt)
<1>0. TypeOK /\ Busy(w) /\ Head(work[w].script).do \in {"await", "open"} /\ Planned(work[w])
  BY DEF IInv, Await, Open, At
<1>1. CASE Advance(w) \/ Break(w)
  BY <1>0, <1>1, WayMoves, BreakMoves
<1>2. CASE Fault /\ Become(w, Stepped(Hurt(w))) /\ UNCHANGED past
  <2>1. Before(work[w], Hurt(w))
    BY <1>0, SameBefore
  <2>2. Moves(w) /\ After(work[w], Hurt(w), work'[w])
    BY <1>0, <1>2, <2>1, PassMoves DEF past
  <2> QED BY <1>0, <2>2, HurtRecord DEF After
<1> QED BY <1>1, <1>2 DEF Await, Open

\* A step of a command moves that command alone.
LEMMA StepMoves == ASSUME IInv, NEW w \in Workers, EngineStep(w) \/ HostStep(w) PROVE Moves(w)
<1>1. CASE Probe(w) \/ Ensure(w)
  <2>1. Busy(w) /\ Head(work[w].script).do \in {"probe", "ensure"}
    BY <1>1 DEF Probe, Ensure, At
  <2> QED BY <1>1, <2>1, SpliceWay, WayMoves
<1>2. CASE Prescan(w) \/ Read(w) \/ Check(w) \/ Unvol(w) \/ Unmake(w) \/ Await(w) \/ Open(w)
  BY <1>2, PrescanMoves, ReadMoves, CheckMoves, UnvolDoes, UnmakeMoves, HurtMoves
<1>3. CASE Create(w) \/ Rebuild(w)
  BY <1>3, WayMoves DEF Create, Rebuild, At, Lost
<1>4. CASE Spawn(w) \/ SockDir(w) \/ Mkdir(w) \/ EnsureVolumes(w) \/ Undir(w)
  BY <1>4, WayMoves DEF Spawn, SockDir, Mkdir, EnsureVolumes, Undir, At, Lost
<1>5. CASE Start(w) \/ Stop(w) \/ Remove(w)
  BY <1>5, WayMoves DEF Start, Stop, Remove, At, Lost
<1>6. CASE Sockets(w) \/ MakeVolume(w) \/ Register(w) \/ Draw(w) \/ DrawFails(w)
  BY <1>6, WayMoves DEF Sockets, MakeVolume, Register, Draw, DrawFails, At, Lost
<1>7. CASE Ready(w) \/ List(w) \/ Logs(w) \/ Prepare(w) \/ Commit(w) \/ Exec(w) \/ Window(w)
  BY <1>7, WayMoves DEF Ready, List, Logs, Prepare, Commit, Exec, Window, Plain, At
<1> QED BY <1>1, <1>2, <1>3, <1>4, <1>5, <1>6, <1>7 DEF EngineStep, HostStep

\* To a command in hand a step is its own, or leaves it alone, or cuts it off.
LEMMA NextSteps ==
  ASSUME IInv, [Next]_vars, NEW w \in Workers, Busy(w)
  PROVE  \/ EngineStep(w) \/ HostStep(w)
         \/ Stays(work[w], work'[w])
         \/ work'[w] = Idle /\ vol' = vol
<1>0. TypeOK
  BY DEF IInv
<1>1. Stays(work[w], work[w])
  BY DEF Stays, Like
<1>2. ASSUME NEW u \in Workers, EngineStep(u) \/ HostStep(u)
      PROVE  u = w \/ Stays(work[w], work'[w])
  BY <1>2, StepMoves DEF Moves
<1>3. ASSUME NEW u \in Workers, Command(u) PROVE Stays(work[w], work'[w])
  <2>1. PICK op \in Ops, n \in Names : \E c \in IF op \in Given THEN Configs ELSE {OldCfg} : Begin(u, op, n, c)
    BY <1>3 DEF Command
  <2>2. PICK c : Begin(u, op, n, c)
    BY <2>1
  <2>3. u # w
    BY <2>2 DEF Begin
  <2>4. work'[w] = work[w]
    BY <1>0, <2>2, <2>3 DEF Begin, Become, TypeOK
  <2> QED BY <1>1, <2>4
<1>4. ASSUME NEW u \in Workers, Die(u) PROVE Stays(work[w], work'[w]) \/ (work'[w] = Idle /\ vol' = vol)
  <2>1. Moves(u) /\ work'[u] = Idle /\ vol' = vol
    BY <1>4, DieKeeps DEF Die, world
  <2> QED BY <2>1 DEF Moves
<1>5. CASE Reboot
  BY <1>5 DEF Reboot
<1>6. CASE UNCHANGED work
  BY <1>1, <1>6
<1>7. ASSUME NEW n \in Names, Ends(n) \/ UserRemoves(n) PROVE UNCHANGED work
  BY <1>7 DEF Ends, UserRemoves, Meddle
<1>8. ASSUME NEW v \in Volumes, Use(v) PROVE UNCHANGED work
  BY <1>8 DEF Use
<1>9. CASE Bind \/ EngineDies \/ UNCHANGED vars
  BY <1>6, <1>9 DEF Bind, EngineDies, vars
<1> QED BY <1>2, <1>3, <1>4, <1>5, <1>6, <1>7, <1>8, <1>9 DEF Next

\* A clean-up that has more to do goes on.
LEMMA UndoingGoesOn ==
  ASSUME IInv, NEW w \in Workers, Busy(w), work[w].doomed, Head(work[w].script).do \in {"check", "undir"},
         NEW p, Before(work[w], p), Become(w, Stepped(p)), UNCHANGED <<raced, begun>>,
         unsure \subseteq unsure', unsure' \subseteq unsure \cup {On(w)}
  PROVE  work'[w].status = "busy"
<1>0. TypeOK /\ work[w].status = "busy" /\ work[w].script \in Seq(Steps) /\ work[w].script # <<>>
  BY RecordFacts DEF IInv
<1>1. Moves(w) /\ Passes(work[w], work'[w]) /\ After(work[w], p, work'[w])
  BY <1>0, PassMoves
<1>2. "unvol" \in Ahead(w)
  BY HeadFacts
<1>3. Busy(w)'
  BY <1>1, <1>2, StillAhead
<1> QED BY <1>0, <1>1, <1>3, Still

LEMMA UndoingLeavesNothing ==
  ASSUME IInv, NEW w \in Workers, EngineStep(w) \/ HostStep(w)
  PROVE  LeavesNothing(w)
<1> SUFFICES ASSUME Busy(w), work'[w].status = "failed", On(w) \notin raced', work[w].doomed, ~work'[w].torn,
                    ~Exists(On(w)), On(w) \notin spare
             PROVE  /\ work[w].had \/ sock'[On(w)] = "none"
                    /\ \A v \in work[w].mine : ~vol'[v].there \/ ~vol[v].ours \/ Mounted(v)
  BY DEF LeavesNothing, Over
<1> DEFINE h == Head(work[w].script).do
<1>0. TypeOK /\ Makes(w) /\ Planned(work[w])
  BY DEF IInv
<1>1. h \in Clearing
  BY HeadFacts
<1>2. Moves(w)
  BY StepMoves
<1>3. Check(w) \/ Undir(w) \/ Unvol(w)
  <2>1. h \in {"check", "undir", "unvol"}
    BY <1>1 DEF Clearing
  <2>2. \A s \in {"probe", "spawn", "await", "sockdir", "prescan", "mkdir", "volumes", "create", "start", "restart",
                  "stop", "remove", "rebuild", "sockets", "ensure", "ready", "volume", "unmade", "list", "logs",
                  "prepare", "commit", "exec", "setup", "window", "open", "read", "register", "unregister",
                  "entry", "desktops", "picture", "icons"} : ~At(w, s)
    BY <2>1 DEF At
  <2>3. CASE EngineStep(w)
    BY <2>2, <2>3 DEF EngineStep, Probe, Spawn, Await, SockDir, Prescan, Mkdir, EnsureVolumes, Create, Start, Stop,
                      Remove, Rebuild
  <2>4. CASE HostStep(w)
    BY <2>2, <2>4 DEF HostStep, Sockets, Ensure, Ready, MakeVolume, Unmake, List, Logs, Prepare, Commit, Exec, Window,
                      Plain, Open, Read, Register, Draw, DrawFails
  <2> QED BY <2>3, <2>4
<1>4. Before(work[w], work[w])
  BY <1>0, <1>1, SameBefore DEF Clearing
<1>5. ~Check(w)
  <2> SUFFICES ASSUME Check(w) PROVE FALSE
    OBVIOUS
  <2>1. h = "check" /\ UNCHANGED past
    BY DEF Check, At
  <2>2. ~Become(w, Stepped(work[w]))
    BY <1>4, <2>1, UndoingGoesOn DEF past
  <2>3. Become(w, Done(Hurt(w), "failed"))
    BY <2>2 DEF Check
  <2>4. Hurt(w) \in Work /\ Hurt(w).torn
    BY <1>0, HurtRecord
  <2>5. Done(Hurt(w), "failed") \in Work /\ Done(Hurt(w), "failed").torn
    BY <2>4, DoneRecord
  <2> QED BY <1>0, <2>3, <2>5, BecomeMoves
<1>6. ~Undir(w)
  <2> SUFFICES ASSUME Undir(w) PROVE FALSE
    OBVIOUS
  <2>1. h = "undir" /\ Become(w, Stepped(work[w])) /\ UNCHANGED past
    BY DEF Undir, At, Advance
  <2> QED BY <1>4, <2>1, UndoingGoesOn DEF past
<1>7. Unvol(w) /\ h = "unvol" /\ sock' = sock
  BY <1>3, <1>5, <1>6 DEF Unvol, At
<1>8. work[w].had \/ sock'[On(w)] = "none"
  <2>1. "undir" \notin Ahead(w)
    <3>1. Ahead(w) = {h} \cup Words(Tail(work[w].script)) /\ \A b \in Words(Tail(work[w].script)) : ~Barred(h, b)
      BY <1>0, RecordFacts, Ahead1 DEF Ahead
    <3> QED BY <3>1, <1>7 DEF Barred, Clearing
  <2>2. On(w) \notin raced
    BY <1>2 DEF Moves
  <2> QED BY <1>0, <1>7, <2>1, <2>2 DEF Makes
<1> QED BY <1>7, <1>8, UnvolDoes

LEMMA UndoingSpares ==
  ASSUME IInv, NEW w \in Workers, EngineStep(w) \/ HostStep(w)
  PROVE  SparesVolumes(w)
<1> SUFFICES ASSUME At(w, "unvol"), ~work[w].lied, NEW v \in work[w].seen, vol[v].there PROVE vol'[v].there
  BY DEF SparesVolumes
<1>0. TypeOK /\ Busy(w) /\ Head(work[w].script).do = "unvol" /\ Makes(w) /\ work[w] \in Work
  BY RecordFacts DEF IInv, At
<1>1. Unvol(w)
  <2>1. \A s \in {"probe", "spawn", "await", "sockdir", "prescan", "mkdir", "volumes", "create", "start", "restart",
                  "check", "undir",
                  "stop", "remove", "rebuild", "sockets", "ensure", "ready", "volume", "unmade", "list", "logs",
                  "prepare", "commit", "exec", "setup", "window", "open", "read", "register", "unregister",
                  "entry", "desktops", "picture", "icons"} : ~At(w, s)
    BY <1>0 DEF At
  <2>2. CASE EngineStep(w)
    BY <2>1, <2>2 DEF EngineStep, Probe, Spawn, Await, SockDir, Prescan, Mkdir, EnsureVolumes, Create, Start, Stop,
                      Remove, Rebuild, Check, Undir
  <2>3. CASE HostStep(w)
    BY <2>1, <2>3 DEF HostStep, Sockets, Ensure, Ready, MakeVolume, Unmake, List, Logs, Prepare, Commit, Exec, Window,
                      Plain, Open, Read, Register, Draw, DrawFails
  <2> QED BY <2>2, <2>3
<1>2. v \in Volumes \ work[w].mine
  BY <1>0 DEF Makes, Work
<1> QED BY <1>1, <1>2, UnvolDoes

\* mod.rs:480-512: a creation that fails takes back the directory and the volumes it found missing, and
\* spares the volumes that have been there since it began, whatever others do meanwhile; but for names
\* another command was at, clean-ups that fail, and a look the engine answered with an error.
THEOREM TakesBack == Spec => FailedCreateTakesBackItsOwn
<1>1. ASSUME IInv, [Next]_vars PROVE \A w \in Workers : LeavesNothing(w) /\ SparesVolumes(w)
  <2> SUFFICES ASSUME NEW w \in Workers PROVE LeavesNothing(w) /\ SparesVolumes(w)
    OBVIOUS
  <2>1. CASE ~Busy(w)
    BY <2>1 DEF LeavesNothing, SparesVolumes, Over, At
  <2>2. CASE Busy(w) /\ (EngineStep(w) \/ HostStep(w))
    BY <1>1, <2>2, UndoingLeavesNothing, UndoingSpares
  <2>3. CASE Busy(w) /\ Stays(work[w], work'[w])
    <3>1. work[w].status = "busy"
      BY <1>1, <2>3, RecordFacts DEF IInv
    <3> QED BY <2>3, <3>1 DEF Stays, Like, LeavesNothing, SparesVolumes, Over
  <2>4. CASE Busy(w) /\ work'[w] = Idle /\ vol' = vol
    <3>1. work'[w].status = "idle"
      BY <2>4, IdleRecord
    <3> QED BY <2>4, <3>1 DEF LeavesNothing, SparesVolumes, Over
  <2> QED BY <1>1, <2>1, <2>2, <2>3, <2>4, NextSteps
<1>2. IInv /\ [Next]_vars => [\A w \in Workers : LeavesNothing(w) /\ SparesVolumes(w)]_vars
  BY <1>1
<1> QED BY <1>2, EnvironmentHolds, PTL DEF Spec, FailedCreateTakesBackItsOwn

(***************************************************************************)
(* Removals                                                                *)
(***************************************************************************)
\* What a step of a removal that nothing goes wrong with does.
RemovalDoes(w, n) ==
  LET h == Head(work[w].script).do IN
  \/ Splices(work[w], work'[w]) /\ work'[w].status = "busy" /\ UNCHANGED <<reg, sock, entry>>
  \/ /\ Advance(w)
     /\ box[n] = NoBox \/ h = "remove" => box'[n] = NoBox
     /\ (reg[n] = None /\ h # "open") \/ h = "unregister" => reg'[n] = None
     /\ n \notin entry \/ h = "desktops" => n \notin entry'
     /\ sock[n] = "none" \/ h = "sockets" => sock'[n] = "none"

\* A running container is not removed without force: the removal is over.
LEMMA DenialEnds ==
  ASSUME IInv, NEW w \in Workers, At(w, "remove"), Refuse(w)
  PROVE  ~Busy(w)' /\ work'[w].status = "failed"
<1>1. TypeOK /\ Planned(work[w]) /\ Busy(w) /\ Head(work[w].script).do = "remove"
  BY DEF IInv, At
<1>2. Moves(w) /\ Misses(w)
  BY <1>1, RefuseMoves
<1>3. ~Busy(w)'
  BY <1>1, <1>2, MustMisses DEF Creation
<1>4. Head(work[w].script).must
  BY <1>1, HeadFacts
<1>5. Undoing # <<>>
  BY DEF Undoing
<1>6. ~Undoes(work[w], work'[w])
  BY <1>3, <1>5 DEF Undoes, Busy
<1> QED BY <1>2, <1>3, <1>4, <1>6 DEF Misses

LEMMA RemovalStep ==
  ASSUME IInv, NEW w \in Workers, Busy(w), work[w].removal, EngineStep(w) \/ HostStep(w), ~work'[w].hurt
  PROVE  \/ RemovalDoes(w, On(w))
         \/ At(w, "remove") /\ Denied(w) /\ ~Busy(w)' /\ work'[w].status = "failed"
<1> DEFINE h == Head(work[w].script).do
<1>0. TypeOK /\ Planned(work[w]) /\ work[w].status = "busy" /\ On(w) \in Names
  BY RecordFacts DEF IInv
<1>1. h \in Removing
  BY HeadFacts
<1>2. ~Break(w) /\ ~Unheard(w)
  BY <1>0, BreakMoves
<1>3. \A s \in {"sockdir", "prescan", "mkdir", "volumes", "create", "check", "undir", "unvol", "start", "restart",
                "stop", "rebuild", "ensure", "ready", "volume", "unmade", "list", "logs", "prepare", "commit",
                "exec", "setup", "window", "read", "register", "entry", "picture"} : ~At(w, s)
  BY <1>1 DEF At, Removing
<1>4. CASE EngineStep(w)
  <2>1. Probe(w) \/ Spawn(w) \/ Await(w) \/ Remove(w)
    BY <1>3, <1>4 DEF EngineStep, SockDir, Prescan, Mkdir, EnsureVolumes, Create, Start, Stop, Rebuild, Check, Undir, Unvol
  <2>2. CASE Probe(w)
    <3>1. h = "probe" /\ ~Ensure(w) /\ UNCHANGED world
      BY <2>2 DEF Probe, Ensure, At, Own
    <3>2. CASE Advance(w)
      BY <3>1, <3>2 DEF RemovalDoes, world
    <3>3. CASE Splices(work[w], work'[w]) /\ work'[w].status = work[w].status
      BY <1>0, <3>1, <3>3 DEF RemovalDoes, world
    <3> QED BY <2>2, <3>1, <3>2, <3>3, SpliceWay
  <2>3. CASE Spawn(w) \/ Await(w)
    <3>1. h \in {"spawn", "await"} /\ UNCHANGED world
      BY <2>3 DEF Spawn, Await, At, Own
    <3>2. Advance(w)
      BY <2>3, HurtMoves DEF Spawn
    <3> QED BY <3>1, <3>2 DEF RemovalDoes, world
  <2>4. CASE Remove(w)
    <3>1. CASE Denied(w) /\ Refuse(w)
      BY <2>4, <3>1, DenialEnds DEF Remove
    <3>2. CASE ~(Denied(w) /\ Refuse(w))
      <4>1. h = "remove" /\ Turn(w, NoBox) /\ sock' = sock /\ Advance(w)
        BY <1>2, <2>4, <3>2 DEF Remove, At, Lost
      <4>2. box'[On(w)] = NoBox
        BY <1>0, <4>1 DEF Turn, TypeOK
      <4> QED BY <4>1, <4>2 DEF RemovalDoes, Turn
    <3> QED BY <3>1, <3>2
  <2> QED BY <2>1, <2>2, <2>3, <2>4
<1>5. CASE HostStep(w)
  <2>1. Sockets(w) \/ Open(w) \/ Register(w) \/ Draw(w) \/ DrawFails(w)
    BY <1>3, <1>5 DEF HostStep, Ensure, Ready, MakeVolume, Unmake, List, Logs, Prepare, Commit, Exec, Window, Plain, Read
  <2>2. CASE Sockets(w)
    <3>1. /\ h = "sockets" /\ Advance(w) /\ UNCHANGED <<box, reg, entry>>
          /\ sock' = [m \in Names |-> IF m \in Resolved(On(w)) THEN "none" ELSE sock[m]]
      BY <1>2, <2>2 DEF Sockets, At, Lost
    <3>2. sock'[On(w)] = "none"
      BY <1>0, <3>1 DEF Resolved
    <3> QED BY <3>1, <3>2 DEF RemovalDoes
  <2>3. CASE Open(w)
    <3>1. h = "open" /\ UNCHANGED <<box, sock, entry>>
      BY <2>3 DEF Open, At
    <3>2. Advance(w)
      BY <2>3, HurtMoves
    <3> QED BY <3>1, <3>2 DEF RemovalDoes
  <2>4. CASE Register(w)
    <3>1. h = "unregister" /\ Advance(w) /\ reg' = [reg EXCEPT ![On(w)] = None] /\ UNCHANGED <<box, sock, entry>>
      BY <1>2, <1>3, <2>4 DEF Register, At, Lost
    <3>2. reg'[On(w)] = None
      BY <1>0, <3>1 DEF TypeOK
    <3> QED BY <3>1, <3>2 DEF RemovalDoes
  <2>5. CASE Draw(w) \/ DrawFails(w)
    <3>1. h \in {"desktops", "icons"} /\ Advance(w) /\ UNCHANGED <<box, reg, sock>>
          /\ entry' = (IF h = "desktops" THEN entry \ {On(w)} ELSE entry)
      BY <1>2, <1>3, <2>5 DEF Draw, DrawFails, At, Lost
    <3> QED BY <3>1 DEF RemovalDoes
  <2> QED BY <2>1, <2>2, <2>3, <2>4, <2>5
<1> QED BY <1>4, <1>5

\* What is gone when a removal is past a step of it, and is gone still after the next one.
LEMMA RemovalGoesOn ==
  ASSUME IInv, Clears, NEW w \in Workers, Busy(w), work[w].removal, ~work[w].hurt,
         Advance(w), NEW n, n = On(w), RemovalDoes(w, n), ~Splices(work[w], work'[w]),
         NEW T, T = Words(Tail(work[w].script))
  PROVE  /\ "unregister" \notin T => reg'[n] = None
         /\ "desktops" \notin T => n \notin entry'
         /\ "sockets" \notin T => sock'[n] = "none"
         /\ "remove" \notin T /\ n \notin raced => box'[n] = NoBox
<1> DEFINE h == Head(work[w].script).do
<1>1. Ahead(w) = {h} \cup T
  BY RecordFacts, Ahead1 DEF IInv, Ahead
<1>2. h = "open" => "unregister" \in T
  BY <1>1, HeadFacts
<1>3. /\ "unregister" \notin Ahead(w) => reg[n] = None
      /\ "desktops" \notin Ahead(w) => n \notin entry
      /\ "sockets" \notin Ahead(w) => sock[n] = "none"
      /\ "remove" \notin Ahead(w) /\ n \notin raced => box[n] = NoBox
  BY DEF Clears, IInv, Removes
<1> QED BY <1>1, <1>2, <1>3 DEF RemovalDoes

LEMMA AloneKept ==
  ASSUME IInv, Alone, NEW w \in Workers, Moves(w)
  PROVE  Alone'
<1> SUFFICES ASSUME NEW u \in Workers, Busy(u)', work'[u].removal
             PROVE  ~work'[u].overlaps /\ \A o \in Workers : Busy(o)' => u = o
  BY DEF Alone
<1>1. TypeOK
  BY DEF IInv
<1>2. Busy(u) /\ work[u].removal /\ work'[u].overlaps = work[u].overlaps /\ \A o \in Workers : Busy(o)' => Busy(o)
  BY <1>1, Still
<1> QED BY <1>2 DEF Alone

LEMMA ClearsKept ==
  ASSUME IInv, Alone, Clears, NEW w \in Workers, EngineStep(w) \/ HostStep(w)
  PROVE  Clears'
<1> SUFFICES ASSUME NEW u \in Workers, Busy(u)', work'[u].removal, ~work'[u].hurt
             PROVE  \A n \in Names : n = On(u)' =>
                       /\ "unregister" \notin Ahead(u)' => reg'[n] = None
                       /\ "desktops" \notin Ahead(u)' => n \notin entry'
                       /\ "sockets" \notin Ahead(u)' => sock'[n] = "none"
  <2>1. IInv'
    BY NextKeeps DEF Next
  <2>2. \A v \in Workers : Busy(v)' => On(v)' \in Names
    BY <2>1 DEF IInv, TypeOK
  <2> QED BY <2>2 DEF Clears
<1>1. Moves(w) /\ TypeOK
  BY StepMoves DEF IInv
<1>2. Busy(w) /\ Busy(u) /\ work[u].removal /\ On(u)' = On(u)
  BY <1>1, Still DEF Moves
<1>3. u = w
  BY <1>2 DEF Alone
<1>4. ~work[w].hurt
  BY <1>1, <1>3 DEF Moves, Busy
<1> SUFFICES ASSUME NEW n \in Names, n = On(w)
             PROVE  /\ "unregister" \notin Ahead(w)' => reg'[n] = None
                    /\ "desktops" \notin Ahead(w)' => n \notin entry'
                    /\ "sockets" \notin Ahead(w)' => sock'[n] = "none"
  BY <1>2, <1>3
<1>5. RemovalDoes(w, n)
  BY <1>2, <1>3, RemovalStep
<1>6. CASE Splices(work[w], work'[w]) /\ UNCHANGED <<reg, sock, entry>>
  <2>1. \A k \in {"unregister", "desktops", "sockets"} : k \in Ahead(w)' <=> k \in Ahead(w)
    <3>1. Planned(work[w]) /\ work[w] \in Work /\ work'[w] \in Work /\ work[w].script # <<>>
      BY <1>1, <1>2, <1>3, RecordFacts DEF Moves, IInv
    <3> QED BY <3>1, <1>6, SplicePlanned DEF Ahead
  <2> QED BY <2>1, <1>2, <1>3, <1>4, <1>6 DEF Clears
<1>7. CASE Advance(w) /\ ~Splices(work[w], work'[w])
  <2>1. Head(work[w].script).do \notin {"create", "rebuild"}
    BY <1>2, <1>3, HeadFacts DEF Removing
  <2>2. Passes(work[w], work'[w])
    BY <1>1, <1>2, <1>3, <1>7, <2>1, AdvanceMoves DEF Succeeds
  <2>3. Ahead(w)' = Words(Tail(work[w].script))
    BY <2>2 DEF Passes, Ahead
  <2> QED BY <1>2, <1>3, <1>4, <1>5, <1>7, <2>3, RemovalGoesOn
<1>8. Splices(work[w], work'[w]) => UNCHANGED <<reg, sock, entry>>
  <2> SUFFICES ASSUME Splices(work[w], work'[w]) PROVE UNCHANGED <<reg, sock, entry>>
    OBVIOUS
  <2>1. Head(work[w].script).do = "probe"
    <3>1. Head(work[w].script).do # "ensure"
      BY <1>2, <1>3, HeadFacts DEF Removing
    <3> QED BY <3>1 DEF Splices, Spliced
  <2>2. \A s \in {"spawn", "await", "sockdir", "prescan", "mkdir", "volumes", "create", "start", "restart",
                  "check", "undir", "unvol",
                  "stop", "remove", "rebuild", "sockets", "ensure", "ready", "volume", "unmade", "list", "logs",
                  "prepare", "commit", "exec", "setup", "window", "open", "read", "register", "unregister",
                  "entry", "desktops", "picture", "icons"} : ~At(w, s)
    BY <2>1 DEF At
  <2>3. CASE EngineStep(w)
    BY <2>2, <2>3 DEF EngineStep, Probe, Own, world, Spawn, Await, SockDir, Prescan, Mkdir, EnsureVolumes, Create, Start,
                      Stop, Remove, Rebuild, Check, Undir, Unvol
  <2>4. CASE HostStep(w)
    BY <2>2, <2>4 DEF HostStep, Sockets, Ensure, Ready, MakeVolume, Unmake, List, Logs, Prepare, Commit, Exec, Window,
                      Plain, Open, Read, Register, Draw, DrawFails
  <2> QED BY <2>3, <2>4
<1> QED BY <1>5, <1>6, <1>7, <1>8 DEF RemovalDoes

LEMMA BeginsAlone ==
  ASSUME IInv, Alone, Clears, Overlapping \cap Removals = {}, NEW w \in Workers, Command(w)
  PROVE  Alone' /\ Clears'
<1>1. PICK op \in Ops, n \in Names : \E c \in IF op \in Given THEN Configs ELSE {OldCfg} : Begin(w, op, n, c)
  BY DEF Command
<1>2. PICK c : Begin(w, op, n, c)
  BY <1>1
<1> DEFINE s == Handler[op]
<1>11. PICK force \in Forces(op) :
          Become(w, [Idle EXCEPT !.script = s, !.name = n, !.cfg = c,
                                 !.removal = op \in Removals, !.force = force, !.overlaps = op \in Overlapping,
                                 !.had = op \in Given /\ sock[n] # "none",
                                 !.seen = {v \in c.vols : vol[v].there}, !.status = "busy"])
  BY <1>2 DEF Begin
<1> DEFINE q == [Idle EXCEPT !.script = s, !.name = n, !.cfg = c,
                             !.removal = op \in Removals, !.force = force, !.overlaps = op \in Overlapping,
                             !.had = op \in Given /\ sock[n] # "none",
                             !.seen = {v \in c.vols : vol[v].there}, !.status = "busy"]
<1>3. q.script = s /\ q.removal = (op \in Removals) /\ q.overlaps = (op \in Overlapping)
  BY DEF Idle
<1>4. work'[w] = q /\ \A u \in Workers : u # w => work'[u] = work[u]
  BY <1>11 DEF IInv, TypeOK, Become
<1>5. /\ UNCHANGED world /\ ~Busy(w)
      /\ \A o \in Workers : Busy(o) => op \in Overlapping /\ work[o].overlaps
  BY <1>2 DEF Begin
<1> HIDE DEF q
<1>6. \A u \in Workers : u # w => (Busy(u)' <=> Busy(u))
  BY <1>4 DEF Busy
<1>7. \A u \in Workers : Busy(u) => ~work[u].removal
  BY <1>5 DEF Alone
<1>8. ASSUME NEW u \in Workers, Busy(u)', work'[u].removal
      PROVE  u = w /\ op \in Removals /\ ~work'[u].overlaps /\ \A o \in Workers : ~Busy(o)
  <2>1. u = w
    BY <1>4, <1>6, <1>7, <1>8
  <2> QED BY <2>1, <1>3, <1>4, <1>5, <1>8
<1>9. Alone'
  BY <1>6, <1>8 DEF Alone
<1>10. Clears'
  <2> SUFFICES ASSUME NEW u \in Workers, Busy(u)', work'[u].removal
               PROVE  {"unregister", "desktops", "sockets"} \subseteq Ahead(u)'
    BY DEF Clears
  <2>1. Handles(op, s)
    BY HandlerHandles, OpsAssumption
  <2>2. {"unregister", "desktops", "sockets"} \subseteq Words(s)
    BY <1>8, <2>1 DEF Handles
  <2> QED BY <2>2, <1>3, <1>4, <1>8 DEF Ahead
<1> QED BY <1>9, <1>10

LEMMA RemovalsKept ==
  ASSUME IInv, Alone, Clears, Overlapping \cap Removals = {}, [Next]_vars
  PROVE  Alone' /\ Clears'
<1>0. TypeOK
  BY DEF IInv
<1>1. ASSUME NEW w \in Workers, EngineStep(w) \/ HostStep(w) PROVE Alone' /\ Clears'
  BY <1>1, StepMoves, AloneKept, ClearsKept
<1>2. ASSUME NEW w \in Workers, Die(w) PROVE Alone' /\ Clears'
  <2>1. Moves(w) /\ work'[w] = Idle /\ Busy(w)
    BY <1>2, DieKeeps DEF Die
  <2>2. ~Busy(w)'
    BY <2>1, IdleRecord DEF Busy
  <2>3. \A u \in Workers : Busy(u)' => u # w /\ Busy(u) /\ work'[u].removal = work[u].removal
    BY <1>0, <2>1, <2>2, Still
  <2>4. \A u \in Workers : Busy(u)' => ~work'[u].removal
    BY <2>1, <2>3 DEF Alone
  <2> QED BY <2>1, <2>4, AloneKept DEF Clears
<1>3. CASE Reboot
  <2>1. \A u \in Workers : ~Busy(u)'
    BY <1>3, IdleRecord DEF Reboot, Busy
  <2> QED BY <2>1 DEF Alone, Clears
<1>4. CASE UNCHANGED <<work, reg, entry, sock>>
  BY <1>4 DEF Alone, Clears, Busy, Ahead, On
<1>5. ASSUME NEW n \in Names, Ends(n) \/ UserRemoves(n) PROVE UNCHANGED <<work, reg, entry, sock>>
  BY <1>5 DEF Ends, UserRemoves, Meddle
<1>6. ASSUME NEW v \in Volumes, Use(v) PROVE UNCHANGED <<work, reg, entry, sock>>
  BY <1>6 DEF Use
<1>7. CASE Bind \/ EngineDies \/ UNCHANGED vars
  BY <1>4, <1>7 DEF Bind, EngineDies, vars, world
<1> QED BY <1>1, <1>2, <1>3, <1>4, <1>5, <1>6, <1>7, BeginsAlone DEF Next

LEMMA RemovalEnds ==
  ASSUME IInv, Clears, NEW w \in Workers, EngineStep(w) \/ HostStep(w), Over(w, "ok"), work[w].removal,
         ~work'[w].hurt, NEW n, n = On(w)
  PROVE  box'[n] = NoBox /\ reg'[n] = None /\ sock'[n] = "none" /\ n \notin entry'
<1>0. TypeOK /\ Busy(w) /\ work'[w].status = "ok" /\ n \notin raced' /\ Moves(w)
  BY StepMoves DEF Over, IInv
<1>1. RemovalDoes(w, n) /\ ~(Splices(work[w], work'[w]) /\ work'[w].status = "busy")
  BY <1>0, RemovalStep
<1>2. Advance(w)
  BY <1>1 DEF RemovalDoes
<1>3. Succeeds(w)
  <2>1. Head(work[w].script).do \notin {"create", "rebuild"}
    BY <1>0, HeadFacts DEF Removing
  <2> QED BY <1>0, <1>2, <2>1, AdvanceMoves
<1>4. Words(Tail(work[w].script)) = {}
  <2> DEFINE s == work[w].script
  <2>1. work[w].status = "busy" /\ s \in Seq(Steps) /\ s # <<>> /\ Len(s) \in Nat
    BY <1>0, RecordFacts
  <2>2. Len(s) <= 1
    BY <1>0, <1>3, <2>1 DEF Succeeds
  <2>3. Tail(s) \in Seq(Steps) /\ Len(Tail(s)) = 0
    <3>1. Tail(s) \in Seq(Steps) /\ Len(Tail(s)) = Len(s) - 1 /\ Len(s) >= 1
      BY <2>1, Emptiness
    <3> DEFINE k == Len(s)  m == Len(Tail(s))
    <3>2. k \in Nat /\ k <= 1 /\ k >= 1 /\ m = k - 1
      BY <2>1, <2>2, <3>1
    <3> HIDE DEF k, m
    <3>3. m = 0
      BY <3>2
    <3> QED BY <3>1, <3>3 DEF m
  <2>4. Tail(s) = <<>>
    BY <2>3, Emptiness
  <2> QED BY <2>4, NoWords
<1>5. ~Splices(work[w], work'[w])
  <2>1. work'[w].status = work[w].status => FALSE
    BY <1>0, RecordFacts
  <2> QED BY <2>1 DEF Splices, Like
<1>6. ~work[w].hurt
  BY <1>3 DEF Succeeds
<1>7. n \notin raced
  BY <1>0 DEF Moves
<1> DEFINE T == Words(Tail(work[w].script))
<1>8. T = Words(Tail(work[w].script))
  OBVIOUS
<1> HIDE DEF T
<1> QED BY <1>0, <1>1, <1>2, <1>4, <1>5, <1>6, <1>7, <1>8, RemovalGoesOn

\* Of an environment whose removal succeeded nothing is left, neither container nor
\* configuration, socket directory or entry: of removals that run by themselves.
THEOREM RemovedGone ==
  ASSUME Overlapping \cap Removals = {}
  PROVE  Spec => RemovedMeansGone
<1>1. Init => Alone /\ Clears
  <2> SUFFICES ASSUME Init PROVE Alone /\ Clears
    OBVIOUS
  <2>1. \A w \in Workers : ~Busy(w)
    BY IdleRecord DEF Init, Busy
  <2> QED BY <2>1 DEF Alone, Clears
<1>2. IInv /\ Alone /\ Clears /\ [Next]_vars => (Alone /\ Clears)'
  BY RemovalsKept
<1>3. ASSUME IInv, Clears, [Next]_vars
      PROVE  \A w \in Workers :
               Over(w, "ok") /\ work[w].removal /\ ~work'[w].hurt
               => LET n == On(w) IN
                  box'[n] = NoBox /\ reg'[n] = None /\ sock'[n] = "none" /\ n \notin entry'
  <2> SUFFICES ASSUME NEW w \in Workers, Over(w, "ok"), work[w].removal, ~work'[w].hurt
               PROVE  \A n \in Names : n = On(w) =>
                        box'[n] = NoBox /\ reg'[n] = None /\ sock'[n] = "none" /\ n \notin entry'
    <3>1. \A w \in Workers : Over(w, "ok") => On(w) \in Names
      BY <1>3, RecordFacts DEF IInv, Over
    <3> QED BY <3>1
  <2>1. Busy(w) /\ work'[w].status = "ok" /\ work[w].status = "busy"
    BY <1>3, RecordFacts DEF IInv, Over
  <2>2. ~Stays(work[w], work'[w]) /\ work'[w] # Idle
    BY <2>1, IdleRecord DEF Stays, Like
  <2>3. EngineStep(w) \/ HostStep(w)
    BY <1>3, <2>1, <2>2, NextSteps
  <2> QED BY <1>3, <2>3, RemovalEnds
<1>4. IInv /\ Clears /\ [Next]_vars
      => [\A w \in Workers :
            Over(w, "ok") /\ work[w].removal /\ ~work'[w].hurt
            => LET n == On(w) IN
               box'[n] = NoBox /\ reg'[n] = None /\ sock'[n] = "none" /\ n \notin entry']_vars
  BY <1>3
<1> QED BY <1>1, <1>2, <1>4, EnvironmentHolds, PTL DEF Spec, RemovedMeansGone

(***************************************************************************)
(* Starts                                                                  *)
(***************************************************************************)
LEMMA OwnSocket ==
  ASSUME Kin = {}, NEW n \in Names
  PROVE  Resolved(n) = (IF sock[n] # "none" THEN {n} ELSE {}) /\ SocketPaths(n) = {n}
BY DEF Resolved, SocketPaths

\* A start comes next only after the socket directory.
LEMMA LaunchNext ==
  ASSUME IInv, NEW w \in Workers, Moves(w), At(w, "start")' \/ At(w, "restart")'
  PROVE  Head(work[w].script).do = "sockdir"
<1> DEFINE s == work'[w].script
<1>0. /\ TypeOK /\ Busy(w) /\ Planned(work[w]) /\ work[w] \in Work /\ work[w].script # <<>> /\ work'[w] \in Work
      /\ s # <<>> /\ Head(s).do \in Launches
  BY RecordFacts DEF IInv, Moves, At, Busy, Launches
<1>1. s \in Seq(Steps)
  BY <1>0 DEF Work
<1>2. s[1].do \in Launches
  BY <1>0, <1>1, Onwards
<1> HIDE DEF s
<1>3. CASE Passes(work[w], work'[w])
  <2>1. s = Tail(work[w].script)
    BY <1>3 DEF Passes, s
  <2> QED BY <1>0, <1>2, <2>1, Ahead1
<1>4. ~Fails(work[w], work'[w])
  BY <1>0 DEF Fails, s
<1>5. ~Undoes(work[w], work'[w])
  BY <1>2 DEF Undoes, Undoing, May, Launches, s
<1>6. ~Splices(work[w], work'[w])
  BY <1>0, <1>2, SplicePlanned DEF s
<1> QED BY <1>3, <1>4, <1>5, <1>6 DEF Moves

LEMMA HousedKept ==
  ASSUME IInv, Housed, NEW w \in Workers, Moves(w),
         \A n \in Names \ raced : n # On(w) => sock'[n] = sock[n] /\ (Runs(n)' => Runs(n)),
         \A n \in Names \ raced : n = On(w) =>
           /\ Runs(n)' => sock'[n] = "used"
           /\ Head(work[w].script).do = "sockdir" /\ Busy(w)' => sock'[n] # "none"
  PROVE  Housed'
<1>0. TypeOK /\ Raced /\ raced' = raced /\ Busy(w)
  BY DEF IInv, Moves
<1>1. ASSUME NEW n \in Names \ raced', Runs(n)' PROVE sock'[n] = "used"
  BY <1>0, <1>1 DEF Housed
<1>2. ASSUME NEW u \in Workers, At(u, "start")' \/ At(u, "restart")', NEW n, n = On(u)', n \notin raced'
      PROVE  sock'[n] # "none"
  <2>1. Busy(u)' /\ Busy(u) /\ On(u)' = On(u) /\ On(u) \in Names
    BY <1>0, <1>2, Still, RecordFacts DEF At
  <2>2. CASE u = w
    <3>1. Head(work[w].script).do = "sockdir"
      BY <1>2, <2>2, LaunchNext
    <3> QED BY <1>0, <1>2, <2>1, <2>2, <3>1
  <2>3. CASE u # w
    <3>1. At(u, "start") \/ At(u, "restart")
      BY <1>2, <2>3 DEF Moves, Stays, At, Busy
    <3>2. n # On(w)
      BY <1>0, <1>2, <2>1, <2>3 DEF Raced
    <3> QED BY <1>0, <1>2, <2>1, <3>1, <3>2 DEF Housed
  <2> QED BY <2>2, <2>3
<1> QED BY <1>1, <1>2 DEF Housed

LEMMA QuietHoused ==
  ASSUME IInv, Housed, NEW w \in Workers, Moves(w), UNCHANGED <<box, sock>>, Head(work[w].script).do # "sockdir"
  PROVE  Housed'
<1>1. \A n \in Names \ raced : sock'[n] = sock[n] /\ (Runs(n)' => Runs(n)) /\ (Runs(n)' => sock'[n] = "used")
  BY DEF Runs, Housed
<1> QED BY <1>1, HousedKept

LEMMA SocketHoused ==
  ASSUME IInv, Housed, Kin = {}, NEW w \in Workers, SockDir(w) \/ Mkdir(w) \/ Undir(w) \/ Sockets(w), Moves(w)
  PROVE  Housed'
<1> DEFINE h == Head(work[w].script).do
<1>0. TypeOK /\ Busy(w) /\ On(w) \in Names /\ sock \in [Names -> {"none", "empty", "used"}] /\ UNCHANGED box
  BY RecordFacts DEF IInv, TypeOK, SockDir, Mkdir, Undir, Sockets, At, Lost, world
<1>1. CASE Break(w) /\ UNCHANGED world /\ h \in {"sockdir", "mkdir", "sockets"}
  <2>1. Misses(w) /\ UNCHANGED <<box, sock>>
    BY <1>0, <1>1, BreakMoves DEF IInv, world
  <2>2. h = "sockdir" => ~Busy(w)'
    BY <2>1, MustMisses DEF Creation
  <2>3. \A n \in Names \ raced : sock'[n] = sock[n] /\ (Runs(n)' => Runs(n)) /\ (Runs(n)' => sock'[n] = "used")
    BY <2>1 DEF Runs, Housed
  <2> QED BY <2>2, <2>3, HousedKept
<1>2. CASE sock' = [sock EXCEPT ![On(w)] = IF @ = "none" THEN "empty" ELSE @]
  <2>1. \A n \in Names \ raced : n # On(w) => sock'[n] = sock[n] /\ (Runs(n)' => Runs(n))
    BY <1>0, <1>2 DEF Runs
  <2>2. \A n \in Names \ raced : n = On(w) => (Runs(n)' => sock'[n] = "used") /\ sock'[n] # "none"
    BY <1>0, <1>2 DEF Runs, Housed
  <2> QED BY <2>1, <2>2, HousedKept
<1>3. CASE SockDir(w)
  BY <1>0, <1>1, <1>2, <1>3, OwnSocket DEF SockDir, Lost, At
<1>4. CASE Mkdir(w)
  BY <1>1, <1>2, <1>4 DEF Mkdir, Lost, At
<1>5. CASE Undir(w)
  <2>1. h = "undir" /\ sock' = [sock EXCEPT ![On(w)] = IF @ = "empty" THEN "none" ELSE @]
    BY <1>5 DEF Undir, At
  <2>2. \A n \in Names \ raced : n # On(w) => sock'[n] = sock[n] /\ (Runs(n)' => Runs(n))
    BY <1>0, <2>1 DEF Runs
  <2>3. \A n \in Names \ raced : n = On(w) => (Runs(n)' => sock'[n] = "used")
    BY <1>0, <2>1 DEF Runs, Housed
  <2> QED BY <2>1, <2>2, <2>3, HousedKept
<1>6. CASE Sockets(w) /\ sock' = [m \in Names |-> IF m \in Resolved(On(w)) THEN "none" ELSE sock[m]]
  <2>1. h = "sockets"
    BY <1>6 DEF Sockets, At
  <2>2. \A n \in Names \ raced : n # On(w) => sock'[n] = sock[n] /\ (Runs(n)' => Runs(n))
    BY <1>0, <1>6, OwnSocket DEF Runs
  <2>3. work[w].removal /\ "remove" \notin Ahead(w)
    <3>1. Ahead(w) = {h} \cup Words(Tail(work[w].script)) /\ \A b \in Words(Tail(work[w].script)) : ~Barred(h, b)
      BY <1>0, RecordFacts, Ahead1 DEF Ahead, IInv
    <3>2. "sockets" \in Ahead(w) => work[w].removal
      BY <1>0, HeadFacts
    <3> QED BY <2>1, <3>1, <3>2 DEF Barred
  <2>4. \A n \in Names \ raced : n = On(w) => ~Runs(n)'
    BY <1>0, <2>3 DEF IInv, Removes, Runs, NoBox
  <2> QED BY <2>1, <2>2, <2>4, HousedKept
<1> QED BY <1>1, <1>3, <1>4, <1>5, <1>6 DEF Sockets, Lost, At

LEMMA EngineHoused ==
  ASSUME IInv, Housed, NEW w \in Workers, Create(w) \/ Start(w) \/ Stop(w) \/ Remove(w) \/ Rebuild(w), Moves(w)
  PROVE  Housed'
<1>0. /\ TypeOK /\ Busy(w) /\ On(w) \in Names /\ sock \in [Names -> {"none", "empty", "used"}]
      /\ Head(work[w].script).do # "sockdir"
      /\ box \in [Names -> [st : {"none", "created", "running", "stopped"}, cfg : Configs \cup {None}]]
  BY RecordFacts DEF IInv, TypeOK, Create, Start, Stop, Remove, Rebuild, At
<1>1. ASSUME NEW c, box' = [box EXCEPT ![On(w)] = c], sock' \in {sock, [sock EXCEPT ![On(w)] = "used"]},
             c.st = "running" => sock' = [sock EXCEPT ![On(w)] = "used"]
      PROVE  Housed'
  <2>1. \A n \in Names \ raced : n # On(w) => sock'[n] = sock[n] /\ (Runs(n)' => Runs(n))
    BY <1>0, <1>1 DEF Runs
  <2>2. \A n \in Names \ raced : n = On(w) => (Runs(n)' => sock'[n] = "used")
    BY <1>0, <1>1 DEF Runs
  <2> QED BY <1>0, <2>1, <2>2, HousedKept
<1>2. CASE UNCHANGED <<box, sock>>
  BY <1>0, <1>2, QuietHoused
<1>3. CASE Create(w)
  BY <1>1, <1>2, <1>3 DEF Create, Lost, world
<1>4. CASE Start(w)
  BY <1>1, <1>2, <1>4 DEF Start, Turn, Lost, world
<1>5. CASE Stop(w)
  BY <1>0, <1>1, <1>2, <1>5 DEF Stop, Turn, Lost, world
<1>6. CASE Remove(w)
  BY <1>1, <1>2, <1>6 DEF Remove, Turn, Lost, world, NoBox
<1>7. CASE Rebuild(w)
  <2>1. CASE /\ box' = [box EXCEPT ![On(w)] = [st |-> "running", cfg |-> work[w].cfg]]
             /\ sock' = [sock EXCEPT ![On(w)] = "used"]
    BY <1>1, <2>1
  <2>2. ASSUME NEW st \in {"running", "stopped"}, box' = [box EXCEPT ![On(w)].st = st],
               sock' = [sock EXCEPT ![On(w)] = IF box'[On(w)].st = "running" THEN "used" ELSE @]
        PROVE  Housed'
    <3>1. box' = [box EXCEPT ![On(w)] = [box[On(w)] EXCEPT !.st = st]]
      BY <2>2
    <3>2. box'[On(w)].st = st
      BY <1>0, <2>2
    <3>3. [box[On(w)] EXCEPT !.st = st].st = st
      BY <1>0
    <3>4. sock' = (IF st = "running" THEN [sock EXCEPT ![On(w)] = "used"] ELSE sock)
      BY <1>0, <2>2, <3>2
    <3> QED BY <1>1, <3>1, <3>3, <3>4
  <2>3. CASE /\ box' = [box EXCEPT ![On(w)] = NoBox]
             /\ sock' = [sock EXCEPT ![On(w)] = IF box'[On(w)].st = "running" THEN "used" ELSE @]
    <3>1. box'[On(w)].st = "none"
      BY <1>0, <2>3 DEF NoBox
    <3>2. sock' = sock
      BY <1>0, <2>3, <3>1
    <3> QED BY <1>1, <2>3, <3>2 DEF NoBox
  <2> QED BY <1>2, <1>7, <2>1, <2>2, <2>3 DEF Rebuild
<1> QED BY <1>3, <1>4, <1>5, <1>6, <1>7

LEMMA StepHoused ==
  ASSUME IInv, Housed, Kin = {}, NEW w \in Workers, EngineStep(w) \/ HostStep(w)
  PROVE  Housed'
<1>0. Moves(w)
  BY StepMoves
<1>1. CASE SockDir(w) \/ Mkdir(w) \/ Undir(w) \/ Sockets(w)
  BY <1>0, <1>1, SocketHoused
<1>2. CASE Create(w) \/ Start(w) \/ Stop(w) \/ Remove(w) \/ Rebuild(w)
  BY <1>0, <1>2, EngineHoused
<1>3. CASE Probe(w) \/ Spawn(w) \/ Await(w) \/ Prescan(w) \/ EnsureVolumes(w) \/ Check(w) \/ Unvol(w)
  BY <1>0, <1>3, QuietHoused DEF Probe, Spawn, Await, Prescan, EnsureVolumes, Check, Unvol, Own, world, At
<1>4. CASE Ensure(w) \/ Ready(w) \/ MakeVolume(w) \/ Unmake(w) \/ List(w) \/ Logs(w) \/ Prepare(w) \/ Commit(w)
           \/ Exec(w) \/ Window(w)
  BY <1>0, <1>4, QuietHoused DEF Ensure, Ready, MakeVolume, Unmake, List, Logs, Prepare, Commit, Exec, Window, Plain,
                                 Lost, world, At
<1>5. CASE Open(w) \/ Read(w) \/ Register(w) \/ Draw(w) \/ DrawFails(w)
  BY <1>0, <1>5, QuietHoused DEF Open, Read, Register, Draw, DrawFails, Lost, world, At
<1> QED BY <1>1, <1>2, <1>3, <1>4, <1>5 DEF EngineStep, HostStep

LEMMA BeginHoused ==
  ASSUME IInv, Housed, NEW w \in Workers, Command(w)
  PROVE  Housed'
<1>1. PICK op \in Ops, n \in Names : \E c \in IF op \in Given THEN Configs ELSE {OldCfg} : Begin(w, op, n, c)
  BY DEF Command
<1>2. PICK c : Begin(w, op, n, c)
  BY <1>1
<1> DEFINE s == Handler[op]
<1>11. PICK force \in Forces(op) :
          Become(w, [Idle EXCEPT !.script = s, !.name = n, !.cfg = c,
                                 !.removal = op \in Removals, !.force = force, !.overlaps = op \in Overlapping,
                                 !.had = op \in Given /\ sock[n] # "none",
                                 !.seen = {v \in c.vols : vol[v].there}, !.status = "busy"])
  BY <1>2 DEF Begin
<1> DEFINE q == [Idle EXCEPT !.script = s, !.name = n, !.cfg = c,
                             !.removal = op \in Removals, !.force = force, !.overlaps = op \in Overlapping,
                             !.had = op \in Given /\ sock[n] # "none",
                             !.seen = {v \in c.vols : vol[v].there}, !.status = "busy"]
<1>3. q.script = s
  BY DEF Idle
<1>4. work'[w] = q /\ \A u \in Workers : u # w => work'[u] = work[u]
  BY <1>11 DEF IInv, TypeOK, Become
<1>5. UNCHANGED <<box, sock>> /\ raced \subseteq raced'
  BY <1>2 DEF Begin, world
<1>6. s \in Seq(Steps) /\ s # <<>> /\ s[1].do \notin Launches
  BY HandlerHandles, OpsAssumption DEF Handles
<1>7. Head(s).do \notin Launches
  BY <1>6, Onwards
<1> HIDE DEF q, s
<1>8. ~At(w, "start")' /\ ~At(w, "restart")'
  BY <1>3, <1>4, <1>7 DEF At, Launches
<1>9. \A u \in Workers : u # w => On(u)' = On(u) /\ (At(u, "start")' <=> At(u, "start"))
                                  /\ (At(u, "restart")' <=> At(u, "restart"))
  BY <1>4 DEF On, At, Busy
<1> QED BY <1>5, <1>8, <1>9 DEF Housed, Runs

LEMMA OutsideHoused ==
  ASSUME Housed, UNCHANGED <<work, sock>>, raced \subseteq raced', \A n \in Names : Runs(n)' => Runs(n)
  PROVE  Housed'
<1>1. \A u \in Workers : On(u)' = On(u) /\ (At(u, "start")' <=> At(u, "start")) /\ (At(u, "restart")' <=> At(u, "restart"))
  BY DEF On, At, Busy
<1> QED BY <1>1 DEF Housed

LEMMA StartsKept ==
  ASSUME IInv, Housed, Kin = {}, [Next]_vars
  PROVE  Housed'
<1>0. TypeOK
  BY DEF IInv
<1>1. ASSUME NEW w \in Workers, Die(w) PROVE Housed'
  <2>1. Moves(w) /\ work'[w] = Idle /\ UNCHANGED <<box, sock>>
    BY <1>1, DieKeeps DEF Die, world
  <2>2. ~Busy(w)'
    BY <2>1, IdleRecord DEF Busy
  <2>3. \A n \in Names \ raced : sock'[n] = sock[n] /\ (Runs(n)' => Runs(n)) /\ (Runs(n)' => sock'[n] = "used")
    BY <2>1 DEF Runs, Housed
  <2> QED BY <2>1, <2>2, <2>3, HousedKept
<1>2. CASE Reboot
  <2>1. \A u \in Workers : ~Busy(u)'
    BY <1>2, IdleRecord DEF Reboot, Busy
  <2>2. \A n \in Names : ~Runs(n)'
    <3>1. /\ box' = [n \in Names |-> IF Runs(n) THEN [box[n] EXCEPT !.st = "stopped"] ELSE box[n]]
          /\ box \in [Names -> [st : {"none", "created", "running", "stopped"}, cfg : Configs \cup {None}]]
      BY <1>0, <1>2 DEF Reboot, TypeOK
    <3> QED BY <3>1 DEF Runs
  <2> QED BY <2>1, <2>2 DEF Housed, At
<1>3. ASSUME NEW n \in Names, Ends(n) \/ UserRemoves(n) PROVE Housed'
  <2>1. PICK c : Meddle(n, c) /\ c.st # "running"
    <3>1. CASE Ends(n)
      <4>1. [box[n] EXCEPT !.st = "stopped"].st = "stopped"
        BY <1>0 DEF TypeOK
      <4> QED BY <3>1, <4>1 DEF Ends
    <3>2. CASE UserRemoves(n)
      BY <3>2 DEF UserRemoves, NoBox
    <3> QED BY <1>3, <3>1, <3>2
  <2>2. box' = [box EXCEPT ![n] = c] /\ UNCHANGED <<work, sock>> /\ raced \subseteq raced'
    BY <2>1 DEF Meddle
  <2>3. \A m \in Names : Runs(m)' => Runs(m)
    BY <1>0, <2>1, <2>2 DEF Runs, TypeOK
  <2> QED BY <2>2, <2>3, OutsideHoused
<1>4. CASE UNCHANGED <<work, sock, box, raced>>
  BY <1>4, OutsideHoused DEF Runs
<1>5. ASSUME NEW v \in Volumes, Use(v) PROVE UNCHANGED <<work, sock, box, raced>>
  BY <1>5 DEF Use, past
<1>6. CASE Bind \/ EngineDies \/ UNCHANGED vars
  BY <1>4, <1>6 DEF Bind, EngineDies, vars, world, past
<1> QED BY <1>1, <1>2, <1>3, <1>4, <1>5, <1>6, BeginHoused, StepHoused DEF Next

LEMMA FailsWithCause ==
  ASSUME IInv, Housed, Kin = {}, NEW w \in Workers, EngineStep(w) \/ HostStep(w), Over(w, "failed"), ~work'[w].hurt,
         NEW n, n = On(w)
  PROVE  /\ work[w].removal => At(w, "remove") /\ Runs(n) /\ ~work[w].force
         /\ At(w, "start") => ~Exists(n) \/ Runs(n)
         /\ At(w, "restart") => ~Exists(n)
         /\ At(w, "ready") => ~Runs(n)
<1> DEFINE h == Head(work[w].script).do
<1>0. TypeOK /\ Busy(w) /\ work'[w].status = "failed" /\ work[w].status = "busy" /\ n \notin raced' /\ Moves(w)
      /\ Planned(work[w]) /\ n \in Names
  BY StepMoves, RecordFacts DEF Over, IInv
<1>1. ~Break(w) /\ ~Unheard(w)
  BY <1>0, BreakMoves
<1>2. n \notin raced
  BY <1>0 DEF Moves
<1>3. Advance(w) /\ h \notin {"create", "rebuild"} => work[w].doomed
  <2> SUFFICES ASSUME Advance(w), h \notin {"create", "rebuild"}, ~work[w].doomed PROVE FALSE
    OBVIOUS
  <2>1. Succeeds(w) /\ Len(work[w].script) \in Nat /\ Len(work[w].script) >= 1
    BY <1>0, AdvanceMoves, RecordFacts
  <2> DEFINE k == Len(work[w].script)
  <2>2. k = 1 \/ k > 1
    <3>1. k \in Nat /\ k >= 1
      BY <2>1
    <3> HIDE DEF k
    <3> QED BY <3>1
  <2> QED BY <1>0, <2>1, <2>2 DEF Succeeds
<1>4. work[w].removal => At(w, "remove") /\ Runs(n) /\ ~work[w].force
  <2> SUFFICES ASSUME work[w].removal, ~(At(w, "remove") /\ Denied(w)) PROVE FALSE
    BY DEF Denied
  <2>1. RemovalDoes(w, n)
    BY <1>0, RemovalStep
  <2>2. Advance(w)
    BY <1>0, <2>1 DEF RemovalDoes
  <2>3. h \in Removing /\ ~work[w].doomed
    BY <1>0, HeadFacts DEF Removing, Clearing
  <2> QED BY <1>3, <2>2, <2>3 DEF Removing
<1>5. h \in {"start", "restart", "ready"} => ~Advance(w)
  <2>1. h \in {"start", "restart", "ready"} => ~work[w].doomed
    BY <1>0, HeadFacts DEF Clearing
  <2> QED BY <1>3, <2>1
<1>6. ASSUME At(w, "start") \/ At(w, "restart")
      PROVE  (At(w, "start") => ~Exists(n) \/ Runs(n)) /\ (At(w, "restart") => ~Exists(n))
  <2>1. h \in {"start", "restart"} /\ sock[n] # "none"
    BY <1>2, <1>6 DEF At, Housed
  <2>2. \A s \in {"probe", "spawn", "await", "sockdir", "prescan", "mkdir", "volumes", "create",
                  "check", "undir", "unvol",
                  "stop", "remove", "rebuild", "sockets", "ensure", "ready", "volume", "unmade", "list", "logs",
                  "prepare", "commit", "exec", "setup", "window", "open", "read", "register", "unregister",
                  "entry", "desktops", "picture", "icons"} : ~At(w, s)
    BY <2>1 DEF At
  <2>3. ~HostStep(w)
    BY <2>2 DEF HostStep, Sockets, Ensure, Ready, MakeVolume, Unmake, List, Logs, Prepare, Commit, Exec, Window,
                Plain, Open, Read, Register, Draw, DrawFails
  <2>4. Start(w)
    BY <2>2, <2>3 DEF EngineStep, Probe, Spawn, Await, SockDir, Prescan, Mkdir, EnsureVolumes, Create,
                      Stop, Remove, Rebuild, Check, Undir, Unvol
  <2>5. ~Startable(w)
    BY <1>1, <1>5, <2>1, <2>4 DEF Start, Lost
  <2>6. At(w, "restart") => ~At(w, "start")
    BY DEF At
  <2> QED BY <2>1, <2>5, <2>6 DEF Startable
<1>7. ASSUME At(w, "ready"), Runs(n) PROVE FALSE
  <2>1. h = "ready"
    BY <1>7 DEF At
  <2>2. \A s \in {"probe", "spawn", "await", "sockdir", "prescan", "mkdir", "volumes", "create", "start", "restart",
                  "check", "undir", "unvol",
                  "stop", "remove", "rebuild", "sockets", "ensure", "volume", "unmade", "list", "logs",
                  "prepare", "commit", "exec", "setup", "window", "open", "read", "register", "unregister",
                  "entry", "desktops", "picture", "icons"} : ~At(w, s)
    BY <2>1 DEF At
  <2>3. ~EngineStep(w)
    BY <2>2 DEF EngineStep, Probe, Spawn, Await, SockDir, Prescan, Mkdir, EnsureVolumes, Create, Start,
                      Stop, Remove, Rebuild, Check, Undir, Unvol
  <2>4. Ready(w)
    BY <2>2, <2>3 DEF HostStep, Sockets, Ensure, MakeVolume, Unmake, List, Logs, Prepare, Commit, Exec, Window,
                Plain, Open, Read, Register, Draw, DrawFails
  <2>5. {m \in SocketPaths(n) : sock[m] = "used" /\ Runs(m)} # SocketPaths(n)
    BY <1>1, <1>5, <2>1, <2>4 DEF Ready
  <2>6. sock[n] = "used" /\ SocketPaths(n) = {n}
    BY <1>0, <1>2, <1>7, OwnSocket DEF Housed
  <2> QED BY <1>7, <2>5, <2>6
<1> QED BY <1>4, <1>6, <1>7

\* mod.rs:2043, 1938: while the engine does what it is asked to, a removal fails only where
\* it would need force, however much is gone already, and a container is started unless it
\* is gone or runs, whatever a reboot has swept away: where no name is another's with a
\* hyphen and more.
THEOREM FailsForCause ==
  ASSUME Kin = {}
  PROVE  Spec => FailsOnlyForCause
<1>1. Init => Housed
  <2> SUFFICES ASSUME Init PROVE Housed
    OBVIOUS
  <2>1. \A w \in Workers : ~Busy(w)
    BY IdleRecord DEF Init, Busy
  <2>2. PICK n \in Names, c \in Configs, made \in BOOLEAN, by \in Legacies : Found(n, c, made, by)
    BY DEF Init
  <2>3. \A m \in Names : Runs(m) => sock[m] = "used"
    <3>1. /\ box = [m \in Names |-> IF made /\ m = n THEN [st |-> "running", cfg |-> IF by = "none" THEN c ELSE OldCfg]
                                    ELSE NoBox]
          /\ sock = [m \in Names |-> IF made /\ m = n THEN "used" ELSE "none"]
      BY <2>2 DEF Found
    <3> QED BY <3>1 DEF Runs, NoBox
  <2> QED BY <2>1, <2>3 DEF Housed, At
<1>2. IInv /\ Housed /\ [Next]_vars => Housed'
  BY StartsKept
<1>3. ASSUME IInv, Housed, [Next]_vars
      PROVE  \A w \in Workers :
               Over(w, "failed") /\ ~work'[w].hurt
               => LET n == On(w) IN
                  /\ work[w].removal => At(w, "remove") /\ Runs(n) /\ ~work[w].force
                  /\ At(w, "start") => ~Exists(n) \/ Runs(n)
                  /\ At(w, "restart") => ~Exists(n)
                  /\ At(w, "ready") => ~Runs(n)
  <2> SUFFICES ASSUME NEW w \in Workers, Over(w, "failed"), ~work'[w].hurt
               PROVE  LET n == On(w) IN
                      /\ work[w].removal => At(w, "remove") /\ Runs(n) /\ ~work[w].force
                      /\ At(w, "start") => ~Exists(n) \/ Runs(n)
                      /\ At(w, "restart") => ~Exists(n)
                      /\ At(w, "ready") => ~Runs(n)
    OBVIOUS
  <2>1. Busy(w) /\ work'[w].status = "failed" /\ work[w].status = "busy"
    BY <1>3, RecordFacts DEF IInv, Over
  <2>2. ~Stays(work[w], work'[w]) /\ work'[w] # Idle
    BY <2>1, IdleRecord DEF Stays, Like
  <2>3. EngineStep(w) \/ HostStep(w)
    BY <1>3, <2>1, <2>2, NextSteps
  <2> QED BY <1>3, <2>3, FailsWithCause
<1>4. IInv /\ Housed /\ [Next]_vars
      => [\A w \in Workers :
            Over(w, "failed") /\ ~work'[w].hurt
            => LET n == On(w) IN
               /\ work[w].removal => At(w, "remove") /\ Runs(n) /\ ~work[w].force
               /\ At(w, "start") => ~Exists(n) \/ Runs(n)
               /\ At(w, "restart") => ~Exists(n)
               /\ At(w, "ready") => ~Runs(n)]_vars
  BY <1>3
<1> QED BY <1>1, <1>2, <1>4, EnvironmentHolds, PTL DEF Spec, FailsOnlyForCause
=============================================================================

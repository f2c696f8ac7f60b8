---------------------------- MODULE ProvisionProofs ----------------------------
(***************************************************************************)
(* Provision for any configurations, hosts, images and numbers of commands *)
(* and failures.                                                           *)
(*                                                                         *)
(* First what the functions compute: the sections of the rule books go     *)
(* over what is in hand entry by entry, and every entry only adds          *)
(* (Follows); hence what the user has declared is passed on (PassesOn) and *)
(* what is made of it is well made (MadeWell).  Then the accounts and what *)
(* preparation makes of them, and the steps of a command.  IInv is         *)
(* inductive; each action keeps each of its parts.                         *)
(***************************************************************************)
EXTENDS Provision, TLAPS, WellFoundedInduction
-----------------------------------------------------------------------------
(* The inductive invariant *)

\* The steps a command still has before it.
ToCreate == <<"create", "start", "wait", "prepare_first", "wait", "register">>
ToStart == <<"start", "wait", "prepare_first", "wait", "register">>
ToWait == <<"wait", "prepare_first", "wait", "register">>
ToPrepare == <<"prepare_first", "wait", "register">>
ToRebuild == <<"rebuild", "prepare", "wait", "register">>
ToPrepareAgain == <<"prepare", "wait", "register">>
ToEnd == <<"wait", "register">>
ToRegister == <<"register">>
Starting == <<"start", "wait">>
Started == <<"wait">>
Restarting == <<"restart">>
Outside == {<<>>, ToRebuild, Starting, Started, Restarting}
Steps == Outside \cup {ToCreate, ToStart, ToWait, ToPrepare, ToPrepareAgain, ToEnd, ToRegister}

\* What a container is when it has been made.
RunDir(b) == Get(b.env, "XDG_RUNTIME_DIR")
Spoken(c) == "HOST_XDG_RUNTIME_DIR" \in DOMAIN c.env => c.env["HOST_XDG_RUNTIME_DIR"] # <<>>
Wins(b) ==
    /\ \A k \in DOMAIN b.cfg.env :
          k # "EASYTIDY_USER_NAME" \/ b.cfg.user = None => b.env[k] = b.cfg.env[k]
    /\ \A i \in DOMAIN b.cfg.mounts :
          (b.cfg.mounts[i].to # <<>> /\ \A p \in Known : ~Contains(b.cfg.mounts[i].to, p))
          => \E j \in DOMAIN b.cfg.mounts :
                b.mounts[b.cfg.mounts[i].to] = expand_path(b.cfg.mounts[j].from, "me")
Named(env) == "EASYTIDY_USER_NAME" \in DOMAIN env
Told(b) ==
    /\ Named(b.env) => b.env["EASYTIDY_USER_NAME"] \in Texts
    /\ b.cfg.user # None => Named(b.env) /\ b.env["EASYTIDY_USER_NAME"] = <<b.cfg.user>>
Placed(b) ==
    /\ <<>> \notin DOMAIN b.mounts /\ DOMAIN b.mounts \cap b.tmpfs = {}
    /\ Bypass(b.cfg) /\ RunUser(RunDir(b)) => RunDir(b) \in b.tmpfs
    /\ b.tmpfs # {} => /\ Bypass(b.cfg) /\ b.tmpfs = {RunDir(b)} /\ RunUser(RunDir(b))
                       /\ Spoken(b.cfg) => Get(b.env, "HOST_XDG_RUNTIME_DIR") # <<>>
WellMade(b) == b.cfg \in Configs /\ b.image \in Seq(Accounts) /\ Wins(b) /\ Told(b) /\ Placed(b)

FileSets == [passwd : Seq(Accounts), group : STRING, homes : SUBSET STRING, strays : BOOLEAN,
             scripts : SUBSET STRING, tools : SUBSET STRING, rest : SUBSET STRING]
Typed ==
    /\ box = NoBox \/ WellMade(box)
    /\ fs \in FileSets
    /\ reg # None => Loaded(reg) \in Configs
    /\ exec = None \/ exec \in Plans
    /\ server = None \/ server \in Accounts
    /\ failed \in BOOLEAN
    /\ up \in {"down", "start", "restart"}
    /\ faults \in Nat

\* The command in hand and what it has made so far.
InStep ==
    /\ todo \in Steps
    /\ todo \notin {<<>>, Starting, Started, Restarting} => given \in Configs
    /\ todo = ToCreate => box = NoBox
    /\ todo \in {ToRebuild, Starting, Started, Restarting} => box # NoBox
    /\ todo \in {ToStart, ToWait, ToPrepare, ToPrepareAgain, ToEnd, ToRegister} => box # NoBox /\ given = box.cfg
    /\ todo \in {ToCreate, ToStart, ToWait, ToPrepare} => reg = None
    /\ todo \in {ToStart, ToWait, ToPrepare, ToPrepareAgain, Starting} => exec = None
    /\ todo \in {ToStart, Starting} => up = "down"
    /\ todo \in {ToWait, ToPrepare, ToPrepareAgain} => up = "start"

Life ==
    /\ box = NoBox => reg = None /\ up = "down" /\ fs.homes = {}
    /\ up = "down" <=> server = None
    /\ up = "down" => exec = None
    /\ exec # None /\ ~failed => todo \in {ToEnd, Started}
    /\ up = "down" /\ todo \in {ToEnd, ToRegister} => failed

\* One account has the user's number, and others do not lose theirs.
OneAccount(p) ==
    /\ \A i, j \in OfUid(p) : i = j
    /\ \A i \in Held(p), j \in DOMAIN p : p[i].name = p[j].name => i = j
    /\ OfUid(p) = {} => \A j \in DOMAIN p : p[j].name # "1000"
OthersIn(p, image) == \A i \in DOMAIN image : image[i].uid # "uid" => \E j \in DOMAIN p : p[j] = image[i]
Begun == {"group", "home", "dirs", "repair", "scripts"}
AccountsKept ==
    /\ OneAccount(fs.passwd)
    /\ box # NoBox => OthersIn(fs.passwd, box.image)
    /\ fs.homes # {} => Real(fs.passwd) # {}
    /\ exec # None => /\ exec.at \in Begun \cup {"called", "passwd"}
                      /\ exec.at \in Begun => Real(fs.passwd) # {}
                      /\ exec.at = "passwd" => exec = plan_prepare(fs, exec.user, exec.first)
                      /\ exec.user # "/"

\* Who the user is.
Home(passwd, name) == resolve_identity(passwd, name).home
Unnamed == box # NoBox /\ ~Named(box.env)
Decided == box # NoBox /\ (box.cfg.user # None \/ ~Named(box.env))
SameUser ==
    /\ Unnamed => /\ reg # None => Loaded(reg).user = None
                  /\ exec # None => exec.user = None
                  /\ Home(fs.passwd, None) = Home(box.image, None)
    /\ Decided => /\ box.home # None => box.home = Home(fs.passwd, box.cfg.user)
                  /\ server # None => server.home = Home(fs.passwd, box.cfg.user)
    /\ exec # None /\ exec.at # "called" => exec.home = Home(fs.passwd, exec.user)

\* How far preparation has come, and what holds when it has ended well.
Prepares ==
    exec # None =>
    /\ exec.at \in {"dirs", "repair", "scripts"} => exec.home \in fs.homes /\ {"fonts"} \cap fs.tools \subseteq fs.rest
    /\ exec.at = "scripts" => {"ets"} \cup ({"buttons"} \cap fs.tools) \subseteq fs.rest
    /\ exec.at \in {"repair", "scripts"} /\ box.tmpfs # {} /\ Spoken(box.cfg) => rundir = "user"
    /\ todo = ToEnd => exec.user = box.cfg.user
    /\ todo = Started => reg # None /\ exec.user = Loaded(reg).user
Settled ==
    /\ box # NoBox /\ exec = None /\ ~failed
    /\ todo \in {ToEnd, ToRegister} \/ (todo \in Outside /\ reg # None /\ Loaded(reg) = box.cfg)
Prepared ==
    Settled =>
    /\ fs.homes # {} =>
          /\ Home(fs.passwd, box.cfg.user) \in fs.homes \cap fs.scripts
          /\ ({"fonts", "buttons"} \cap fs.tools) \cup {"ets"} \subseteq fs.rest
    /\ up = "start" /\ box.tmpfs # {} /\ Spoken(box.cfg) => rundir = "user"
NothingAstray ==
    faults = 0 /\ fs.strays /\ box # NoBox =>
    \/ todo \in {ToStart, ToWait, ToPrepare}
    \/ todo = ToEnd /\ exec # None /\ exec.first /\ exec.at # "scripts"

Spared == hostdir # "touched"
\* What the server remembers is where its link leads, or is, unless it could not be written.
Remembered == /\ box = NoBox => last = {}
              /\ ~unwritten => last \subseteq {link, LinkPath}
Followed == Remembered /\ CookieIsFollowed

IInv == /\ Typed /\ InStep /\ Life /\ AccountsKept /\ SameUser
        /\ Prepares /\ Prepared /\ NothingAstray /\ Spared /\ Followed

-----------------------------------------------------------------------------
(* Texts *)

LEMMA NatMin ==
  ASSUME NEW T \in SUBSET Nat, T # {}
  PROVE  \E m \in T : \A n \in T : m <= n
<1>1. \E x \in T : \A y \in T : ~(<<y, x>> \in OpToRel(<, Nat))
  BY NatLessThanWellFounded, WFMin
<1>2. PICK x \in T : \A y \in T : ~(<<y, x>> \in OpToRel(<, Nat))
  BY <1>1
<1>3. \A y \in T : ~(y < x)
  BY <1>2 DEF OpToRel
<1> QED
  BY <1>3

LEMMA NatMax ==
  ASSUME NEW n \in Nat, NEW T \in SUBSET (1..n), T # {}
  PROVE  \E m \in T : \A k \in T : k <= m
<1> DEFINE U == {u \in Nat : \E k \in T : u = n - k}
<1>1. U # {}
  <2>1. PICK k \in T : TRUE
    OBVIOUS
  <2>2. n - k \in U
    BY <2>1
  <2> QED
    BY <2>2
<1>2. PICK u \in U : \A w \in U : u <= w
  BY <1>1, NatMin
<1>3. PICK m \in T : u = n - m
  BY <1>2
<1>4. \A k \in T : n - m <= n - k
  <2> TAKE k \in T
  <2>1. n - k \in U
    OBVIOUS
  <2> QED
    BY <2>1, <1>2, <1>3
<1>5. \A k \in T : k <= m
  BY <1>4
<1> QED
  BY <1>5

Piece(dict, p) == IF p \in Names THEN Get(dict, p) ELSE <<p>>
Expands(text, dict, n, f) == f = [i \in 0..n |-> IF i = 0 THEN <<>> ELSE f[i - 1] \o Piece(dict, text[i])]

LEMMA ExpansionExists ==
  ASSUME NEW text, NEW dict, NEW n \in Nat
  PROVE  \E f : Expands(text, dict, n, f)
<1> DEFINE T == {m \in Nat : ~\E f : Expands(text, dict, m, f)}
<1> SUFFICES ASSUME T # {} PROVE FALSE
  OBVIOUS
<1>1. PICK m \in T : \A k \in T : m <= k
  BY NatMin
<1>2. m # 0
  <2> DEFINE g == [i \in 0..0 |-> <<>>]
  <2>1. Expands(text, dict, 0, g)
    BY DEF Expands
  <2> QED
    BY <2>1, <1>1
<1>3. m - 1 \in Nat /\ m - 1 \notin T
  BY <1>1, <1>2
<1>4. PICK g : Expands(text, dict, m - 1, g)
  BY <1>3
<1> DEFINE h == [i \in 0..m |-> IF i = m THEN g[m - 1] \o Piece(dict, text[m]) ELSE g[i]]
<1>5. \A i \in 0..m : h[i] = IF i = 0 THEN <<>> ELSE h[i - 1] \o Piece(dict, text[i])
  <2> TAKE i \in 0..m
  <2>1. CASE i = 0
    BY <2>1, <1>2, <1>3, <1>4 DEF Expands
  <2>2. CASE i = m
    BY <2>2, <1>2, <1>3
  <2>3. CASE i # 0 /\ i # m
    <3>1. i \in 0..(m - 1) /\ i - 1 \in 0..m /\ i - 1 # m
      BY <2>3
    <3>2. g[i] = g[i - 1] \o Piece(dict, text[i])
      BY <2>3, <3>1, <1>4 DEF Expands
    <3> QED
      BY <3>1, <3>2, <2>3
  <2> QED
    BY <2>1, <2>2, <2>3
<1>6. Expands(text, dict, m, h)
  BY <1>5 DEF Expands
<1> QED
  BY <1>1, <1>6

LEMMA ExpansionIs ==
  ASSUME NEW text \in Texts, NEW dict
  PROVE  \E f : Expands(text, dict, Len(text), f) /\ expand_host_vars(text, dict) = f[Len(text)]
<1> DEFINE F == CHOOSE f : Expands(text, dict, Len(text), f)
<1>1. Expands(text, dict, Len(text), F)
  BY ExpansionExists DEF Texts
<1>2. expand_host_vars(text, dict) = F[Len(text)]
  BY DEF expand_host_vars, Expands, Piece
<1> QED
  BY <1>1, <1>2

Plainly(dict) == \A k \in DOMAIN dict : dict[k] \in Plain

LEMMA Joined ==
  ASSUME NEW S, NEW s \in Seq(S), NEW t \in Seq(S)
  PROVE  s \o t \in Seq(S) /\ Len(s \o t) = Len(s) + Len(t)
OBVIOUS

LEMMA OnePiece ==
  ASSUME NEW S, NEW x \in S
  PROVE  <<x>> \in Seq(S) /\ Len(<<x>>) = 1 /\ <<>> \o <<x>> = <<x>>
OBVIOUS

LEMMA PairOfPieces ==
  ASSUME NEW S, NEW x \in S, NEW y \in S
  PROVE  <<x, y>> \in Seq(S) /\ Len(<<x, y>>) = 2 /\ <<x, y>>[1] = x /\ <<x, y>>[2] = y
OBVIOUS

LEMMA PlainPiece ==
  ASSUME NEW p \in STRING, NEW dict, Plainly(dict)
  PROVE  Piece(dict, p) \in Plain
<1>1. CASE p \in Names
  BY <1>1 DEF Piece, Get, Plainly, Plain
<1>2. CASE p \notin Names
  <2>1. <<p>> \in Seq(STRING \ Names)
    BY <1>2, OnePiece
  <2> QED
    BY <1>2, <2>1 DEF Piece, Plain
<1> QED
  BY <1>1, <1>2

\* gui.rs expand_host_vars: what is expanded has no variables in it, if no value has.
LEMMA PlainExpansion ==
  ASSUME NEW text \in Texts, NEW dict, Plainly(dict)
  PROVE  expand_host_vars(text, dict) \in Plain
<1>1. PICK f : Expands(text, dict, Len(text), f) /\ expand_host_vars(text, dict) = f[Len(text)]
  BY ExpansionIs
<1> DEFINE T == {m \in 0..Len(text) : f[m] \notin Plain}
<1>2. Len(text) \in Nat /\ \A i \in 1..Len(text) : text[i] \in STRING
  BY DEF Texts
<1>3. f[0] \in Plain
  BY <1>1, <1>2 DEF Expands, Plain
<1>4. \A i \in 1..Len(text) : f[i] = f[i - 1] \o Piece(dict, text[i])
  BY <1>1, <1>2 DEF Expands
<1>5. T = {}
  <2> SUFFICES ASSUME T # {} PROVE FALSE
    OBVIOUS
  <2>1. T \subseteq Nat
    BY <1>2
  <2>2. PICK m \in T : \A k \in T : m <= k
    BY <2>1, NatMin
  <2>3. m \in 1..Len(text) /\ m - 1 \in 0..Len(text) /\ m - 1 \notin T
    BY <1>2, <1>3, <2>1, <2>2
  <2>4. f[m - 1] \in Plain
    BY <2>3
  <2>5. Piece(dict, text[m]) \in Plain
    BY <1>2, <2>3, PlainPiece
  <2>6. f[m] \in Plain
    BY <1>4, <2>3, <2>4, <2>5, Joined DEF Plain
  <2> QED
    BY <2>2, <2>6
<1> QED
  BY <1>1, <1>2, <1>5

\* A text of two pieces that begins with a piece of its own does not come out empty.
LEMMA TwoPieces ==
  ASSUME NEW x \in STRING \ Names, NEW y \in STRING, NEW dict, Plainly(dict)
  PROVE  <<x, y>> \in Texts /\ expand_host_vars(<<x, y>>, dict) # <<>>
<1> DEFINE t == <<x, y>>
<1>1. t \in Seq(STRING) /\ Len(t) = 2 /\ t[1] = x /\ t[2] = y
  BY PairOfPieces
<1> HIDE DEF t
<1>2. PICK f : Expands(t, dict, 2, f) /\ expand_host_vars(t, dict) = f[2]
  BY <1>1, ExpansionIs DEF Texts
<1>3. f[0] = <<>> /\ f[1] = f[0] \o Piece(dict, t[1]) /\ f[2] = f[1] \o Piece(dict, t[2])
  <2>1. \A i \in 0..2 : f[i] = IF i = 0 THEN <<>> ELSE f[i - 1] \o Piece(dict, t[i])
    BY <1>2 DEF Expands
  <2>2. f[0] = <<>>
    BY <2>1
  <2>3. \A i, j \in 0..2 : j = i - 1 => f[i] = f[j] \o Piece(dict, t[i])
    <3> SUFFICES ASSUME NEW i \in 0..2, NEW j \in 0..2, j = i - 1
                 PROVE  f[i] = f[j] \o Piece(dict, t[i])
      OBVIOUS
    <3>1. i # 0
      OBVIOUS
    <3>2. f[i] = f[i - 1] \o Piece(dict, t[i])
      BY <2>1, <3>1, Zenon
    <3> QED
      BY <3>2
  <2>4. 0 \in 0..2 /\ 1 \in 0..2 /\ 2 \in 0..2 /\ 0 = 1 - 1 /\ 1 = 2 - 1
    OBVIOUS
  <2> QED
    BY <2>2, <2>3, <2>4
<1>4. Piece(dict, t[1]) = <<x>>
  BY <1>1 DEF Piece
<1>5. f[1] = <<x>>
  BY <1>3, <1>4, OnePiece
<1>6. Piece(dict, y) \in Plain
  BY PlainPiece
<1>7. f[2] = <<x>> \o Piece(dict, y)
  BY <1>1, <1>3, <1>5
<1>8. <<x>> \in Seq(STRING \ Names) /\ Len(<<x>>) = 1
  BY OnePiece
<1>9. \A r \in Plain : Len(<<x>> \o r) # 0
  <2> TAKE r \in Plain
  <2>1. r \in Seq(STRING \ Names)
    BY DEF Plain
  <2>2. Len(<<x>> \o r) = Len(<<x>>) + Len(r) /\ Len(r) \in Nat
    BY <2>1, <1>8, Joined
  <2> HIDE DEF t
  <2> QED
    BY <2>2, <1>8
<1>10. f[2] # <<>>
  BY <1>6, <1>7, <1>9
<1> QED
  BY <1>1, <1>2, <1>10 DEF t, Texts

-----------------------------------------------------------------------------
(* Passing on: what is in hand only grows *)

MountTexts == [from : Texts, to : Texts]
\* What is in hand, and what a step of the rule books may make of it: it adds.
IsHand(a) ==
    /\ a = [env |-> a.env, cenv |-> a.cenv, mounts |-> a.mounts, keep |-> a.keep]
    /\ Plainly(a.cenv) /\ a.mounts \in Seq(MountTexts)
Grown(a, b) ==
    /\ \A k \in DOMAIN a.env : k \in DOMAIN b.env /\ b.env[k] = a.env[k]
    /\ \A k \in DOMAIN b.env \ DOMAIN a.env : b.env[k] # <<>> /\ b.env[k] \in Plain
    /\ Len(a.mounts) <= Len(b.mounts)
    /\ \A i \in 1..Len(a.mounts) : b.mounts[i] = a.mounts[i]
    /\ \A i \in (Len(a.mounts) + 1)..Len(b.mounts) :
          b.mounts[i].to \in Plain /\ \A j \in 1..Len(a.mounts) : b.mounts[i].to # a.mounts[j].to
\* b has come of a.
Follows(a, b) == IsHand(b) /\ Grown(a, b)

LEMMA FollowsSelf == ASSUME NEW a, IsHand(a) PROVE Follows(a, a)
BY DEF Follows, Grown, IsHand

LEMMA FollowsOn ==
  ASSUME NEW a, NEW b, NEW c, IsHand(a), Follows(a, b), Follows(b, c)
  PROVE  Follows(a, c)
<1>1. /\ \A k \in DOMAIN a.env : k \in DOMAIN c.env /\ c.env[k] = a.env[k]
      /\ \A k \in DOMAIN c.env \ DOMAIN a.env : c.env[k] # <<>> /\ c.env[k] \in Plain
  BY DEF Follows, Grown
<1>2. Len(a.mounts) \in Nat /\ Len(b.mounts) \in Nat /\ Len(c.mounts) \in Nat
  BY DEF Follows, IsHand
<1>3. Len(a.mounts) <= Len(c.mounts) /\ \A i \in 1..Len(a.mounts) : c.mounts[i] = a.mounts[i]
  BY <1>2 DEF Follows, Grown
<1>4. ASSUME NEW i \in (Len(a.mounts) + 1)..Len(c.mounts)
      PROVE  c.mounts[i].to \in Plain /\ \A j \in 1..Len(a.mounts) : c.mounts[i].to # a.mounts[j].to
  <2>1. CASE i <= Len(b.mounts)
    <3>1. c.mounts[i] = b.mounts[i]
      BY <1>2, <2>1 DEF Follows, Grown
    <3> QED
      BY <1>2, <2>1, <3>1 DEF Follows, Grown
  <2>2. CASE i > Len(b.mounts)
    <3>1. i \in (Len(b.mounts) + 1)..Len(c.mounts)
      BY <1>2, <2>2
    <3>2. c.mounts[i].to \in Plain /\ \A j \in 1..Len(b.mounts) : c.mounts[i].to # b.mounts[j].to
      BY <3>1 DEF Follows, Grown
    <3>3. \A j \in 1..Len(a.mounts) : j \in 1..Len(b.mounts) /\ b.mounts[j] = a.mounts[j]
      BY <1>2 DEF Follows, Grown
    <3> QED
      BY <3>2, <3>3
  <2> QED
    BY <1>2, <2>1, <2>2
<1> QED
  BY <1>1, <1>3, <1>4 DEF Follows, Grown

LEMMA PutIs ==
  ASSUME NEW env, NEW k, NEW v
  PROVE  /\ DOMAIN Put(env, k, v) = DOMAIN env \cup {k}
         /\ Put(env, k, v)[k] = v
         /\ \A x \in DOMAIN env \ {k} : Put(env, k, v)[x] = env[x]
BY DEF Put

LEMMA OverIs ==
  ASSUME NEW env, NEW rest
  PROVE  /\ DOMAIN Over(env, rest) = DOMAIN env \cup DOMAIN rest
         /\ \A x \in DOMAIN env : Over(env, rest)[x] = env[x]
         /\ \A x \in DOMAIN rest \ DOMAIN env : Over(env, rest)[x] = rest[x]
BY DEF Over

LEMMA DictPlain ==
  ASSUME NEW a, NEW view, NEW hv \in HostEnvs, IsHand(a)
  PROVE  Plainly(Dict(a, view, hv)) /\ Plainly(hv.vars)
<1>1. Plainly(hv.vars)
  BY HostsAre DEF IsEnv, Plainly
<1>2. Plainly(Over(a.cenv, hv.vars))
  <2> DEFINE o == Over(a.cenv, hv.vars)
  <2>1. /\ DOMAIN o = DOMAIN a.cenv \cup DOMAIN hv.vars
        /\ \A x \in DOMAIN a.cenv : o[x] = a.cenv[x]
        /\ \A x \in DOMAIN hv.vars \ DOMAIN a.cenv : o[x] = hv.vars[x]
    BY OverIs
  <2> HIDE DEF o
  <2>2. Plainly(o)
    BY <1>1, <2>1 DEF IsHand, Plainly
  <2> QED
    BY <2>2 DEF o
<1> QED
  BY <1>1, <1>2 DEF Dict, merged_dict

LEMMA EnvEntryFollows ==
  ASSUME NEW a, NEW k, NEW v \in Plain, NEW view, NEW suppress, IsHand(a)
  PROVE  /\ Follows(a, EnvEntry(a, k, v, view, suppress))
         /\ k # "XAUTHORITY" /\ v # <<>> /\ ~suppress => k \in DOMAIN EnvEntry(a, k, v, view, suppress).env
<1> DEFINE b == EnvEntry(a, k, v, view, suppress)
<1>1. CASE k = "XAUTHORITY" \/ k \in DOMAIN a.env \/ v = <<>> \/ (suppress /\ k = "XDG_RUNTIME_DIR")
  <2>1. b = a
    BY <1>1 DEF EnvEntry
  <2> QED
    BY <1>1, <2>1, FollowsSelf
<1>2. CASE ~(k = "XAUTHORITY" \/ k \in DOMAIN a.env \/ v = <<>> \/ (suppress /\ k = "XDG_RUNTIME_DIR"))
  <2> DEFINE e == Put(a.env, k, v)
             d == IF view THEN Put(a.cenv, k, v) ELSE a.cenv
  <2>1. b = [a EXCEPT !.env = Put(@, k, v), !.cenv = IF view THEN Put(@, k, v) ELSE @]
    BY <1>2 DEF EnvEntry
  <2>2. [a EXCEPT !.env = Put(@, k, v), !.cenv = IF view THEN Put(@, k, v) ELSE @]
        = [a EXCEPT !.env = e, !.cenv = d]
    OBVIOUS
  <2>3. Plainly(d)
    <3> DEFINE p == Put(a.cenv, k, v)
    <3>1. DOMAIN p = DOMAIN a.cenv \cup {k} /\ p[k] = v /\ \A x \in DOMAIN a.cenv \ {k} : p[x] = a.cenv[x]
      BY DEF Put
    <3> HIDE DEF p
    <3>2. Plainly(p) /\ Plainly(a.cenv)
      BY <3>1 DEF IsHand, Plainly
    <3> QED
      BY <3>2 DEF p
  <2>4. DOMAIN e = DOMAIN a.env \cup {k} /\ e[k] = v /\ \A x \in DOMAIN a.env : e[x] = a.env[x]
    <3>1. DOMAIN e = DOMAIN a.env \cup {k} /\ e[k] = v /\ \A x \in DOMAIN a.env \ {k} : e[x] = a.env[x]
      BY DEF Put
    <3> HIDE DEF e
    <3> QED
      BY <1>2, <3>1
  <2> HIDE DEF e, d
  <2>5. [a EXCEPT !.env = e, !.cenv = d] = [env |-> e, cenv |-> d, mounts |-> a.mounts, keep |-> a.keep]
    <3>1. [a EXCEPT !.env = e] = [env |-> e, cenv |-> a.cenv, mounts |-> a.mounts, keep |-> a.keep]
      BY DEF IsHand
    <3> DEFINE p == [env |-> e, cenv |-> a.cenv, mounts |-> a.mounts, keep |-> a.keep]
    <3>2. [a EXCEPT !.env = e, !.cenv = d] = [p EXCEPT !.cenv = d]
      BY <3>1
    <3>3. [p EXCEPT !.cenv = d] = [env |-> e, cenv |-> d, mounts |-> a.mounts, keep |-> a.keep]
      OBVIOUS
    <3> QED
      BY <3>2, <3>3
  <2>6. b = [env |-> e, cenv |-> d, mounts |-> a.mounts, keep |-> a.keep]
    BY <2>1, <2>2, <2>5
  <2> HIDE DEF b
  <2>7. b.env = e /\ b.cenv = d /\ b.mounts = a.mounts
    BY <2>6
  <2>8. IsHand(b)
    BY <2>3, <2>6, <2>7 DEF IsHand
  <2>9. Grown(a, b)
    BY <1>2, <2>4, <2>7 DEF Grown, IsHand
  <2> QED
    BY <2>4, <2>7, <2>8, <2>9 DEF Follows, b
<1> QED
  BY <1>1, <1>2

LEMMA MountEntryFollows ==
  ASSUME NEW a, NEW from \in Plain, NEW to \in Plain, NEW skip, NEW absent, IsHand(a)
  PROVE  /\ Follows(a, MountEntry(a, from, to, skip, absent))
         /\ MountEntry(a, from, to, skip, absent).env = a.env
<1> DEFINE b == MountEntry(a, from, to, skip, absent)
           refused == skip \/ from = <<>> \/ to = <<>> \/ from \in absent
                        \/ \E i \in DOMAIN a.mounts : a.mounts[i].to = to
<1>1. CASE refused
  <2>1. b = a
    BY <1>1 DEF MountEntry
  <2> QED
    BY <2>1, FollowsSelf
<1>2. CASE ~refused
  <2> DEFINE m == [from |-> from, to |-> to]
             n == Append(a.mounts, m)
  <2>1. b = [a EXCEPT !.mounts = Append(@, m)]
    BY <1>2 DEF MountEntry
  <2>2. [a EXCEPT !.mounts = Append(@, m)] = [a EXCEPT !.mounts = n]
    OBVIOUS
  <2>3. m \in MountTexts
    <3>1. \A s \in Seq(STRING \ Names) : s \in Seq(STRING)
      OBVIOUS
    <3> QED
      BY <3>1 DEF MountTexts, Plain, Texts
  <2>4. \A i \in DOMAIN a.mounts : a.mounts[i].to # to
    BY <1>2
  <2>5. m.to = to
    OBVIOUS
  <2> HIDE DEF m
  <2>6. /\ n \in Seq(MountTexts) /\ Len(n) = Len(a.mounts) + 1 /\ n[Len(a.mounts) + 1] = m
        /\ \A i \in 1..Len(a.mounts) : n[i] = a.mounts[i]
        /\ Len(a.mounts) \in Nat
    BY <2>3 DEF IsHand
  <2> HIDE DEF n
  <2>7. [a EXCEPT !.mounts = n] = [env |-> a.env, cenv |-> a.cenv, mounts |-> n, keep |-> a.keep]
    BY DEF IsHand
  <2>8. b = [env |-> a.env, cenv |-> a.cenv, mounts |-> n, keep |-> a.keep]
    BY <2>1, <2>2, <2>7
  <2> HIDE DEF b
  <2>9. b.env = a.env /\ b.cenv = a.cenv /\ b.mounts = n
    BY <2>8
  <2>10. IsHand(b)
    BY <2>6, <2>8, <2>9 DEF IsHand
  <2>11. \A i \in (Len(a.mounts) + 1)..Len(n) : n[i] = m
    BY <2>6
  <2>12. \A j \in 1..Len(a.mounts) : a.mounts[j].to # to
    BY <2>4 DEF IsHand
  <2>13. Grown(a, b)
    BY <2>5, <2>6, <2>9, <2>11, <2>12 DEF Grown
  <2> QED
    BY <2>9, <2>10, <2>13 DEF Follows, b
<1> QED
  BY <1>1, <1>2

LEMMA Chain ==
  ASSUME NEW n \in Nat, NEW f, IsHand(f[0]),
         \A i \in 1..n : IsHand(f[i - 1]) => Follows(f[i - 1], f[i])
  PROVE  \A i \in 0..n : \A j \in i..n : Follows(f[i], f[j])
<1>1. \A j \in 0..n : IsHand(f[j])
  <2> DEFINE T == {j \in 0..n : ~IsHand(f[j])}
  <2> SUFFICES ASSUME T # {} PROVE FALSE
    OBVIOUS
  <2>1. PICK m \in T : \A k \in T : m <= k
    <3>1. T \subseteq Nat
      OBVIOUS
    <3> QED
      BY <3>1, NatMin
  <2>2. m \in 1..n /\ m - 1 \in 0..n /\ m - 1 \notin T
    BY <2>1
  <2> QED
    BY <2>1, <2>2 DEF Follows
<1>2. ASSUME NEW i \in 0..n
      PROVE  \A j \in i..n : Follows(f[i], f[j])
  <2> DEFINE T == {j \in i..n : ~Follows(f[i], f[j])}
  <2> SUFFICES ASSUME T # {} PROVE FALSE
    OBVIOUS
  <2>1. PICK m \in T : \A k \in T : m <= k
    <3>1. T \subseteq Nat
      OBVIOUS
    <3> QED
      BY <3>1, NatMin
  <2>2. m # i
    BY <1>1, <2>1, FollowsSelf
  <2>3. m \in 1..n /\ m - 1 \in 0..n /\ m - 1 \in i..n /\ m - 1 \notin T
    BY <2>1, <2>2
  <2>4. Follows(f[i], f[m - 1]) /\ Follows(f[m - 1], f[m])
    BY <1>1, <2>3
  <2> QED
    BY <1>1, <2>1, <2>4, FollowsOn
<1> QED
  BY <1>2

\* f and g are the functions inject_section goes over.
EnvSteps(a, s, view, suppress, hv, n, f) ==
    f = [i \in 0..n |-> IF i = 0 THEN [a EXCEPT !.keep = @ \/ s.keep]
                        ELSE InjectEnv(f[i - 1], s.env[i], view, suppress, hv)]
MountSteps(b, s, view, suppress, hv, n, g) ==
    g = [i \in 0..n |-> IF i = 0 THEN b ELSE InjectMount(g[i - 1], s.mounts[i], view, suppress, hv)]

LEMMA EnvStepsExist ==
  ASSUME NEW a, NEW s, NEW view, NEW suppress, NEW hv, NEW n \in Nat
  PROVE  \E f : EnvSteps(a, s, view, suppress, hv, n, f)
<1> DEFINE E0 == [a EXCEPT !.keep = @ \/ s.keep]
           Is(m, f) == EnvSteps(a, s, view, suppress, hv, m, f)
           T == {m \in Nat : ~\E f : Is(m, f)}
<1> SUFFICES ASSUME T # {} PROVE FALSE
  OBVIOUS
<1>0. \A m, f : Is(m, f) <=>
        f = [i \in 0..m |-> IF i = 0 THEN E0 ELSE InjectEnv(f[i - 1], s.env[i], view, suppress, hv)]
  BY DEF EnvSteps
<1> HIDE DEF E0, Is
<1>1. PICK m \in T : \A k \in T : m <= k
  BY NatMin
<1>2. m # 0
  <2> DEFINE g == [i \in 0..0 |-> E0]
  <2>1. g = [i \in 0..0 |-> IF i = 0 THEN E0 ELSE InjectEnv(g[i - 1], s.env[i], view, suppress, hv)]
    OBVIOUS
  <2>2. Is(0, g)
    BY <1>0, <2>1
  <2> QED
    BY <2>2, <1>1
<1>3. m - 1 \in Nat /\ m - 1 \notin T
  BY <1>1, <1>2
<1>4. PICK g : Is(m - 1, g)
  BY <1>3
<1> DEFINE h == [i \in 0..m |-> IF i = m THEN InjectEnv(g[m - 1], s.env[m], view, suppress, hv) ELSE g[i]]
<1>5. \A i \in 0..m : h[i] = IF i = 0 THEN E0 ELSE InjectEnv(h[i - 1], s.env[i], view, suppress, hv)
  <2> TAKE i \in 0..m
  <2>1. CASE i = 0
    BY <2>1, <1>0, <1>2, <1>3, <1>4
  <2>2. CASE i = m
    BY <2>2, <1>2, <1>3
  <2>3. CASE i # 0 /\ i # m
    <3>1. i \in 0..(m - 1) /\ i - 1 \in 0..m /\ i - 1 # m
      BY <2>3
    <3>2. g[i] = InjectEnv(g[i - 1], s.env[i], view, suppress, hv)
      BY <2>3, <3>1, <1>0, <1>4
    <3> QED
      BY <3>1, <3>2, <2>3
  <2> QED
    BY <2>1, <2>2, <2>3
<1>6. Is(m, h)
  BY <1>0, <1>5
<1> QED
  BY <1>1, <1>6

LEMMA MountStepsExist ==
  ASSUME NEW b, NEW s, NEW view, NEW suppress, NEW hv, NEW n \in Nat
  PROVE  \E g : MountSteps(b, s, view, suppress, hv, n, g)
<1> DEFINE Is(m, f) == MountSteps(b, s, view, suppress, hv, m, f)
           T == {m \in Nat : ~\E f : Is(m, f)}
<1> SUFFICES ASSUME T # {} PROVE FALSE
  OBVIOUS
<1>0. \A m, f : Is(m, f) <=>
        f = [i \in 0..m |-> IF i = 0 THEN b ELSE InjectMount(f[i - 1], s.mounts[i], view, suppress, hv)]
  BY DEF MountSteps
<1> HIDE DEF Is
<1>1. PICK m \in T : \A k \in T : m <= k
  BY NatMin
<1>2. m # 0
  <2> DEFINE g == [i \in 0..0 |-> b]
  <2>1. g = [i \in 0..0 |-> IF i = 0 THEN b ELSE InjectMount(g[i - 1], s.mounts[i], view, suppress, hv)]
    OBVIOUS
  <2>2. Is(0, g)
    BY <1>0, <2>1
  <2> QED
    BY <2>2, <1>1
<1>3. m - 1 \in Nat /\ m - 1 \notin T
  BY <1>1, <1>2
<1>4. PICK g : Is(m - 1, g)
  BY <1>3
<1> DEFINE h == [i \in 0..m |-> IF i = m THEN InjectMount(g[m - 1], s.mounts[m], view, suppress, hv) ELSE g[i]]
<1>5. \A i \in 0..m : h[i] = IF i = 0 THEN b ELSE InjectMount(h[i - 1], s.mounts[i], view, suppress, hv)
  <2> TAKE i \in 0..m
  <2>1. CASE i = 0
    BY <2>1, <1>0, <1>2, <1>3, <1>4
  <2>2. CASE i = m
    BY <2>2, <1>2, <1>3
  <2>3. CASE i # 0 /\ i # m
    <3>1. i \in 0..(m - 1) /\ i - 1 \in 0..m /\ i - 1 # m
      BY <2>3
    <3>2. g[i] = InjectMount(g[i - 1], s.mounts[i], view, suppress, hv)
      BY <2>3, <3>1, <1>0, <1>4
    <3> QED
      BY <3>1, <3>2, <2>3
  <2> QED
    BY <2>1, <2>2, <2>3
<1>6. Is(m, h)
  BY <1>0, <1>5
<1> QED
  BY <1>1, <1>6

Entries == [key : STRING, value : Texts]
MountRules == [from : Texts, to : Texts, must : BOOLEAN]
IsSection(s) == s.env \in Seq(Entries) /\ s.mounts \in Seq(MountRules)

LEMMA SectionIs ==
  ASSUME NEW a, NEW s, NEW view, NEW suppress, NEW hv, IsSection(s)
  PROVE  \E f, g : /\ EnvSteps(a, s, view, suppress, hv, Len(s.env), f)
                   /\ MountSteps(f[Len(s.env)], s, view, suppress, hv, Len(s.mounts), g)
                   /\ inject_section(a, s, view, suppress, hv) = g[Len(s.mounts)]
<1> DEFINE F == CHOOSE f : EnvSteps(a, s, view, suppress, hv, Len(s.env), f)
           G == CHOOSE g : MountSteps(F[Len(s.env)], s, view, suppress, hv, Len(s.mounts), g)
<1>1. Len(s.env) \in Nat /\ Len(s.mounts) \in Nat
  BY DEF IsSection
<1>2. EnvSteps(a, s, view, suppress, hv, Len(s.env), F)
  BY <1>1, EnvStepsExist
<1>3. MountSteps(F[Len(s.env)], s, view, suppress, hv, Len(s.mounts), G)
  <2> HIDE DEF F
  <2> QED
    BY <1>1, MountStepsExist
<1>4. inject_section(a, s, view, suppress, hv) = G[Len(s.mounts)]
  BY DEF inject_section, EnvSteps, MountSteps
<1> HIDE DEF F, G
<1> QED
  BY <1>2, <1>3, <1>4

\* A text that begins with a piece of its own.
Rooted(text) == \E x \in STRING \ Names, y \in STRING : text = <<x, y>>

LEMMA InjectEnvFollows ==
  ASSUME NEW a, NEW e \in Entries, NEW view, NEW suppress, NEW hv \in HostEnvs, IsHand(a)
  PROVE  /\ Follows(a, InjectEnv(a, e, view, suppress, hv))
         /\ e.key # "XAUTHORITY" /\ ~suppress /\ Rooted(e.value)
            => e.key \in DOMAIN InjectEnv(a, e, view, suppress, hv).env
<1> DEFINE v == expand_host_vars(e.value, Dict(a, view, hv))
<1>1. Plainly(Dict(a, view, hv)) /\ e.value \in Texts
  BY DictPlain DEF Entries
<1>2. v \in Plain
  BY <1>1, PlainExpansion
<1>3. Rooted(e.value) => v # <<>>
  BY <1>1, TwoPieces DEF Rooted
<1>4. InjectEnv(a, e, view, suppress, hv) = EnvEntry(a, e.key, v, view, suppress)
  BY DEF InjectEnv
<1> HIDE DEF v
<1> QED
  BY <1>2, <1>3, <1>4, EnvEntryFollows

LEMMA InjectMountFollows ==
  ASSUME NEW a, NEW m \in MountRules, NEW view, NEW suppress, NEW hv \in HostEnvs, IsHand(a)
  PROVE  Follows(a, InjectMount(a, m, view, suppress, hv))
<1>1. Plainly(Dict(a, view, hv)) /\ Plainly(hv.vars)
  BY DictPlain
<1>2. m.from \in Texts /\ m.to \in Texts
  BY DEF MountRules
<1>3. expand_host_vars(m.from, hv.vars) \in Plain /\ expand_host_vars(m.to, Dict(a, view, hv)) \in Plain
  BY <1>1, <1>2, PlainExpansion
<1> QED
  BY <1>3, MountEntryFollows DEF InjectMount

\* gui.rs inject_section: what was there stays, what is added is not empty and lies
\* elsewhere; a value that begins with a path is taken.
LEMMA SectionFollows ==
  ASSUME NEW a, NEW s, NEW view, NEW suppress, NEW hv \in HostEnvs, IsHand(a), IsSection(s)
  PROVE  /\ Follows(a, inject_section(a, s, view, suppress, hv))
         /\ \A i \in 1..Len(s.env) :
              s.env[i].key # "XAUTHORITY" /\ ~suppress /\ Rooted(s.env[i].value)
              => s.env[i].key \in DOMAIN inject_section(a, s, view, suppress, hv).env
<1> DEFINE r == inject_section(a, s, view, suppress, hv)
           n == Len(s.env)
           m == Len(s.mounts)
<1>1. /\ n \in Nat /\ m \in Nat
      /\ \A i \in 1..n : s.env[i] \in Entries
      /\ \A i \in 1..m : s.mounts[i] \in MountRules
  BY DEF IsSection
<1>2. PICK f, g : /\ EnvSteps(a, s, view, suppress, hv, n, f)
                  /\ MountSteps(f[n], s, view, suppress, hv, m, g)
                  /\ r = g[m]
  BY SectionIs
<1> HIDE DEF n, m, r
<1> DEFINE a0 == [a EXCEPT !.keep = @ \/ s.keep]
<1>3. f[0] = a0 /\ \A i \in 1..n : f[i] = InjectEnv(f[i - 1], s.env[i], view, suppress, hv)
  <2>1. \A i \in 0..n : f[i] = IF i = 0 THEN a0 ELSE InjectEnv(f[i - 1], s.env[i], view, suppress, hv)
    BY <1>2 DEF EnvSteps
  <2> HIDE DEF a0
  <2> QED
    BY <1>1, <2>1
<1>4. g[0] = f[n] /\ \A i \in 1..m : g[i] = InjectMount(g[i - 1], s.mounts[i], view, suppress, hv)
  <2>1. \A i \in 0..m : g[i] = IF i = 0 THEN f[n] ELSE InjectMount(g[i - 1], s.mounts[i], view, suppress, hv)
    BY <1>2 DEF MountSteps
  <2> QED
    BY <1>1, <2>1
<1>5. IsHand(a0) /\ Follows(a, a0)
  <2> DEFINE k == a.keep \/ s.keep
  <2>1. a0 = [a EXCEPT !.keep = k]
    OBVIOUS
  <2> HIDE DEF k
  <2>2. [a EXCEPT !.keep = k] = [env |-> a.env, cenv |-> a.cenv, mounts |-> a.mounts, keep |-> k]
    BY DEF IsHand
  <2>3. a0 = [env |-> a.env, cenv |-> a.cenv, mounts |-> a.mounts, keep |-> k]
    BY <2>1, <2>2
  <2> HIDE DEF a0
  <2>4. a0.env = a.env /\ a0.cenv = a.cenv /\ a0.mounts = a.mounts /\ a0.keep = k
    BY <2>3
  <2> QED
    BY <2>3, <2>4 DEF IsHand, Follows, Grown
<1> HIDE DEF a0
<1>6. \A i \in 0..n : \A j \in i..n : Follows(f[i], f[j])
  <2>1. \A i \in 1..n : IsHand(f[i - 1]) => Follows(f[i - 1], f[i])
    BY <1>1, <1>3, InjectEnvFollows
  <2>2. IsHand(f[0])
    BY <1>3, <1>5
  <2> QED
    BY <1>1, <2>1, <2>2, Chain
<1>7. IsHand(f[n]) /\ Follows(a, f[n])
  <2>1. Follows(a0, f[n])
    BY <1>1, <1>3, <1>6
  <2> QED
    BY <1>5, <2>1, FollowsOn DEF Follows
<1>8. Follows(f[n], r)
  <2>1. \A i \in 1..m : IsHand(g[i - 1]) => Follows(g[i - 1], g[i])
    BY <1>1, <1>4, InjectMountFollows
  <2>2. IsHand(g[0])
    BY <1>4, <1>7
  <2>3. \A i \in 0..m : \A j \in i..m : Follows(g[i], g[j])
    BY <1>1, <2>1, <2>2, Chain
  <2> QED
    BY <1>1, <1>2, <1>4, <2>3
<1>9. Follows(a, r)
  BY <1>7, <1>8, FollowsOn
<1>10. ASSUME NEW i \in 1..n, s.env[i].key # "XAUTHORITY", ~suppress, Rooted(s.env[i].value)
       PROVE  s.env[i].key \in DOMAIN r.env
  <2>1. i - 1 \in 0..n /\ i \in 0..n /\ n \in i..n /\ i - 1 \in (i - 1)..n
    BY <1>1
  <2>2. IsHand(f[i - 1])
    BY <1>6, <2>1 DEF Follows
  <2>3. s.env[i].key \in DOMAIN f[i].env
    BY <1>1, <1>3, <1>10, <2>2, InjectEnvFollows
  <2>4. Follows(f[i], f[n])
    BY <1>6, <2>1
  <2> QED
    BY <1>8, <2>3, <2>4 DEF Follows, Grown
<1> QED
  BY <1>9, <1>10 DEF n, r

LEMMA InjectFollows ==
  ASSUME NEW on, NEW a, NEW s, NEW view, NEW suppress, NEW hv \in HostEnvs, IsHand(a), IsSection(s)
  PROVE  IsHand(Inject(on, a, s, view, suppress, hv)) /\ Follows(a, Inject(on, a, s, view, suppress, hv))
BY SectionFollows, FollowsSelf DEF Inject, Follows

LEMMA ShortSeqs ==
  ASSUME NEW S
  PROVE  /\ <<>> \in Seq(S)
         /\ \A x \in S : <<x>> \in Seq(S) /\ Len(<<x>>) = 1
         /\ \A x, y \in S : <<x, y>> \in Seq(S) /\ Len(<<x, y>>) = 2
         /\ \A x, y, z \in S : <<x, y, z>> \in Seq(S) /\ Len(<<x, y, z>>) = 3
         /\ \A x, y, z, w \in S : <<x, y, z, w>> \in Seq(S) /\ Len(<<x, y, z, w>>) = 4
OBVIOUS

LEMMA EntryIs ==
  ASSUME NEW k \in STRING, NEW v \in Texts
  PROVE  E(k, v) \in Entries /\ E(k, v).key = k /\ E(k, v).value = v
BY DEF E, Entries

LEMMA MountRuleIs ==
  ASSUME NEW f \in Texts, NEW t \in Texts
  PROVE  M(f, t) \in MountRules /\ [M(f, t) EXCEPT !.must = FALSE] \in MountRules
BY DEF M, MountRules

LEMMA SectionMeans ==
  ASSUME NEW e \in Seq(Entries), NEW m \in Seq(MountRules), NEW k
  PROVE  IsSection(Section(e, m, k)) /\ Section(e, m, k).env = e
BY DEF IsSection, Section

LEMMA Words ==
  /\ <<>> \in Texts
  /\ \A x \in STRING : <<x>> \in Texts
  /\ \A x, y \in STRING : <<x, y>> \in Texts
BY ShortSeqs DEF Texts

LEMMA DirectRules ==
  /\ IsSection(load_rule.shared)
  /\ IsSection(load_rule.x11)
  /\ IsSection(load_rule.wayland)
<1> DEFINE xdg == <<"XDG_RUNTIME_DIR">>
           display == <<"DISPLAY">>
           cookies == <<"/run/easytidy", "xauthority">>
           sockets == <<"/tmp/.X11-unix">>
           wayland == <<"WAYLAND_DISPLAY">>
<1>1. xdg \in Texts /\ display \in Texts /\ cookies \in Texts /\ sockets \in Texts /\ wayland \in Texts
  BY Words, Strings DEF Names
<1> DEFINE e1 == E("XDG_RUNTIME_DIR", xdg)
           e2 == E("DISPLAY", display)
           e3 == E("XAUTHORITY", cookies)
           e4 == E("WAYLAND_DISPLAY", wayland)
           m1 == M(xdg, xdg)
           m2 == M(sockets, sockets)
<1>2. load_rule = [shared |-> Section(<<e1>>, <<m1>>, TRUE), x11 |-> Section(<<e2, e3>>, <<m2>>, FALSE),
                   wayland |-> Section(<<e4>>, <<>>, FALSE)]
  BY DEF load_rule
<1> HIDE DEF xdg, display, cookies, sockets, wayland
<1>3. e1 \in Entries /\ e2 \in Entries /\ e3 \in Entries /\ e4 \in Entries
  BY <1>1, EntryIs, Strings DEF Names
<1>4. m1 \in MountRules /\ m2 \in MountRules
  BY <1>1, MountRuleIs
<1> HIDE DEF e1, e2, e3, e4, m1, m2
<1>5. <<e1>> \in Seq(Entries) /\ <<e2, e3>> \in Seq(Entries) /\ <<e4>> \in Seq(Entries)
  BY <1>3, ShortSeqs
<1>6. <<m1>> \in Seq(MountRules) /\ <<m2>> \in Seq(MountRules) /\ <<>> \in Seq(MountRules)
  BY <1>4, ShortSeqs
<1> QED
  BY <1>2, <1>5, <1>6, SectionMeans

LEMMA BypassRules ==
  /\ IsSection(load_bypass_rule.shared)
  /\ IsSection(load_bypass_rule.x11)
  /\ IsSection(load_bypass_rule.wayland)
  /\ \A k \in {"XDG_RUNTIME_DIR", "HOST_XDG_RUNTIME_DIR"} :
       \E i \in 1..Len(load_bypass_rule.shared.env) :
         load_bypass_rule.shared.env[i].key = k /\ Rooted(load_bypass_rule.shared.env[i].value)
<1> DEFINE inner == <<"/run/user", "UID">>
           host == <<"/run/user", "999">>
           bus == <<"XDG_RUNTIME_DIR", "bus">>
           xdg == <<"XDG_RUNTIME_DIR">>
           hxdg == <<"HOST_XDG_RUNTIME_DIR">>
           virtual == <<":99">>
           display == <<":0">>
           auth == <<"XDG_RUNTIME_DIR", ".Xauthority">>
           cookies == <<"/run/easytidy", "xauthority">>
           socket == <<"/tmp/.X11-unix/X0">>
<1>1. /\ inner \in Texts /\ host \in Texts /\ bus \in Texts /\ xdg \in Texts /\ hxdg \in Texts
      /\ virtual \in Texts /\ display \in Texts /\ auth \in Texts /\ cookies \in Texts /\ socket \in Texts
      /\ <<>> \in Texts
  BY Words, Strings DEF Names
<1>2. Rooted(inner) /\ Rooted(host)
  <2>1. "/run/user" \in STRING \ Names /\ "UID" \in STRING /\ "999" \in STRING
    BY Strings DEF Names
  <2>2. ASSUME NEW x \in STRING \ Names, NEW y \in STRING
        PROVE  Rooted(<<x, y>>)
    BY DEF Rooted
  <2> QED
    BY <2>1, <2>2
<1> DEFINE e1 == E("XDG_RUNTIME_DIR", inner)
           e2 == E("HOST_XDG_RUNTIME_DIR", host)
           e3 == E("DBUS_SESSION_BUS_ADDRESS", bus)
           e4 == E("DISPLAY", virtual)
           e5 == E("HOST_DISPLAY", display)
           e6 == E("XAUTHORITY", auth)
           e7 == E("HOST_XAUTHORITY", cookies)
           e8 == E("WAYLAND_DISPLAY", <<>>)
           m1 == M(xdg, hxdg)
           m2 == [M(socket, socket) EXCEPT !.must = FALSE]
<1>3. load_bypass_rule =
        [shared |-> Section(<<e1, e2, e3>>, <<m1>>, TRUE),
         x11 |-> Section(<<e4, e5, e6, e7>>, <<m2>>, FALSE),
         wayland |-> Section(<<e8>>, <<>>, FALSE)]
  BY DEF load_bypass_rule
<1> HIDE DEF inner, host, bus, xdg, hxdg, virtual, display, auth, cookies, socket
<1>4. /\ e1 \in Entries /\ e1.key = "XDG_RUNTIME_DIR" /\ e1.value = inner
      /\ e2 \in Entries /\ e2.key = "HOST_XDG_RUNTIME_DIR" /\ e2.value = host
  BY <1>1, EntryIs, Strings DEF Names
<1>5. /\ e3 \in Entries /\ e4 \in Entries /\ e5 \in Entries
      /\ e6 \in Entries /\ e7 \in Entries /\ e8 \in Entries
  BY <1>1, EntryIs, Strings DEF Names
<1>6. m1 \in MountRules /\ m2 \in MountRules
  BY <1>1, MountRuleIs
<1> HIDE DEF e1, e2, e3, e4, e5, e6, e7, e8, m1, m2
<1>7. /\ <<e1, e2, e3>> \in Seq(Entries) /\ Len(<<e1, e2, e3>>) = 3
      /\ <<e1, e2, e3>>[1] = e1 /\ <<e1, e2, e3>>[2] = e2
  BY <1>4, <1>5, ShortSeqs
<1>8. <<e4, e5, e6, e7>> \in Seq(Entries) /\ <<e8>> \in Seq(Entries)
  BY <1>5, ShortSeqs
<1>9. <<m1>> \in Seq(MountRules) /\ <<m2>> \in Seq(MountRules) /\ <<>> \in Seq(MountRules)
  BY <1>6, ShortSeqs
<1> DEFINE e == <<e1, e2, e3>>
           m == <<m1>>
<1> HIDE DEF e, m
<1>10. IsSection(load_bypass_rule.shared) /\ load_bypass_rule.shared.env = e
  <2>1. load_bypass_rule.shared = Section(e, m, TRUE)
    BY <1>3 DEF e, m
  <2>2. e \in Seq(Entries) /\ m \in Seq(MountRules)
    BY <1>7, <1>9 DEF e, m
  <2> QED
    BY <2>1, <2>2, SectionMeans
<1>11. IsSection(load_bypass_rule.x11) /\ IsSection(load_bypass_rule.wayland)
  BY <1>3, <1>8, <1>9, SectionMeans
<1>12. Len(e) = 3 /\ e[1] = e1 /\ e[2] = e2
  BY <1>7 DEF e
<1> QED
  BY <1>2, <1>4, <1>10, <1>11, <1>12

\* gui.rs apply: both halves only add.
LEMMA HalvesFollow ==
  ASSUME NEW a, NEW c \in Configs, NEW hv \in HostEnvs, IsHand(a)
  PROVE  LET b == bypass_sections(direct_sections(a, c, hv), c, hv) IN
         /\ IsHand(b) /\ Follows(a, b)
         /\ Bypass(c) => \A k \in {"XDG_RUNTIME_DIR", "HOST_XDG_RUNTIME_DIR"} : k \in DOMAIN b.env
<1> DEFINE d == direct_sections(a, c, hv)
<1>1. IsHand(d) /\ Follows(a, d)
  <2> DEFINE a1 == Inject(Direct(c), a, load_rule.shared, FALSE, Bypass(c), hv)
             a2 == Inject(c.x11 = "direct", a1, load_rule.x11, FALSE, Bypass(c), hv)
             a3 == Inject(c.wayland = "direct", a2, load_rule.wayland, FALSE, Bypass(c), hv)
  <2>1. d = a3
    BY DEF direct_sections
  <2>2. IsHand(a1) /\ Follows(a, a1)
    BY DirectRules, InjectFollows
  <2> HIDE DEF a1
  <2>3. IsHand(a2) /\ Follows(a1, a2)
    BY <2>2, DirectRules, InjectFollows
  <2> HIDE DEF a2
  <2>4. IsHand(a3) /\ Follows(a2, a3)
    BY <2>3, DirectRules, InjectFollows
  <2> HIDE DEF a3, d
  <2>5. Follows(a, a2)
    BY <2>2, <2>3, FollowsOn
  <2> QED
    BY <2>1, <2>4, <2>5, FollowsOn
<1> HIDE DEF d
<1> DEFINE s == load_bypass_rule.shared
           b1 == Inject(Bypass(c), d, s, TRUE, FALSE, hv)
           b2 == Inject(c.x11 = "bypass", b1, load_bypass_rule.x11, TRUE, FALSE, hv)
           b3 == Inject(c.wayland = "bypass", b2, load_bypass_rule.wayland, TRUE, FALSE, hv)
<1>2. bypass_sections(d, c, hv) = b3
  BY DEF bypass_sections
<1>3. IsSection(s)
  BY BypassRules
<1>4. \A k \in {"XDG_RUNTIME_DIR", "HOST_XDG_RUNTIME_DIR"} :
        \E i \in 1..Len(s.env) : s.env[i].key = k /\ Rooted(s.env[i].value)
  BY BypassRules
<1> HIDE DEF s
<1>5. IsHand(b1) /\ Follows(d, b1)
  BY <1>1, <1>3, InjectFollows
<1>6. ASSUME Bypass(c), NEW k \in {"XDG_RUNTIME_DIR", "HOST_XDG_RUNTIME_DIR"}
      PROVE  k \in DOMAIN b1.env
  <2>1. b1 = inject_section(d, s, TRUE, FALSE, hv)
    BY <1>6 DEF Inject
  <2> HIDE DEF b1
  <2>2. PICK i \in 1..Len(s.env) : s.env[i].key = k /\ Rooted(s.env[i].value)
    BY <1>4, <1>6
  <2>3. k # "XAUTHORITY"
    OBVIOUS
  <2>4. \A j \in 1..Len(s.env) :
          s.env[j].key # "XAUTHORITY" /\ ~FALSE /\ Rooted(s.env[j].value)
          => s.env[j].key \in DOMAIN inject_section(d, s, TRUE, FALSE, hv).env
    BY <1>1, <1>3, SectionFollows
  <2> QED
    BY <2>1, <2>2, <2>3, <2>4
<1> HIDE DEF b1
<1>7. IsHand(b2) /\ Follows(b1, b2)
  BY <1>5, BypassRules, InjectFollows
<1> HIDE DEF b2
<1>8. IsHand(b3) /\ Follows(b2, b3)
  BY <1>7, BypassRules, InjectFollows
<1> HIDE DEF b3
<1>9. Follows(b1, b3) /\ Follows(a, b3)
  <2>1. Follows(b1, b3)
    BY <1>5, <1>7, <1>8, FollowsOn
  <2>2. Follows(d, b3)
    BY <1>1, <1>5, <2>1, FollowsOn
  <2> QED
    BY <1>1, <2>1, <2>2, FollowsOn
<1>10. Bypass(c) => \A k \in {"XDG_RUNTIME_DIR", "HOST_XDG_RUNTIME_DIR"} : k \in DOMAIN b3.env
  BY <1>6, <1>9 DEF Follows, Grown
<1> QED
  BY <1>2, <1>8, <1>9, <1>10 DEF d

\* gui.rs set_env: what is declared stays, and so does everything else.
Kept(env, new, keys, declared) ==
    \A k : k \notin keys \/ k \in declared =>
       /\ k \in DOMAIN new <=> k \in DOMAIN env
       /\ k \in DOMAIN env => new[k] = env[k]

LEMMA SetEnvKeeps ==
  ASSUME NEW env, NEW k, NEW v, NEW declared
  PROVE  Kept(env, set_env(env, k, v, declared), {k}, declared)
<1> DEFINE p == Put(env, k, v)
<1>1. DOMAIN p = DOMAIN env \cup {k} /\ \A x \in DOMAIN env \ {k} : p[x] = env[x]
  BY DEF Put
<1>2. set_env(env, k, v, declared) = IF k \in declared THEN env ELSE p
  BY DEF set_env
<1> HIDE DEF p
<1> QED
  BY <1>1, <1>2 DEF Kept

LEMMA KeptOn ==
  ASSUME NEW e, NEW f, NEW g, NEW A, NEW B, NEW declared,
         Kept(e, f, A, declared), Kept(f, g, B, declared)
  PROVE  Kept(e, g, A \cup B, declared)
BY DEF Kept

Settings == {"DISPLAY", "XAUTHORITY", "HOST_XAUTHORITY", "WAYLAND_DISPLAY"}
LEMMA IntendedKeeps ==
  ASSUME NEW a, NEW c, NEW hv, IsHand(a)
  PROVE  /\ Intended(a, c, hv).mounts = a.mounts
         /\ Kept(a.env, Intended(a, c, hv).env, Settings, DOMAIN c.env)
<1> DEFINE rule == load_bypass_rule
           Of(mode, direct, bypass) ==
             CASE mode = "direct" -> direct [] mode = "bypass" -> bypass [] OTHER -> <<>>
           Value(k) == expand_host_vars(section_env_value(rule.x11, k), merged_dict(hv, a.cenv))
           declared == DOMAIN c.env
           v1 == Of(c.x11, Get(hv.vars, "DISPLAY"), section_env_value(rule.x11, "DISPLAY"))
           v2 == Of(c.x11, <<"/run/easytidy", "xauthority">>, Value("XAUTHORITY"))
           v3 == Of(c.x11, <<>>, Value("HOST_XAUTHORITY"))
           v4 == Of(c.wayland, Get(hv.vars, "WAYLAND_DISPLAY"), section_env_value(rule.wayland, "WAYLAND_DISPLAY"))
           e1 == set_env(a.env, "DISPLAY", v1, declared)
           e2 == set_env(e1, "XAUTHORITY", v2, declared)
           e3 == set_env(e2, "HOST_XAUTHORITY", v3, declared)
           e4 == set_env(e3, "WAYLAND_DISPLAY", v4, declared)
           b == Intended(a, c, hv)
<1>1. b = [a EXCEPT !.env = e4]
  BY DEF Intended
<1> HIDE DEF rule, Of, Value, v1, v2, v3, v4, declared
<1>2. Kept(a.env, e1, {"DISPLAY"}, declared)
  BY SetEnvKeeps
<1> HIDE DEF e1
<1>3. Kept(e1, e2, {"XAUTHORITY"}, declared)
  BY SetEnvKeeps
<1> HIDE DEF e2
<1>4. Kept(e2, e3, {"HOST_XAUTHORITY"}, declared)
  BY SetEnvKeeps
<1> HIDE DEF e3
<1>5. Kept(e3, e4, {"WAYLAND_DISPLAY"}, declared)
  BY SetEnvKeeps
<1> HIDE DEF e4
<1>6. Kept(a.env, e2, {"DISPLAY"} \cup {"XAUTHORITY"}, declared)
  BY <1>2, <1>3, KeptOn
<1>7. Kept(e2, e4, {"HOST_XAUTHORITY"} \cup {"WAYLAND_DISPLAY"}, declared)
  BY <1>4, <1>5, KeptOn
<1>8. Kept(a.env, e4, ({"DISPLAY"} \cup {"XAUTHORITY"}) \cup ({"HOST_XAUTHORITY"} \cup {"WAYLAND_DISPLAY"}), declared)
  BY <1>6, <1>7, KeptOn
<1>9. ({"DISPLAY"} \cup {"XAUTHORITY"}) \cup ({"HOST_XAUTHORITY"} \cup {"WAYLAND_DISPLAY"}) = Settings
  BY DEF Settings
<1>10. Kept(a.env, e4, Settings, declared)
  BY <1>8, <1>9
<1>11. [a EXCEPT !.env = e4] = [env |-> e4, cenv |-> a.cenv, mounts |-> a.mounts, keep |-> a.keep]
  BY DEF IsHand
<1> HIDE DEF b
<1>12. b.env = e4 /\ b.mounts = a.mounts
  BY <1>1, <1>11
<1> QED
  BY <1>10, <1>12 DEF b, declared

LEMMA PlainIsText ==
  ASSUME NEW t \in Plain
  PROVE  t \in Texts /\ \A p \in Known : ~Contains(t, p)
BY DEF Plain, Texts, Contains, Known, Names

\* inject_passthrough: what is declared is passed on as it is; beside the container's own
\* display both runtime directories are told, and no mount is put where the user has one.
Passing(c, p) ==
    /\ \A k \in DOMAIN c.env : k \in DOMAIN p.env /\ p.env[k] = c.env[k]
    /\ Named(p.env) => p.env["EASYTIDY_USER_NAME"] \in Texts
    /\ Bypass(c) => \A k \in {"XDG_RUNTIME_DIR", "HOST_XDG_RUNTIME_DIR"} :
                      k \in DOMAIN p.env /\ (k \notin DOMAIN c.env => p.env[k] # <<>>)
    /\ p.mounts \in Seq(MountTexts) /\ Len(c.mounts) <= Len(p.mounts)
    /\ \A i \in 1..Len(c.mounts) : p.mounts[i] = c.mounts[i]
    /\ \A i \in (Len(c.mounts) + 1)..Len(p.mounts) :
          p.mounts[i].to \in Plain /\ \A j \in 1..Len(c.mounts) : p.mounts[i].to # c.mounts[j].to

Hand(c) == [env |-> c.env, cenv |-> <<>>, mounts |-> c.mounts, keep |-> c.keep]
LEMMA HandIs ==
  ASSUME NEW c \in Configs
  PROVE  IsHand(Hand(c)) /\ Hand(c).env = c.env /\ Hand(c).mounts = c.mounts
<1>1. c.mounts \in Seq(MountTexts)
  BY ConfigsAre DEF MountTexts
<1>2. Plainly(<<>>)
  BY DEF Plainly
<1> QED
  BY <1>1, <1>2 DEF IsHand, Hand

LEMMA ApplyPasses ==
  ASSUME NEW c \in Configs, NEW hv \in HostEnvs
  PROVE  Passing(c, apply(Hand(c), c, hv)) /\ IsHand(bypass_sections(direct_sections(Hand(c), c, hv), c, hv))
<1> DEFINE a == Hand(c)
           b == bypass_sections(direct_sections(a, c, hv), c, hv)
           p == Intended(b, c, hv)
<1>1. apply(a, c, hv) = p
  BY DEF apply
<1>2. IsHand(a) /\ a.env = c.env /\ a.mounts = c.mounts
  BY HandIs
<1> HIDE DEF a
<1>3. /\ IsHand(b) /\ Follows(a, b)
      /\ Bypass(c) => \A k \in {"XDG_RUNTIME_DIR", "HOST_XDG_RUNTIME_DIR"} : k \in DOMAIN b.env
  BY <1>2, HalvesFollow
<1> HIDE DEF b
<1>4. p.mounts = b.mounts /\ Kept(b.env, p.env, Settings, DOMAIN c.env)
  BY <1>3, IntendedKeeps
<1> HIDE DEF p
<1>5. \A k \in DOMAIN c.env : k \in DOMAIN p.env /\ p.env[k] = c.env[k]
  BY <1>2, <1>3, <1>4 DEF Follows, Grown, Kept
<1>6. ASSUME Bypass(c), NEW k \in {"XDG_RUNTIME_DIR", "HOST_XDG_RUNTIME_DIR"}
      PROVE  k \in DOMAIN p.env /\ (k \notin DOMAIN c.env => p.env[k] # <<>>)
  <2>1. k \notin Settings
    BY DEF Settings
  <2>2. k \in DOMAIN b.env /\ (k \notin DOMAIN a.env => b.env[k] # <<>>)
    BY <1>3, <1>6 DEF Follows, Grown
  <2> QED
    BY <1>2, <1>4, <2>1, <2>2 DEF Kept
<1>7. /\ p.mounts \in Seq(MountTexts) /\ Len(c.mounts) <= Len(p.mounts)
      /\ \A i \in 1..Len(c.mounts) : p.mounts[i] = c.mounts[i]
      /\ \A i \in (Len(c.mounts) + 1)..Len(p.mounts) :
            p.mounts[i].to \in Plain /\ \A j \in 1..Len(c.mounts) : p.mounts[i].to # c.mounts[j].to
  BY <1>2, <1>3, <1>4 DEF Follows, Grown, IsHand
<1>8. Named(p.env) => p.env["EASYTIDY_USER_NAME"] \in Texts
  <2> DEFINE k == "EASYTIDY_USER_NAME"
  <2> SUFFICES ASSUME k \in DOMAIN p.env PROVE p.env[k] \in Texts
    BY DEF Named
  <2>1. k \notin Settings
    BY DEF Settings
  <2>2. k \in DOMAIN b.env /\ p.env[k] = b.env[k]
    BY <1>4, <2>1 DEF Kept
  <2>3. k \in DOMAIN a.env => b.env[k] = c.env[k] /\ c.env[k] \in Texts
    BY <1>2, <1>3, ConfigsAre DEF Follows, Grown, IsEnv
  <2>4. k \notin DOMAIN a.env => b.env[k] \in Texts
    BY <1>3, <2>2, PlainIsText DEF Follows, Grown
  <2> QED
    BY <2>2, <2>3, <2>4
<1> QED
  BY <1>1, <1>3, <1>5, <1>6, <1>7, <1>8 DEF Passing, a, b

LEMMA PassesOn ==
  ASSUME NEW c \in Configs, NEW hv \in HostEnvs
  PROVE  Passing(c, inject_passthrough(c, hv))
<1> DEFINE q == IF Direct(c) \/ Bypass(c) THEN apply(Hand(c), c, hv) ELSE Hand(c)
           p == inject_gpu_passthrough(q, c)
<1>1. inject_passthrough(c, hv) = p
  BY DEF inject_passthrough, Hand
<1>2. Passing(c, q)
  <2>1. CASE Direct(c) \/ Bypass(c)
    <3>1. q = apply(Hand(c), c, hv)
      BY <2>1
    <3> HIDE DEF q
    <3> QED
      BY <3>1, ApplyPasses
  <2>2. CASE ~(Direct(c) \/ Bypass(c))
    <3>1. q = Hand(c)
      BY <2>2
    <3> HIDE DEF q
    <3>2. q.env = c.env /\ q.mounts = c.mounts /\ q.mounts \in Seq(MountTexts)
      BY <3>1, HandIs DEF IsHand
    <3>3. Named(q.env) => q.env["EASYTIDY_USER_NAME"] \in Texts
      BY <3>2, ConfigsAre DEF Named, IsEnv
    <3> QED
      BY <2>2, <3>2, <3>3 DEF Passing
  <2> QED
    BY <2>1, <2>2
<1>3. q = [env |-> q.env, cenv |-> q.cenv, mounts |-> q.mounts, keep |-> q.keep]
  <2>1. Hand(c) = [env |-> Hand(c).env, cenv |-> Hand(c).cenv, mounts |-> Hand(c).mounts, keep |-> Hand(c).keep]
    BY DEF Hand
  <2> DEFINE b == bypass_sections(direct_sections(Hand(c), c, hv), c, hv)
             r == apply(Hand(c), c, hv)
  <2>2. \E e : r = [b EXCEPT !.env = e]
    BY DEF apply, Intended
  <2>3. IsHand(b)
    BY ApplyPasses
  <2> HIDE DEF b, r
  <2>4. PICK e : r = [b EXCEPT !.env = e]
    BY <2>2
  <2>5. r = [env |-> e, cenv |-> b.cenv, mounts |-> b.mounts, keep |-> b.keep]
    BY <2>3, <2>4 DEF IsHand
  <2>6. r = [env |-> r.env, cenv |-> r.cenv, mounts |-> r.mounts, keep |-> r.keep]
    BY <2>5
  <2> QED
    BY <2>1, <2>6 DEF r
<1> HIDE DEF q
<1>4. CASE c.gpu = "nvidia" /\ "NVIDIA_DRIVER_CAPABILITIES" \notin DOMAIN q.env
  <2> DEFINE e == Put(q.env, "NVIDIA_DRIVER_CAPABILITIES", <<"all">>)
  <2>1. p = [q EXCEPT !.env = e]
    BY <1>4 DEF inject_gpu_passthrough
  <2>2. /\ \A k \in DOMAIN q.env : k \in DOMAIN e /\ e[k] = q.env[k]
        /\ Named(e) => Named(q.env)
    <3>1. DOMAIN e = DOMAIN q.env \cup {"NVIDIA_DRIVER_CAPABILITIES"}
          /\ \A x \in DOMAIN q.env \ {"NVIDIA_DRIVER_CAPABILITIES"} : e[x] = q.env[x]
      BY DEF Put
    <3> HIDE DEF e
    <3> QED
      BY <1>4, <3>1 DEF Named
  <2> HIDE DEF e, p
  <2>3. p = [env |-> e, cenv |-> q.cenv, mounts |-> q.mounts, keep |-> q.keep]
    BY <1>3, <2>1
  <2>4. p.env = e /\ p.mounts = q.mounts
    BY <2>3
  <2>5. Named(e) => e["EASYTIDY_USER_NAME"] \in Texts
    BY <1>2, <2>2 DEF Passing, Named
  <2>6. Passing(c, p)
    BY <1>2, <2>2, <2>4, <2>5 DEF Passing
  <2> QED
    BY <1>1, <2>6
<1>5. CASE ~(c.gpu = "nvidia" /\ "NVIDIA_DRIVER_CAPABILITIES" \notin DOMAIN q.env)
  <2>1. p = q
    BY <1>5 DEF inject_gpu_passthrough
  <2> QED
    BY <1>1, <1>2, <2>1
<1> QED
  BY <1>4, <1>5

-----------------------------------------------------------------------------
(* What a container is when it has been made *)

LEMMA ModesAre ==
  ASSUME NEW c \in Configs
  PROVE  /\ c.x11 \in {"none", "direct", "bypass"} /\ c.wayland \in {"none", "direct", "bypass"}
         /\ c.user = None \/ (c.user \in STRING /\ c.user # "/")
         /\ c.mounts \in Seq(MountTexts) /\ c # None
BY ConfigsAre, Absent DEF MountTexts

\* pathvars.rs: a text without variables stays as it is.
LEMMA NothingToExpand ==
  ASSUME NEW t \in Texts, NEW home, \A p \in Known : ~Contains(t, p)
  PROVE  expand_path(t, home) = t
<1>1. t = [i \in 1..Len(t) |-> t[i]] /\ DOMAIN t = 1..Len(t)
  BY DEF Texts
<1>2. \A i \in 1..Len(t) : t[i] # "HOME" /\ t[i] # "UID"
  BY DEF Known, Contains
<1>3. expand_path(t, home) =
        [i \in DOMAIN t |-> CASE t[i] = "HOME" -> home [] t[i] = "UID" -> "1000" [] OTHER -> t[i]]
  BY DEF expand_path
<1>4. \A i \in 1..Len(t) :
        (CASE t[i] = "HOME" -> home [] t[i] = "UID" -> "1000" [] OTHER -> t[i]) = t[i]
  BY <1>2
<1> QED
  BY <1>1, <1>3, <1>4

TakenAs(c, mounts, t) == \E j \in DOMAIN c.mounts : mounts[t] = expand_path(c.mounts[j].from, "me")
Free(t) == t # <<>> /\ \A p \in Known : ~Contains(t, p)

\* podman/mod.rs dedup_mounts: of a target nobody else has the user's last mount is taken.
LEMMA LastIsTaken ==
  ASSUME NEW c, NEW p, NEW home, c.mounts \in Seq(MountTexts), Passing(c, p),
         NEW i \in DOMAIN c.mounts, Free(c.mounts[i].to)
  PROVE  TakenAs(c, dedup_mounts(expand_mounts(p.mounts, home)), c.mounts[i].to)
<1> DEFINE t == c.mounts[i].to
           m == expand_mounts(p.mounts, home)
           n == Len(p.mounts)
           T == {k \in 1..n : m[k].to = t}
           Top(u) == CHOOSE k \in DOMAIN m : m[k].to = u /\ \A j \in DOMAIN m : m[j].to = u => j <= k
           targets == {m[k].to : k \in DOMAIN m} \ {<<>>}
<1>1. /\ n \in Nat /\ DOMAIN p.mounts = 1..n /\ DOMAIN c.mounts = 1..Len(c.mounts)
      /\ Len(c.mounts) \in Nat /\ Len(c.mounts) <= n
      /\ \A k \in 1..n : p.mounts[k] \in MountTexts
      /\ \A k \in 1..Len(c.mounts) : p.mounts[k] = c.mounts[k]
      /\ \A k \in (Len(c.mounts) + 1)..n :
            p.mounts[k].to \in Plain /\ \A j \in 1..Len(c.mounts) : p.mounts[k].to # c.mounts[j].to
  BY DEF Passing
<1>2. /\ DOMAIN m = 1..n
      /\ \A k \in 1..n : m[k].to = expand_path(p.mounts[k].to, home) /\ m[k].from = expand_path(p.mounts[k].from, "me")
  BY <1>1 DEF expand_mounts
<1>3. dedup_mounts(m) = [u \in targets |-> m[Top(u)].from]
  BY DEF dedup_mounts
<1> HIDE DEF m, n
<1>4. i \in 1..Len(c.mounts) /\ i \in 1..n /\ p.mounts[i].to = t /\ t \in Texts
  BY <1>1 DEF MountTexts
<1>5. m[i].to = t
  BY <1>2, <1>4, NothingToExpand DEF Free
<1>6. t \in targets /\ i \in T
  BY <1>2, <1>4, <1>5 DEF Free
<1>7. PICK k \in T : \A j \in T : j <= k
  BY <1>1, <1>6, NatMax
<1>8. k \in DOMAIN m /\ m[k].to = t /\ \A j \in DOMAIN m : m[j].to = t => j <= k
  BY <1>2, <1>7
<1>9. Top(t) \in DOMAIN m /\ m[Top(t)].to = t
  BY <1>8
<1>10. dedup_mounts(m)[t] = m[Top(t)].from
  BY <1>3, <1>6
<1> HIDE DEF Top, targets, T
<1>11. Top(t) \in 1..Len(c.mounts)
  <2> SUFFICES ASSUME Top(t) \notin 1..Len(c.mounts) PROVE FALSE
    OBVIOUS
  <2>1. Top(t) \in (Len(c.mounts) + 1)..n
    BY <1>1, <1>2, <1>9
  <2>2. p.mounts[Top(t)].to \in Plain /\ p.mounts[Top(t)].to # t
    BY <1>1, <1>4, <2>1
  <2>3. expand_path(p.mounts[Top(t)].to, home) = p.mounts[Top(t)].to
    BY <2>2, PlainIsText, NothingToExpand
  <2> QED
    BY <1>2, <1>9, <2>2, <2>3
<1>12. m[Top(t)].from = expand_path(c.mounts[Top(t)].from, "me")
  BY <1>1, <1>2, <1>9, <1>11
<1> QED
  BY <1>1, <1>10, <1>11, <1>12 DEF m, TakenAs

LEMMA NoneDedup ==
  ASSUME NEW m
  PROVE  <<>> \notin DOMAIN dedup_mounts(m)
BY DEF dedup_mounts

\* create_inner and its checks.
LEMMA MadeWell ==
  ASSUME NEW c \in Configs, NEW hv \in HostEnvs, NEW passwd, NEW image,
         image.passwd \in Seq(Accounts), Named(image.env) => image.env["EASYTIDY_USER_NAME"] \in Texts,
         Creatable(c, hv, create_inner(c, hv, passwd, image))
  PROVE  WellMade(create_inner(c, hv, passwd, image))
<1> DEFINE p == inject_passthrough(c, hv)
           home == HomeOf(c, p.mounts, passwd)
           b == create_inner(c, hv, passwd, image)
           env == Over(Variables(c, p.env), image.env)
<1>1. /\ b.cfg = c /\ b.env = env /\ b.tmpfs = Tmpfs(c, p.env) /\ b.image = image.passwd
      /\ b.mounts = dedup_mounts(expand_mounts(p.mounts, home))
  BY DEF create_inner, Passed, WithHome
<1>2. DOMAIN b.mounts \cap b.tmpfs = {}
  <2>1. \A i, j \in DOMAIN podman_mounts(b) : i # j => podman_mounts(b)[i] \cap podman_mounts(b)[j] = {}
    BY DEF Creatable
  <2> HIDE DEF b
  <2>2. podman_mounts(b) = <<DOMAIN b.mounts, b.tmpfs, Fixed>>
    BY DEF podman_mounts
  <2>3. 1 \in DOMAIN podman_mounts(b) /\ 2 \in DOMAIN podman_mounts(b) /\ 1 # 2
        /\ podman_mounts(b)[1] = DOMAIN b.mounts /\ podman_mounts(b)[2] = b.tmpfs
    BY <2>2
  <2> QED
    BY <2>1, <2>3
<1>3. Passing(c, p)
  BY PassesOn
<1> HIDE DEF p
<1>4. c.mounts \in Seq(MountTexts) /\ DOMAIN c.mounts = 1..Len(c.mounts)
  BY ModesAre
<1>5. \A k \in DOMAIN p.env :
         k # "EASYTIDY_USER_NAME" \/ c.user = None => k \in DOMAIN env /\ env[k] = p.env[k]
  <2> DEFINE v == Variables(c, p.env)
  <2>1. \A k \in DOMAIN p.env : k # "EASYTIDY_USER_NAME" \/ c.user = None => k \in DOMAIN v /\ v[k] = p.env[k]
    BY DEF Variables, Put
  <2>2. \A k \in DOMAIN v : k \in DOMAIN env /\ env[k] = v[k]
    BY DEF Over
  <2> HIDE DEF v, env
  <2> QED
    BY <2>1, <2>2
<1>6. c.user # None => "EASYTIDY_USER_NAME" \in DOMAIN env /\ env["EASYTIDY_USER_NAME"] = <<c.user>>
  <2> DEFINE v == Variables(c, p.env)
  <2>1. c.user # None => "EASYTIDY_USER_NAME" \in DOMAIN v /\ v["EASYTIDY_USER_NAME"] = <<c.user>>
    BY DEF Variables, Put
  <2>2. \A k \in DOMAIN v : k \in DOMAIN env /\ env[k] = v[k]
    BY DEF Over
  <2> HIDE DEF v, env
  <2> QED
    BY <2>1, <2>2
<1>7. Named(env) => env["EASYTIDY_USER_NAME"] \in Texts
  <2> DEFINE k == "EASYTIDY_USER_NAME"
             v == Variables(c, p.env)
  <2>1. k \in DOMAIN v => k \in DOMAIN env /\ env[k] = v[k]
    BY DEF Over
  <2>2. k \notin DOMAIN v /\ k \in DOMAIN env => k \in DOMAIN image.env /\ env[k] = image.env[k]
    BY DEF Over
  <2> HIDE DEF env
  <2>3. CASE c.user = None
    <3>1. v = p.env
      BY <2>3 DEF Variables
    <3> HIDE DEF v
    <3> QED
      BY <1>3, <2>1, <2>2, <3>1 DEF Named, Passing
  <2>4. CASE c.user # None
    <3>1. c.user \in STRING
      BY <2>4, ModesAre
    <3>2. <<c.user>> \in Texts
      BY <3>1, Words
    <3> QED
      BY <1>6, <2>4, <3>2
  <2> QED
    BY <2>3, <2>4
<1> HIDE DEF env, b
<1>8. Wins(b)
  <2>1. \A k \in DOMAIN c.env : k # "EASYTIDY_USER_NAME" \/ c.user = None => env[k] = c.env[k]
    BY <1>3, <1>5 DEF Passing
  <2>2. ASSUME NEW i \in DOMAIN c.mounts, c.mounts[i].to # <<>>, \A q \in Known : ~Contains(c.mounts[i].to, q)
        PROVE  \E j \in DOMAIN c.mounts : b.mounts[c.mounts[i].to] = expand_path(c.mounts[j].from, "me")
    <3> HIDE DEF home
    <3>1. Free(c.mounts[i].to)
      BY <2>2 DEF Free
    <3>2. TakenAs(c, dedup_mounts(expand_mounts(p.mounts, home)), c.mounts[i].to)
      BY <1>3, <1>4, <3>1, LastIsTaken
    <3> QED
      BY <1>1, <3>2 DEF TakenAs
  <2> QED
    BY <1>1, <2>1, <2>2 DEF Wins
<1>9. Told(b)
  BY <1>1, <1>6, <1>7 DEF Told, Named
<1>10. Placed(b)
  <2>1. <<>> \notin DOMAIN b.mounts
    BY <1>1, NoneDedup
  <2>2. ASSUME Bypass(c), NEW k \in {"XDG_RUNTIME_DIR", "HOST_XDG_RUNTIME_DIR"}
        PROVE  k \in DOMAIN p.env /\ k \in DOMAIN env /\ env[k] = p.env[k]
    BY <1>3, <1>5, <2>2 DEF Passing
  <2>3. Bypass(c) => RunDir(b) = Get(p.env, "XDG_RUNTIME_DIR")
    BY <1>1, <2>2 DEF RunDir, Get
  <2>4. ASSUME Bypass(c), Spoken(c)
        PROVE  Get(b.env, "HOST_XDG_RUNTIME_DIR") # <<>>
    <3> DEFINE k == "HOST_XDG_RUNTIME_DIR"
    <3>1. k \in DOMAIN p.env /\ k \in DOMAIN env /\ env[k] = p.env[k] /\ (k \notin DOMAIN c.env => p.env[k] # <<>>)
      BY <1>3, <2>2, <2>4 DEF Passing
    <3>2. k \in DOMAIN c.env => p.env[k] = c.env[k] /\ c.env[k] # <<>>
      BY <1>3, <2>4 DEF Passing, Spoken
    <3> QED
      BY <1>1, <3>1, <3>2 DEF Get
  <2>5. b.tmpfs = IF Bypass(c) /\ RunUser(Get(p.env, "XDG_RUNTIME_DIR")) THEN {Get(p.env, "XDG_RUNTIME_DIR")} ELSE {}
    BY <1>1 DEF Tmpfs
  <2> QED
    BY <1>1, <1>2, <2>1, <2>3, <2>4, <2>5 DEF Placed
<1> QED
  BY <1>1, <1>8, <1>9, <1>10 DEF WellMade, b

-----------------------------------------------------------------------------
(* The configuration file *)

\* models.rs: what is stored is read again, from the file of an older version too.
LEMMA LoadedStored ==
  ASSUME NEW c \in Configs
  PROVE  Loaded(Stored(c)) = c
<1> DEFINE s == Stored(c)
           l == Loaded(s)
<1>1. DOMAIN s = {g \in DOMAIN c : g \in Optional => c[g] # Default[g]} /\ \A f \in DOMAIN s : s[f] = c[f]
  BY DEF Stored
<1>2. /\ DOMAIN l = DOMAIN s \cup Optional
      /\ \A f \in DOMAIN l : l[f] = IF f \notin DOMAIN s THEN Default[f]
                                    ELSE IF f \in {"x11", "wayland"} THEN Mode(s[f]) ELSE s[f]
      /\ l = [f \in DOMAIN l |-> l[f]]
  BY DEF Loaded
<1> HIDE DEF s, l
<1>3. c = [f \in DOMAIN c |-> c[f]] /\ Optional \subseteq DOMAIN c
  BY ConfigsAre DEF Optional
<1>4. DOMAIN l = DOMAIN c
  BY <1>1, <1>2, <1>3
<1>5. \A v \in {"none", "direct", "bypass"} : Mode(v) = v
  BY DEF Mode
<1>6. c["x11"] \in {"none", "direct", "bypass"} /\ c["wayland"] \in {"none", "direct", "bypass"}
  BY ModesAre
<1>7. ASSUME NEW f \in DOMAIN c PROVE l[f] = c[f]
  <2>1. CASE f \notin DOMAIN s
    BY <1>1, <1>2, <1>4, <2>1
  <2>2. CASE f \in DOMAIN s /\ f \in {"x11", "wayland"}
    BY <1>1, <1>2, <1>4, <1>5, <1>6, <2>2
  <2>3. CASE f \in DOMAIN s /\ f \notin {"x11", "wayland"}
    BY <1>1, <1>2, <1>4, <2>3
  <2> QED
    BY <2>1, <2>2, <2>3
<1>8. l = c
  BY <1>2, <1>3, <1>4, <1>7
<1> QED
  BY <1>8 DEF l, s

LEMMA LoadedLegacy ==
  ASSUME NEW c \in Configs, ~Bypass(c)
  PROVE  Loaded(Legacy(c)) = c
<1> DEFINE s == Legacy(c)
           l == Loaded(s)
<1>1. /\ DOMAIN s = {g \in DOMAIN c : g \in Optional => c[g] # Default[g]}
      /\ \A f \in DOMAIN s : s[f] = IF f \in {"x11", "wayland"} THEN "true" ELSE c[f]
  BY DEF Legacy, Stored
<1>2. /\ DOMAIN l = DOMAIN s \cup Optional
      /\ \A f \in DOMAIN l : l[f] = IF f \notin DOMAIN s THEN Default[f]
                                    ELSE IF f \in {"x11", "wayland"} THEN Mode(s[f]) ELSE s[f]
      /\ l = [f \in DOMAIN l |-> l[f]]
  BY DEF Loaded
<1> HIDE DEF s, l
<1>3. c = [f \in DOMAIN c |-> c[f]] /\ Optional \subseteq DOMAIN c
  BY ConfigsAre DEF Optional
<1>4. DOMAIN l = DOMAIN c
  BY <1>1, <1>2, <1>3
<1>5. Mode("true") = "direct"
  BY DEF Mode
<1>6. c["x11"] \in {"none", "direct"} /\ c["wayland"] \in {"none", "direct"}
  BY ModesAre DEF Bypass
<1>7. Default["x11"] = "none" /\ Default["wayland"] = "none" /\ {"x11", "wayland"} \subseteq Optional
  BY DEF Default, Optional
<1>8. ASSUME NEW f \in DOMAIN c PROVE l[f] = c[f]
  <2>1. CASE f \notin DOMAIN s
    BY <1>1, <1>2, <1>4, <2>1
  <2>2. CASE f \in DOMAIN s /\ f \in {"x11", "wayland"}
    <3>1. l[f] = "direct"
      BY <1>1, <1>2, <1>4, <1>5, <2>2
    <3>2. c[f] # "none"
      BY <1>1, <1>7, <2>2
    <3> QED
      BY <1>6, <2>2, <3>1, <3>2
  <2>3. CASE f \in DOMAIN s /\ f \notin {"x11", "wayland"}
    BY <1>1, <1>2, <1>4, <2>3
  <2> QED
    BY <2>1, <2>2, <2>3
<1>9. l = c
  BY <1>2, <1>3, <1>4, <1>8
<1> QED
  BY <1>9 DEF l, s

-----------------------------------------------------------------------------
(* Accounts *)

LEMMA LinesAre ==
  ASSUME NEW p \in Seq(Accounts)
  PROVE  /\ DOMAIN p = 1..Len(p) /\ Len(p) \in Nat
         /\ \A i \in DOMAIN p : /\ p[i] \in Accounts /\ p[i].name \in STRING
                                /\ p[i].uid \in STRING /\ p[i].home \in STRING
         /\ OfUid(p) \subseteq DOMAIN p /\ Held(p) \subseteq OfUid(p)
         /\ Real(p) = {i \in OfUid(p) : p[i].home # "/"}
<1>1. /\ DOMAIN p = 1..Len(p) /\ Len(p) \in Nat
      /\ \A i \in DOMAIN p : p[i] \in Accounts
  OBVIOUS
<1>2. \A a \in Accounts : a.name \in STRING /\ a.uid \in STRING /\ a.home \in STRING
  BY DEF Accounts
<1>3. /\ OfUid(p) \subseteq DOMAIN p /\ Held(p) \subseteq OfUid(p)
      /\ Real(p) = {i \in OfUid(p) : p[i].home # "/"}
  BY DEF OfUid, Held, Real, Placeholder
<1> QED
  BY <1>1, <1>2, <1>3

LEMMA UserIs ==
  ASSUME NEW n \in STRING, NEW h \in STRING
  PROVE  User(n, h) \in Accounts /\ User(n, h).name = n /\ User(n, h).uid = "uid" /\ User(n, h).home = h
BY Strings DEF User, Accounts

LEMMA NamedHome == ASSUME NEW p, NEW n, n # None PROVE Home(p, n) = n
BY DEF Home, resolve_identity, User

\* incontainer.rs resolve_identity without a name.
LEMMA OwnHome ==
  ASSUME NEW p \in Seq(Accounts)
  PROVE  /\ OfUid(p) = {} => Home(p, None) = "uid"
         /\ \A i \in DOMAIN p : OfUid(p) = {i} => Home(p, None) = IF p[i].home = "/" THEN "uid" ELSE p[i].home
<1>1. OfUid(p) = {} => Home(p, None) = "uid"
  BY DEF Home, resolve_identity, User
<1>2. ASSUME NEW i \in DOMAIN p, OfUid(p) = {i}
      PROVE  Home(p, None) = IF p[i].home = "/" THEN "uid" ELSE p[i].home
  <2>1. Min(OfUid(p)) = i
    <3>1. i \in Nat
      BY LinesAre
    <3>2. \A x \in {i} : x = i
      OBVIOUS
    <3> QED
      BY <1>2, <3>1, <3>2 DEF Min
  <2>2. resolve_identity(p, None) = IF p[i].home # "/" THEN p[i] ELSE User("uid", "uid")
    BY <1>2, <2>1 DEF resolve_identity, Placeholder
  <2> QED
    BY <2>2 DEF Home, User
<1> QED
  BY <1>1, <1>2

LEMMA IdentityIs ==
  ASSUME NEW p \in Seq(Accounts), NEW n \in STRING \cup {None}, OneAccount(p)
  PROVE  /\ resolve_identity(p, n) \in Accounts
         /\ n # "/" => Home(p, n) # "/"
<1>1. CASE n # None
  <2>1. resolve_identity(p, n) = User(n, n)
    BY <1>1 DEF resolve_identity
  <2> QED
    BY <1>1, <2>1, UserIs, NamedHome
<1>2. CASE n = None /\ OfUid(p) = {}
  <2>1. resolve_identity(p, n) = User("uid", "uid")
    BY <1>2 DEF resolve_identity
  <2>2. "uid" \in STRING /\ "uid" # "/"
    BY Strings
  <2>3. Home(p, n) = "uid"
    BY <1>2, OwnHome
  <2> QED
    BY <2>1, <2>2, <2>3, UserIs
<1>3. CASE n = None /\ OfUid(p) # {}
  <2>1. PICK i \in DOMAIN p : OfUid(p) = {i}
    BY <1>3, LinesAre DEF OneAccount
  <2>2. Min(OfUid(p)) = i
    <3>1. i \in Nat
      BY LinesAre
    <3>2. \A x \in {i} : x = i
      OBVIOUS
    <3> QED
      BY <2>1, <3>1, <3>2 DEF Min
  <2>3. resolve_identity(p, None) = IF p[i].home # "/" THEN p[i] ELSE User("uid", "uid")
    BY <2>1, <2>2 DEF resolve_identity, Placeholder
  <2>4. p[i] \in Accounts /\ User("uid", "uid") \in Accounts
    BY LinesAre, UserIs, Strings
  <2>5. Home(p, None) # "/"
    BY <2>1, OwnHome
  <2> QED
    BY <1>3, <2>3, <2>4, <2>5
<1> QED
  BY <1>1, <1>2, <1>3

\* Accounts of others in p are in q as well.
Spares(p, q) == \A j \in DOMAIN p : p[j].uid # "uid" => \E k \in DOMAIN q : q[k] = p[j]
LEMMA OthersStay ==
  ASSUME NEW p, NEW q, NEW image, OthersIn(p, image), Spares(p, q)
  PROVE  OthersIn(q, image)
BY DEF OthersIn, Spares

\* A line for the user at the end of accounts none of which is his.
LEMMA Entered ==
  ASSUME NEW p \in Seq(Accounts), OfUid(p) = {}, NEW u \in Accounts, u.uid = "uid"
  PROVE  LET q == Append(p, u) IN
         /\ q \in Seq(Accounts) /\ DOMAIN q = DOMAIN p \cup {Len(q)} /\ OfUid(q) = {Len(q)}
         /\ Len(q) \notin DOMAIN p /\ q[Len(q)] = u /\ \A j \in DOMAIN p : q[j] = p[j]
         /\ Spares(p, q)
         /\ u.home # "/" => Real(q) # {} /\ Home(q, None) = u.home
         /\ u.home = "/" => Real(q) = {} /\ Home(q, None) = "uid"
         /\ (\A j \in DOMAIN p : p[j].name # u.name) \/ u.home # "/" => OneAccount(q)
<1> DEFINE q == Append(p, u)
           n == Len(q)
<1>1. /\ q \in Seq(Accounts) /\ DOMAIN q = DOMAIN p \cup {n} /\ n \notin DOMAIN p
      /\ q[n] = u /\ \A j \in DOMAIN p : q[j] = p[j]
  OBVIOUS
<1> HIDE DEF q, n
<1>2. OfUid(q) = {n}
  BY <1>1 DEF OfUid
<1>3. Spares(p, q)
  BY <1>1 DEF Spares
<1>4. Home(q, None) = IF u.home = "/" THEN "uid" ELSE u.home
  BY <1>1, <1>2, OwnHome
<1>5. Real(q) = {i \in {n} : u.home # "/"} /\ Held(q) = {i \in {n} : u.home = "/"}
  BY <1>1, <1>2 DEF Real, Held, Placeholder
<1>6. (\A j \in DOMAIN p : p[j].name # u.name) \/ u.home # "/" => OneAccount(q)
  BY <1>1, <1>2, <1>5 DEF OneAccount
<1> QED
  BY <1>1, <1>2, <1>3, <1>4, <1>5, <1>6 DEF q, n

\* podman at the start of a container: an account is entered if there is none.
Booted(p) ==
    IF OfUid(p) # {} THEN p
    ELSE Append(p, User(IF \E i \in DOMAIN p : p[i].name = "me" THEN "1000" ELSE "me", "/"))
LEMMA BootedIs ==
  ASSUME NEW p \in Seq(Accounts), OneAccount(p)
  PROVE  /\ Booted(p) \in Seq(Accounts) /\ OneAccount(Booted(p)) /\ Spares(p, Booted(p))
         /\ Home(Booted(p), None) = Home(p, None)
         /\ Real(Booted(p)) = {} <=> Real(p) = {}
<1>1. CASE OfUid(p) # {}
  <2>1. Booted(p) = p
    BY <1>1 DEF Booted
  <2> QED
    BY <2>1 DEF Spares
<1>2. CASE OfUid(p) = {}
  <2> DEFINE n == IF \E i \in DOMAIN p : p[i].name = "me" THEN "1000" ELSE "me"
             u == User(n, "/")
  <2>1. Booted(p) = Append(p, u)
    BY <1>2 DEF Booted
  <2>2. n \in STRING /\ "/" \in STRING
    BY Strings
  <2>3. \A j \in DOMAIN p : p[j].name # n
    BY <1>2 DEF OneAccount
  <2> HIDE DEF n
  <2>4. u \in Accounts /\ u.name = n /\ u.uid = "uid" /\ u.home = "/"
    BY <2>2, UserIs
  <2> HIDE DEF u
  <2>5. /\ Append(p, u) \in Seq(Accounts) /\ OneAccount(Append(p, u)) /\ Spares(p, Append(p, u))
        /\ Real(Append(p, u)) = {} /\ Home(Append(p, u), None) = "uid"
    BY <1>2, <2>3, <2>4, Entered
  <2>6. Home(p, None) = "uid" /\ Real(p) = {}
    BY <1>2, OwnHome, LinesAre
  <2> QED
    BY <2>1, <2>5, <2>6
<1> QED
  BY <1>1, <1>2

\* incontainer.rs: what is planned, and what the accounts are when it is done.
Rewritten(p, remove, add) == [i \in DOMAIN p |-> IF p[i].name \in remove THEN NoLine ELSE p[i]] \o add

Planned(e, p, n, first) ==
    /\ e \in Plans /\ e.at = "passwd" /\ e.user = n /\ e.first = first /\ e.home = Home(p, n)
    /\ Held(p) = {} => e.remove = {}
    /\ \A i \in Held(p) : e.remove = {p[i].name}
    /\ e.add = IF Real(p) # {} THEN <<>> ELSE <<User(resolve_identity(p, n).name, resolve_identity(p, n).home)>>
LEMMA PlanIs ==
  ASSUME NEW f \in FileSets, NEW n \in STRING \cup {None}, NEW first \in BOOLEAN, OneAccount(f.passwd)
  PROVE  Planned(plan_prepare(f, n, first), f.passwd, n, first)
<1> DEFINE p == f.passwd
           id == resolve_identity(p, n)
           remove == IF Held(p) = {} \/ (n = None /\ Real(p) # {}) THEN {} ELSE {p[Min(Held(p))].name}
           add == IF Real(p) # {} THEN <<>> ELSE <<User(id.name, id.home)>>
<1>1. plan_prepare(f, n, first) =
        [remove |-> remove, add |-> add, home |-> id.home, first |-> first, at |-> "passwd", user |-> n]
  BY DEF plan_prepare
<1>2. p \in Seq(Accounts)
  BY DEF FileSets
<1>3. id \in Accounts /\ id.name \in STRING /\ id.home \in STRING
  <2>1. id \in Accounts
    BY <1>2, IdentityIs
  <2> QED
    BY <2>1 DEF Accounts
<1>4. ASSUME NEW i \in Held(p) PROVE remove = {p[i].name} /\ remove \subseteq STRING
  <2>1. Held(p) = {i} /\ i \in DOMAIN p /\ i \in Nat
    BY <1>2, LinesAre DEF OneAccount
  <2>2. Min(Held(p)) = i
    <3>1. \A x \in {i} : x = i
      OBVIOUS
    <3> QED
      BY <2>1, <3>1 DEF Min
  <2>3. Real(p) = {}
    BY <1>2, <2>1, LinesAre DEF OneAccount, Held, Placeholder
  <2>4. remove = {p[i].name}
    BY <2>1, <2>2, <2>3
  <2>5. p[i].name \in STRING
    BY <1>2, <2>1, LinesAre
  <2> QED
    BY <2>4, <2>5
<1>5. Held(p) = {} => remove = {}
  OBVIOUS
<1> HIDE DEF remove
<1>6. remove \subseteq STRING
  BY <1>4, <1>5
<1>7. add \in Seq(Accounts)
  <2>1. User(id.name, id.home) \in Accounts
    BY <1>3, UserIs
  <2> DEFINE u == User(id.name, id.home)
  <2> HIDE DEF u, id, p
  <2>2. u \in Accounts
    BY <2>1 DEF u
  <2>3. <<>> \in Seq(Accounts) /\ <<u>> \in Seq(Accounts)
    BY <2>2
  <2> QED
    BY <2>3 DEF u
<1>8. "passwd" \in STRING
  BY Strings
<1>9. id.home = Home(p, n)
  BY DEF Home
<1> HIDE DEF id, add
<1> DEFINE e == plan_prepare(f, n, first)
<1>10. e = [remove |-> remove, add |-> add, home |-> id.home, first |-> first, at |-> "passwd", user |-> n]
  BY <1>1
<1> HIDE DEF e
<1>11. e \in Plans
  BY <1>3, <1>6, <1>7, <1>8, <1>10 DEF Plans
<1>12. /\ e.remove = remove /\ e.add = add /\ e.home = id.home /\ e.first = first
       /\ e.at = "passwd" /\ e.user = n
  BY <1>10
<1> QED
  BY <1>4, <1>5, <1>9, <1>11, <1>12 DEF e, id, add, Planned

LEMMA LinesAreSeq ==
  ASSUME NEW n \in Nat, NEW s, s = [i \in 1..n |-> s[i]], \A i \in 1..n : s[i] \in Accounts
  PROVE  s \in Seq(Accounts)
OBVIOUS

LEMMA RewrittenIs ==
  ASSUME NEW f \in FileSets, NEW n \in STRING \cup {None}, n # "/", NEW first \in BOOLEAN, OneAccount(f.passwd)
  PROVE  LET e == plan_prepare(f, n, first)
             p == f.passwd
             q == Rewritten(p, e.remove, e.add) IN
         /\ q \in Seq(Accounts) /\ OneAccount(q) /\ Spares(p, q) /\ Real(q) # {}
         /\ Home(q, n) = Home(p, n)
<1> DEFINE e == plan_prepare(f, n, first)
           p == f.passwd
           id == resolve_identity(p, n)
           u == User(id.name, id.home)
           q == Rewritten(p, e.remove, e.add)
<1>1. /\ Held(p) = {} => e.remove = {}
      /\ \A i \in Held(p) : e.remove = {p[i].name}
      /\ e.add = IF Real(p) # {} THEN <<>> ELSE <<u>>
  <2>1. Planned(e, p, n, first)
    BY PlanIs
  <2> HIDE DEF e, p
  <2> QED
    BY <2>1 DEF Planned
<1>2. p \in Seq(Accounts)
  BY DEF FileSets
<1>3. u \in Accounts /\ u.uid = "uid" /\ u.home # "/" /\ u.home = Home(p, n)
  <2>1. id \in Accounts /\ Home(p, n) # "/" /\ Home(p, n) = id.home
    BY <1>2, IdentityIs DEF Home
  <2>2. id.name \in STRING /\ id.home \in STRING
    BY <2>1 DEF Accounts
  <2> HIDE DEF id, p
  <2>3. u \in Accounts /\ u.uid = "uid" /\ u.home = id.home
    BY <2>2, UserIs
  <2> HIDE DEF u
  <2> QED
    BY <2>1, <2>3
<1> HIDE DEF e, u, id
<1> HIDE DEF p
<1>4. OneAccount(p)
  BY DEF p
<1>5. CASE Held(p) = {} /\ Real(p) # {}
  <2>1. e.remove = {} /\ e.add = <<>>
    BY <1>1, <1>5
  <2>2. q = p
    <3>1. [i \in DOMAIN p |-> IF p[i].name \in {} THEN NoLine ELSE p[i]] = p
      BY <1>2
    <3>2. p \o <<>> = p
      BY <1>2
    <3> QED
      BY <2>1, <3>1, <3>2 DEF Rewritten
  <2> QED
    BY <1>2, <1>4, <1>5, <2>2 DEF Spares, p, e
<1>6. CASE Real(p) = {}
  <2> DEFINE r == [i \in DOMAIN p |-> IF p[i].name \in e.remove THEN NoLine ELSE p[i]]
  <2>1. q = r \o <<u>>
    BY <1>1, <1>6 DEF Rewritten
  <2>2. DOMAIN r = DOMAIN p /\ \A i \in DOMAIN p : r[i] = IF p[i].name \in e.remove THEN NoLine ELSE p[i]
    OBVIOUS
  <2>3. NoLine \in Accounts /\ NoLine.uid # "uid"
    BY Strings DEF NoLine, Accounts
  <2>4. r \in Seq(Accounts)
    <3>1. \A i \in DOMAIN p : r[i] \in Accounts
      BY <1>2, <2>2, <2>3
    <3>2. r = [i \in 1..Len(p) |-> r[i]] /\ Len(p) \in Nat /\ DOMAIN p = 1..Len(p)
      BY <1>2
    <3> HIDE DEF r
    <3> QED
      BY <3>1, <3>2, LinesAreSeq
  <2>5. OfUid(p) = Held(p)
    BY <1>2, <1>6, LinesAre DEF Held, Placeholder
  <2> HIDE DEF r
  <2>6. OfUid(r) = {}
    <3> SUFFICES ASSUME NEW i \in DOMAIN p, r[i].uid = "uid" PROVE FALSE
      BY <2>2 DEF OfUid
    <3>1. p[i].name \notin e.remove /\ p[i].uid = "uid"
      BY <2>2, <2>3
    <3>2. i \in Held(p)
      BY <2>5, <3>1 DEF OfUid
    <3> QED
      BY <1>1, <3>1, <3>2
  <2>7. Append(r, u) = r \o <<u>>
    BY <1>3, <2>4
  <2>8. /\ Append(r, u) \in Seq(Accounts) /\ OneAccount(Append(r, u)) /\ Spares(r, Append(r, u))
        /\ Real(Append(r, u)) # {} /\ Home(Append(r, u), None) = u.home
    BY <1>3, <2>4, <2>6, Entered
  <2>9. q = Append(r, u)
    BY <2>1, <2>7
  <2>10. Spares(p, r)
    <3> SUFFICES ASSUME NEW j \in DOMAIN p, p[j].uid # "uid" PROVE r[j] = p[j]
      BY <2>2 DEF Spares
    <3>1. CASE Held(p) = {}
      BY <1>1, <2>2, <3>1
    <3>2. ASSUME NEW i \in Held(p) PROVE r[j] = p[j]
      <4>1. e.remove = {p[i].name} /\ p[i].uid = "uid"
        BY <1>1, <3>2 DEF Held, OfUid
      <4>2. p[i].name # p[j].name
        BY <1>4, <3>2, <4>1 DEF OneAccount
      <4> QED
        BY <2>2, <4>1, <4>2
    <3> QED
      BY <3>1, <3>2
  <2>11. Spares(p, q)
    <3> SUFFICES ASSUME NEW j \in DOMAIN p, p[j].uid # "uid" PROVE \E k \in DOMAIN q : q[k] = p[j]
      BY DEF Spares
    <3>1. PICK k \in DOMAIN r : r[k] = p[j]
      BY <2>10 DEF Spares
    <3> QED
      BY <2>8, <2>9, <3>1 DEF Spares
  <2> HIDE DEF q
  <2>12. Home(q, n) = Home(p, n)
    BY <1>3, <2>8, <2>9, NamedHome
  <2> QED
    BY <2>8, <2>9, <2>11, <2>12 DEF p, e, q
<1>7. Real(p) # {} => Held(p) = {}
  BY <1>2, <1>4, LinesAre DEF OneAccount, Held, Placeholder
<1> QED
  BY <1>5, <1>6, <1>7

-----------------------------------------------------------------------------
(* Commands *)

LEMMA TailIs ==
  /\ \A a : <<a>> # <<>> /\ Len(<<a>>) = 1 /\ Head(<<a>>) = a
  /\ \A a, b : <<a, b>> # <<>> /\ Len(<<a, b>>) = 2 /\ Head(<<a, b>>) = a /\ Tail(<<a, b>>) = <<b>>
  /\ \A a, b, c : /\ <<a, b, c>> # <<>> /\ Len(<<a, b, c>>) = 3 /\ Head(<<a, b, c>>) = a
                  /\ Tail(<<a, b, c>>) = <<b, c>>
  /\ \A a, b, c, d : /\ <<a, b, c, d>> # <<>> /\ Len(<<a, b, c, d>>) = 4 /\ Head(<<a, b, c, d>>) = a
                     /\ Tail(<<a, b, c, d>>) = <<b, c, d>>
  /\ \A a, b, c, d, e : /\ <<a, b, c, d, e>> # <<>> /\ Len(<<a, b, c, d, e>>) = 5
                        /\ Head(<<a, b, c, d, e>>) = a /\ Tail(<<a, b, c, d, e>>) = <<b, c, d, e>>
  /\ \A a, b, c, d, e, f : /\ <<a, b, c, d, e, f>> # <<>> /\ Len(<<a, b, c, d, e, f>>) = 6
                           /\ Head(<<a, b, c, d, e, f>>) = a
                           /\ Tail(<<a, b, c, d, e, f>>) = <<b, c, d, e, f>>
OBVIOUS

LEMMA StepsAre ==
  /\ ToCreate # <<>> /\ Len(ToCreate) = 6 /\ Head(ToCreate) = "create" /\ Tail(ToCreate) = ToStart
  /\ ToStart # <<>> /\ Len(ToStart) = 5 /\ Head(ToStart) = "start" /\ Tail(ToStart) = ToWait
  /\ ToWait # <<>> /\ Len(ToWait) = 4 /\ Head(ToWait) = "wait" /\ Tail(ToWait) = ToPrepare
  /\ ToPrepare # <<>> /\ Len(ToPrepare) = 3 /\ Head(ToPrepare) = "prepare_first" /\ Tail(ToPrepare) = ToEnd
  /\ ToRebuild # <<>> /\ Len(ToRebuild) = 4 /\ Head(ToRebuild) = "rebuild" /\ Tail(ToRebuild) = ToPrepareAgain
  /\ ToPrepareAgain # <<>> /\ Len(ToPrepareAgain) = 3 /\ Head(ToPrepareAgain) = "prepare"
  /\ Tail(ToPrepareAgain) = ToEnd
  /\ ToEnd # <<>> /\ Len(ToEnd) = 2 /\ Head(ToEnd) = "wait" /\ Tail(ToEnd) = ToRegister
  /\ ToRegister # <<>> /\ Len(ToRegister) = 1 /\ Head(ToRegister) = "register"
  /\ Starting # <<>> /\ Len(Starting) = 2 /\ Head(Starting) = "start" /\ Tail(Starting) = Started
  /\ Started # <<>> /\ Len(Started) = 1 /\ Head(Started) = "wait"
  /\ Restarting # <<>> /\ Len(Restarting) = 1 /\ Head(Restarting) = "restart"
<1>1. ToCreate # <<>> /\ Len(ToCreate) = 6 /\ Head(ToCreate) = "create" /\ Tail(ToCreate) = ToStart
  BY TailIs DEF ToCreate, ToStart
<1>2. ToStart # <<>> /\ Len(ToStart) = 5 /\ Head(ToStart) = "start" /\ Tail(ToStart) = ToWait
  BY TailIs DEF ToStart, ToWait
<1>3. ToWait # <<>> /\ Len(ToWait) = 4 /\ Head(ToWait) = "wait" /\ Tail(ToWait) = ToPrepare
  BY TailIs DEF ToWait, ToPrepare
<1>4. ToPrepare # <<>> /\ Len(ToPrepare) = 3 /\ Head(ToPrepare) = "prepare_first" /\ Tail(ToPrepare) = ToEnd
  BY TailIs DEF ToPrepare, ToEnd
<1>5. ToRebuild # <<>> /\ Len(ToRebuild) = 4 /\ Head(ToRebuild) = "rebuild" /\ Tail(ToRebuild) = ToPrepareAgain
  BY TailIs DEF ToRebuild, ToPrepareAgain
<1>6. /\ ToPrepareAgain # <<>> /\ Len(ToPrepareAgain) = 3 /\ Head(ToPrepareAgain) = "prepare"
      /\ Tail(ToPrepareAgain) = ToEnd
  BY TailIs DEF ToPrepareAgain, ToEnd
<1>7. ToEnd # <<>> /\ Len(ToEnd) = 2 /\ Head(ToEnd) = "wait" /\ Tail(ToEnd) = ToRegister
  BY TailIs, Zenon DEF ToEnd, ToRegister
<1>8. ToRegister # <<>> /\ Len(ToRegister) = 1 /\ Head(ToRegister) = "register"
  BY TailIs, Zenon DEF ToRegister
<1>9. Starting # <<>> /\ Len(Starting) = 2 /\ Head(Starting) = "start" /\ Tail(Starting) = Started
  BY TailIs, Zenon DEF Starting, Started
<1>10. Started # <<>> /\ Len(Started) = 1 /\ Head(Started) = "wait"
  BY TailIs, Zenon DEF Started
<1>11. Restarting # <<>> /\ Len(Restarting) = 1 /\ Head(Restarting) = "restart"
  BY TailIs, Zenon DEF Restarting
<1> QED
  BY <1>1, <1>2, <1>3, <1>4, <1>5, <1>6, <1>7, <1>8, <1>9, <1>10, <1>11

LEMMA Apart ==
  /\ <<>> \notin {ToCreate, ToStart, ToWait, ToPrepare, ToRebuild, ToPrepareAgain, ToEnd, ToRegister,
                  Starting, Started, Restarting}
  /\ ToCreate \notin {ToStart, ToWait, ToPrepare, ToRebuild, ToPrepareAgain, ToEnd, ToRegister,
                      Starting, Started, Restarting}
  /\ ToStart \notin {ToWait, ToPrepare, ToRebuild, ToPrepareAgain, ToEnd, ToRegister, Starting, Started, Restarting}
  /\ ToWait \notin {ToPrepare, ToRebuild, ToPrepareAgain, ToEnd, ToRegister, Starting, Started, Restarting}
  /\ ToPrepare \notin {ToRebuild, ToPrepareAgain, ToEnd, ToRegister, Starting, Started, Restarting}
  /\ ToRebuild \notin {ToPrepareAgain, ToEnd, ToRegister, Starting, Started, Restarting}
  /\ ToPrepareAgain \notin {ToEnd, ToRegister, Starting, Started, Restarting}
  /\ ToEnd \notin {ToRegister, Starting, Started, Restarting}
  /\ ToRegister \notin {Starting, Started, Restarting}
  /\ Starting \notin {Started, Restarting}
  /\ Started # Restarting
<1>1. /\ <<>> \notin {ToCreate, ToStart, ToWait, ToPrepare, ToRebuild, ToPrepareAgain, ToEnd, ToRegister,
                      Starting, Started, Restarting}
      /\ ToCreate \notin {ToStart, ToWait, ToPrepare, ToRebuild, ToPrepareAgain, ToEnd, ToRegister,
                          Starting, Started, Restarting}
      /\ ToStart \notin {ToWait, ToPrepare, ToRebuild, ToPrepareAgain, ToEnd, ToRegister,
                         Starting, Started, Restarting}
  BY StepsAre
<1>2. /\ ToWait \notin {ToPrepare, ToRebuild, ToPrepareAgain, ToEnd, ToRegister, Starting, Started, Restarting}
      /\ ToPrepare \notin {ToRebuild, ToPrepareAgain, ToEnd, ToRegister, Starting, Started, Restarting}
      /\ ToRebuild \notin {ToPrepareAgain, ToEnd, ToRegister, Starting, Started, Restarting}
  BY StepsAre
<1>3. /\ ToPrepareAgain \notin {ToEnd, ToRegister, Starting, Started, Restarting}
      /\ ToEnd \notin {ToRegister, Starting, Started, Restarting}
      /\ ToRegister \notin {Starting, Started, Restarting}
      /\ Starting \notin {Started, Restarting}
      /\ Started # Restarting
  BY StepsAre
<1> QED
  BY <1>1, <1>2, <1>3

LEMMA AtIs ==
  ASSUME todo \in Steps
  PROVE  /\ At("create") <=> todo = ToCreate
         /\ At("start") <=> todo \in {ToStart, Starting}
         /\ At("wait") <=> todo \in {ToWait, ToEnd, Started}
         /\ At("prepare_first") <=> todo = ToPrepare
         /\ At("rebuild") <=> todo = ToRebuild
         /\ At("prepare") <=> todo = ToPrepareAgain
         /\ At("register") <=> todo = ToRegister
         /\ At("restart") <=> todo = Restarting
<1>1. todo = <<>> \/ todo \in {ToCreate, ToStart, ToWait, ToPrepare, ToRebuild, ToPrepareAgain, ToEnd, ToRegister,
                               Starting, Started, Restarting}
  BY DEF Steps, Outside
<1>2. CASE todo = <<>>
  BY <1>2, Apart DEF At
<1>3. CASE todo # <<>>
  <2>1. \A s : At(s) <=> Head(todo) = s
    BY <1>3 DEF At
  <2>2. CASE todo \in {ToCreate, ToStart, ToWait, ToPrepare}
    BY <2>1, <2>2, StepsAre, Apart
  <2>3. CASE todo \in {ToRebuild, ToPrepareAgain, ToEnd, ToRegister}
    BY <2>1, <2>3, StepsAre, Apart
  <2>4. CASE todo \in {Starting, Started, Restarting}
    BY <2>1, <2>4, StepsAre, Apart
  <2> QED
    BY <1>1, <1>3, <2>2, <2>3, <2>4
<1> QED
  BY <1>2, <1>3

LEMMA Advances ==
  ASSUME todo \in Steps, todo # <<>>, Advance
  PROVE  /\ todo = ToCreate => todo' = ToStart
         /\ todo = ToStart => todo' = ToWait
         /\ todo = ToWait => todo' = ToPrepare
         /\ todo = ToPrepare => todo' = ToEnd
         /\ todo = ToRebuild => todo' = ToPrepareAgain
         /\ todo = ToPrepareAgain => todo' = ToEnd
         /\ todo = ToEnd => todo' = ToRegister
         /\ todo = Starting => todo' = Started
         /\ todo \in {ToRegister, Started, Restarting} => todo' = <<>>
         /\ todo \notin {ToRegister, Started, Restarting} => given' = given
<1>1. Len(todo) = 1 => todo' = <<>>
  BY DEF Advance, GiveUp
<1>2. Len(todo) # 1 => todo' = Tail(todo) /\ given' = given
  BY DEF Advance
<1>3. todo \in {ToCreate, ToStart, ToWait, ToPrepare, ToRebuild, ToPrepareAgain, ToEnd, ToRegister,
                Starting, Started, Restarting}
  BY DEF Steps, Outside
<1>4. CASE todo = ToCreate
  <2>1. Len(todo) # 1
    BY <1>4, StepsAre
  <2>2. todo' = ToStart /\ given' = given
    BY <1>2, <1>4, <2>1, StepsAre, Zenon
  <2> QED
    BY <1>4, <2>2, Apart
<1>5. CASE todo = ToStart
  <2>1. Len(todo) # 1
    BY <1>5, StepsAre
  <2>2. todo' = ToWait /\ given' = given
    BY <1>2, <1>5, <2>1, StepsAre, Zenon
  <2> QED
    BY <1>5, <2>2, Apart
<1>6. CASE todo = ToWait
  <2>1. Len(todo) # 1
    BY <1>6, StepsAre
  <2>2. todo' = ToPrepare /\ given' = given
    BY <1>2, <1>6, <2>1, StepsAre, Zenon
  <2> QED
    BY <1>6, <2>2, Apart
<1>7. CASE todo = ToPrepare
  <2>1. Len(todo) # 1
    BY <1>7, StepsAre
  <2>2. todo' = ToEnd /\ given' = given
    BY <1>2, <1>7, <2>1, StepsAre, Zenon
  <2> QED
    BY <1>7, <2>2, Apart
<1>8. CASE todo = ToRebuild
  <2>1. Len(todo) # 1
    BY <1>8, StepsAre
  <2>2. todo' = ToPrepareAgain /\ given' = given
    BY <1>2, <1>8, <2>1, StepsAre, Zenon
  <2> QED
    BY <1>8, <2>2, Apart
<1>9. CASE todo = ToPrepareAgain
  <2>1. Len(todo) # 1
    BY <1>9, StepsAre
  <2>2. todo' = ToEnd /\ given' = given
    BY <1>2, <1>9, <2>1, StepsAre, Zenon
  <2> QED
    BY <1>9, <2>2, Apart
<1>10. CASE todo = ToEnd
  <2>1. Len(todo) # 1
    BY <1>10, StepsAre
  <2>2. todo' = ToRegister /\ given' = given
    BY <1>2, <1>10, <2>1, StepsAre, Zenon
  <2> QED
    BY <1>10, <2>2, Apart
<1>11. CASE todo = Starting
  <2>1. Len(todo) # 1
    BY <1>11, StepsAre
  <2>2. todo' = Started /\ given' = given
    BY <1>2, <1>11, <2>1, StepsAre, Zenon
  <2> QED
    BY <1>11, <2>2, Apart
<1>12. CASE todo \in {ToRegister, Started, Restarting}
  <2>1. todo' = <<>>
    BY <1>1, <1>12, StepsAre
  <2> QED
    BY <1>12, <2>1, Apart
<1> QED
  BY <1>3, <1>4, <1>5, <1>6, <1>7, <1>8, <1>9, <1>10, <1>11, <1>12

-----------------------------------------------------------------------------
(* What does not change *)

LEMMA TypedStays ==
  ASSUME Typed, UNCHANGED <<box, fs, reg, exec, server, failed, up, faults>> PROVE Typed'
BY DEF Typed
LEMMA InStepStays == ASSUME InStep, UNCHANGED <<todo, given, box, reg, exec, up>> PROVE InStep'
BY DEF InStep
LEMMA LifeStays == ASSUME Life, UNCHANGED <<box, reg, up, fs, server, exec, failed, todo>> PROVE Life'
BY DEF Life
LEMMA AccountsStay == ASSUME AccountsKept, UNCHANGED <<fs, box, exec>> PROVE AccountsKept'
BY DEF AccountsKept
LEMMA SameUserStays == ASSUME SameUser, UNCHANGED <<box, reg, exec, fs, server>> PROVE SameUser'
BY DEF SameUser, Unnamed, Decided
LEMMA PreparesStays == ASSUME Prepares, UNCHANGED <<exec, fs, box, rundir, todo, reg>> PROVE Prepares'
BY DEF Prepares
LEMMA PreparedStays == ASSUME Prepared, UNCHANGED <<box, exec, failed, todo, reg, fs, up, rundir>> PROVE Prepared'
BY DEF Prepared, Settled
LEMMA AstrayStays == ASSUME NothingAstray, UNCHANGED <<faults, fs, box, todo, exec>> PROVE NothingAstray'
BY DEF NothingAstray
LEMMA SparedStays == ASSUME Spared, UNCHANGED hostdir PROVE Spared'
BY DEF Spared
LEMMA FollowedStays ==
  ASSUME Followed, UNCHANGED <<server, box, x11>> PROVE Followed'
BY DEF Followed, Remembered, CookieIsFollowed, Wanted, LinkPath, Probed, Hosts, x11

-----------------------------------------------------------------------------
(* In the beginning *)

LEMMA MadeIs ==
  ASSUME NEW c, NEW hv, NEW passwd, NEW image
  PROVE  LET b == create_inner(c, hv, passwd, image)
             p == inject_passthrough(c, hv) IN
         /\ b.cfg = c /\ b.image = image.passwd /\ b.env = Over(Variables(c, p.env), image.env)
         /\ b.home = IF \E i \in DOMAIN c.mounts : Contains(c.mounts[i].to, "HOME")
                     THEN HomeOf(c, p.mounts, passwd) ELSE None
BY DEF create_inner, Passed, WithHome

\* What the home is called in the mounts.
LEMMA HomeIs ==
  ASSUME NEW c \in Configs, NEW hv \in HostEnvs, NEW passwd \in Seq(Accounts), NEW image,
         create_inner(c, hv, passwd, image).home # None
  PROVE  create_inner(c, hv, passwd, image).home = Home(passwd, c.user)
<1> DEFINE p == inject_passthrough(c, hv)
<1>1. /\ \E i \in DOMAIN c.mounts : Contains(c.mounts[i].to, "HOME")
      /\ create_inner(c, hv, passwd, image).home = HomeOf(c, p.mounts, passwd)
  BY MadeIs
<1>2. Passing(c, p)
  BY PassesOn
<1> HIDE DEF p
<1>3. passwd # None
  BY Absent
<1>4. CASE c.user # None
  BY <1>1, <1>4, NamedHome DEF HomeOf, needs_image_passwd, container_path_vars
<1>5. CASE c.user = None
  <2>1. PICK i \in DOMAIN c.mounts : Contains(c.mounts[i].to, "HOME")
    BY <1>1
  <2>2. i \in DOMAIN p.mounts /\ p.mounts[i] = c.mounts[i]
    <3>1. c.mounts \in Seq(MountTexts)
      BY ModesAre
    <3> QED
      BY <1>2, <3>1 DEF Passing
  <2>3. needs_image_passwd(p.mounts, c.user)
    BY <1>5, <2>1, <2>2 DEF needs_image_passwd
  <2> QED
    BY <1>1, <1>3, <2>3 DEF HomeOf, container_path_vars, Home
<1> QED
  BY <1>4, <1>5

LEMMA ABoxIsMade == ASSUME NEW b, b.cfg \in Configs PROVE b # NoBox /\ b.cfg # None
<1>1. b.cfg # None
  BY Absent
<1>2. NoBox.cfg = None
  BY DEF NoBox
<1> QED
  BY <1>1, <1>2

LEMMA ImageIs ==
  ASSUME NEW i \in Images
  PROVE  /\ i.passwd \in Seq(Accounts) /\ OneAccount(i.passwd) /\ i.tools \in SUBSET STRING
         /\ Named(i.env) => i.env["EASYTIDY_USER_NAME"] \in Texts
<1>1. /\ i.passwd \in Seq(Accounts) /\ i.tools \in SUBSET STRING
      /\ Named(i.env) => i.env["EASYTIDY_USER_NAME"] \in Texts
  BY ImagesAre DEF Named, IsEnv
<1>2. \A j, k \in OfUid(i.passwd) : j = k
  <2> SUFFICES ASSUME NEW j \in OfUid(i.passwd), NEW k \in OfUid(i.passwd) PROVE j = k
    OBVIOUS
  <2>1. j \in DOMAIN i.passwd /\ k \in DOMAIN i.passwd /\ i.passwd[j].uid = "uid" /\ i.passwd[k].uid = "uid"
    BY DEF OfUid
  <2>2. {i.passwd[j].uid, i.passwd[k].uid} = {"uid"}
    BY <2>1
  <2> QED
    BY <2>1, <2>2, ImagesAre
<1>3. \A j \in Held(i.passwd), k \in DOMAIN i.passwd : i.passwd[j].name = i.passwd[k].name => j = k
  BY <1>1, ImagesAre, LinesAre
<1>4. \A j \in DOMAIN i.passwd : i.passwd[j].name # "1000"
  BY ImagesAre
<1> QED
  BY <1>1, <1>2, <1>3, <1>4 DEF OneAccount

LEMMA FilesAre ==
  ASSUME NEW image, image.passwd \in Seq(Accounts), image.tools \in SUBSET STRING, NEW s \in BOOLEAN
  PROVE  /\ Files(image, s) \in FileSets /\ Files(image, s).passwd = image.passwd /\ Files(image, s).homes = {}
         /\ Files(image, s).strays = s
BY Strings DEF Files, FileSets

LEMMA InitHolds == ASSUME Init PROVE IInv
<1>1. /\ up = "down" /\ todo = <<>> /\ given = None /\ begun = 0
      /\ exec = None /\ server = None /\ hostdir = "spared"
      /\ last = {}
      /\ failed = FALSE /\ faults = 0
  BY DEF Init
<1>2. InStep
  <2>1. todo \in Steps
    BY <1>1 DEF Steps, Outside
  <2> QED
    BY <1>1, <2>1, Apart DEF InStep
<1>3. Prepares /\ Spared /\ Followed
  BY <1>1 DEF Prepares, Spared, Followed, Remembered, CookieIsFollowed
<1>4. CASE box = NoBox /\ reg = None /\ fs = Files([passwd |-> <<>>, tools |-> {}], TRUE)
  <2>1. <<>> \in Seq(Accounts) /\ DOMAIN <<>> = {}
    OBVIOUS
  <2>2. fs \in FileSets /\ fs.passwd = <<>> /\ fs.homes = {}
    <3> DEFINE image == [passwd |-> <<>>, tools |-> {}]
    <3>1. image.passwd \in Seq(Accounts) /\ image.passwd = <<>> /\ image.tools \in SUBSET STRING
      BY <2>1
    <3>2. fs = Files(image, TRUE)
      BY <1>4
    <3> HIDE DEF image
    <3> QED
      BY <3>1, <3>2, FilesAre
  <2>3. OneAccount(fs.passwd) /\ OfUid(fs.passwd) = {}
    BY <2>1, <2>2 DEF OneAccount, OfUid, Held
  <2>4. Typed
    BY <1>1, <1>4, <2>2 DEF Typed
  <2>5. Life
    BY <1>1, <1>4, <2>2, Apart DEF Life
  <2>6. AccountsKept
    BY <1>1, <1>4, <2>2, <2>3 DEF AccountsKept
  <2>7. SameUser /\ Prepared /\ NothingAstray
    BY <1>1, <1>4 DEF SameUser, Prepared, NothingAstray, Unnamed, Decided, Settled
  <2> QED
    BY <1>2, <1>3, <2>4, <2>5, <2>6, <2>7 DEF IInv
<1>5. ASSUME NEW c \in Configs, NEW hv \in HostEnvs, NEW i \in Images,
             ~Bypass(c), Creatable(c, hv, create_inner(c, hv, i.passwd, i)),
             box = create_inner(c, hv, i.passwd, i), reg = Legacy(c), fs = Files(i, FALSE)
      PROVE  IInv
  <2>1. /\ i.passwd \in Seq(Accounts) /\ OneAccount(i.passwd) /\ i.tools \in SUBSET STRING
        /\ Named(i.env) => i.env["EASYTIDY_USER_NAME"] \in Texts
    BY ImageIs
  <2>2. WellMade(box)
    BY <1>5, <2>1, MadeWell
  <2>3. box.cfg = c /\ box.image = i.passwd
    BY <1>5, MadeIs
  <2>4. box # NoBox
    BY <2>3, ABoxIsMade
  <2>5. fs \in FileSets /\ fs.passwd = i.passwd /\ fs.homes = {} /\ fs.strays = FALSE
    BY <1>5, <2>1, FilesAre
  <2>6. Loaded(reg) = c
    BY <1>5, LoadedLegacy
  <2>7. box.home # None => box.home = Home(i.passwd, c.user)
    BY <1>5, <2>1, HomeIs
  <2>8. Typed
    BY <1>1, <2>2, <2>5, <2>6 DEF Typed
  <2>9. Life
    BY <1>1, <2>4, Apart DEF Life
  <2>10. OthersIn(fs.passwd, box.image)
    BY <2>3, <2>5 DEF OthersIn
  <2>11. AccountsKept
    BY <1>1, <2>1, <2>5, <2>10 DEF AccountsKept
  <2>12. ~Named(box.env) => c.user = None
    BY <2>2, <2>3 DEF WellMade, Told
  <2>13. SameUser
    BY <1>1, <2>3, <2>5, <2>6, <2>7, <2>12 DEF SameUser, Unnamed, Decided
  <2>14. Prepared /\ NothingAstray
    BY <1>1, <2>5 DEF Prepared, NothingAstray
  <2> QED
    BY <1>2, <1>3, <2>8, <2>9, <2>11, <2>13, <2>14 DEF IInv
<1> QED
  BY <1>4, <1>5 DEF Init

-----------------------------------------------------------------------------
(* A command begins *)

Opened ==
    /\ todo = <<>> /\ todo' \in {ToCreate, ToRebuild, Starting, Restarting}
    /\ todo' = ToCreate => box = NoBox /\ given' \in Configs
    /\ todo' = ToRebuild => given' \in Configs
    /\ todo' \in {ToRebuild, Starting, Restarting} => box # NoBox
    /\ todo' = Starting => up = "down"
    /\ UNCHANGED <<made, up, exec, server, dirs, x11, failed, faults>>
LEMMA CommandHolds == ASSUME IInv, Command PROVE IInv'
<1>0. Opened
  <2>1. CASE start
    BY <2>1, Apart DEF start, Begin, Starting, Opened
  <2>2. CASE restart
    BY <2>2, Apart DEF restart, Begin, Restarting, Opened
  <2>3. ASSUME NEW c \in Configs, create(c) PROVE Opened
    BY <2>3, Apart DEF create, Begin, ToCreate, Opened
  <2>4. ASSUME NEW c \in Configs, rebuild(c) PROVE Opened
    BY <2>4, Apart DEF rebuild, Begin, ToRebuild, Opened
  <2> QED
    BY <2>1, <2>2, <2>3, <2>4 DEF Command
<1>1. /\ todo = <<>> /\ todo' \in {ToCreate, ToRebuild, Starting, Restarting}
      /\ todo' = ToCreate => box = NoBox /\ given' \in Configs
      /\ todo' = ToRebuild => given' \in Configs
      /\ todo' \in {ToRebuild, Starting, Restarting} => box # NoBox
      /\ todo' = Starting => up = "down"
      /\ UNCHANGED <<made, up, exec, server, dirs, x11, failed, faults>>
  BY <1>0 DEF Opened
<1>2. UNCHANGED <<box, fs, reg, exec, server, rundir, hostdir, x11, failed, up, faults>>
  BY <1>1 DEF made, dirs, x11
<1>3. /\ Typed /\ InStep /\ Life /\ AccountsKept /\ SameUser
      /\ Prepares /\ Prepared /\ NothingAstray /\ Spared /\ Followed
  BY DEF IInv
<1>4. Typed' /\ AccountsKept' /\ SameUser' /\ Spared' /\ Followed'
  BY <1>2, <1>3, TypedStays, AccountsStay, SameUserStays, SparedStays, FollowedStays
<1>5. InStep'
  <2>1. todo' \in Steps
    BY <1>1 DEF Steps, Outside
  <2>2. todo' = ToCreate => reg' = None
    BY <1>1, <1>2, <1>3 DEF Life
  <2>3. todo' = Starting => exec' = None
    BY <1>1, <1>2, <1>3 DEF Life
  <2> QED
    BY <1>1, <1>2, <2>1, <2>2, <2>3, Apart DEF InStep
<1>6. Life'
  BY <1>1, <1>2, <1>3, Apart DEF Life
<1>7. Prepares'
  BY <1>1, <1>2, <1>3, Apart DEF Prepares
<1>8. Prepared'
  <2>1. Settled' => Settled
    BY <1>1, <1>2, Apart DEF Settled, Outside
  <2> QED
    BY <1>2, <1>3, <2>1 DEF Prepared
<1>9. NothingAstray'
  BY <1>1, <1>2, <1>3, Apart DEF NothingAstray
<1> QED
  BY <1>4, <1>5, <1>6, <1>7, <1>8, <1>9 DEF IInv

-----------------------------------------------------------------------------
(* The server and the cookie *)

LEMMA ServedBox == ASSUME Typed, Life, server # None PROVE box # NoBox /\ WellMade(box) /\ up # "down"
BY DEF Typed, Life

\* setup.rs probe_xauthority_any: where the host's directory is mounted and nothing else
\* looks like a cookie, its cookie is found.
HostsDirs == {d \in Probed : Hosts(d)}
LEMMA ProbeFinds ==
  ASSUME WellMade(box), own = {}, left = {}, cookie # None, HostsDirs # {}
  PROVE  /\ probe_xauthority_any # {}
         /\ \A f \in probe_xauthority_any : \E d \in HostsDirs : f = Append(d, cookie)
<1>1. \A dir : Hosts(dir) => dir \notin box.tmpfs /\ dir # <<>>
  BY DEF Hosts, WellMade, Placed
<1>2. \A dir : ~Hosts(dir) => Cookies(dir) = {}
  BY DEF Cookies
<1>3. \A dir : Hosts(dir) => Cookies(dir) = {Append(dir, cookie)}
  BY <1>1 DEF Cookies
<1> DEFINE a == Get(box.env, "XDG_RUNTIME_DIR")
           b == Get(box.env, "HOST_XDG_RUNTIME_DIR")
<1>4. HostsDirs = {d \in {a, b} : Hosts(d)}
  BY DEF HostsDirs, Probed
<1>5. probe_xauthority_any = IF Cookies(a) # {} THEN Cookies(a) ELSE Cookies(b)
  BY DEF probe_xauthority_any
<1> HIDE DEF a, b
<1> QED
  BY <1>2, <1>3, <1>4, <1>5

\* setup.rs write_xauthority_link: when it has been written, to a file that is the only
\* one to look like a cookie, nothing else looks like one now.
LEMMA Written ==
  ASSUME NEW found, Follow(found), ~unwritten'
  PROVE  /\ found \in {link', LinkPath}
         /\ left' = {} /\ own' = {} /\ cookie' # None
            => left = {} /\ own = {} /\ cookie' = cookie
BY DEF Follow, write_xauthority_link

\* What makes the link follow, of a look that leaves the container alone.
LEMMA LookFollows ==
  ASSUME Typed, Life, server # None, UNCHANGED <<server, box>>,
         Wanted /\ probe_xauthority_any # {} =>
            \E found \in probe_xauthority_any : 
               /\ ~unwritten' => found \in {link', LinkPath}
               /\ ~unwritten' /\ left' = {} /\ own' = {} /\ cookie' # None
                     => left = {} /\ own = {} /\ cookie' = cookie,
         Wanted /\ probe_xauthority_any = {} => UNCHANGED <<left, own, cookie>>
  PROVE  CookieIsFollowed'
<1>1. WellMade(box)
  BY ServedBox
<1>2. LinkPath' = LinkPath /\ Probed' = Probed /\ \A d : Hosts(d)' = Hosts(d)
  BY DEF LinkPath, Probed, Hosts
<1>3. HostsDirs' = HostsDirs /\ Wanted' = Wanted
  BY <1>2 DEF HostsDirs, Wanted
<1>4. SUFFICES ASSUME ~unwritten', Wanted, cookie' # None, left' = {}, own' = {}, HostsDirs # {}
               PROVE  \E d \in HostsDirs : Append(d, cookie') \in {link', LinkPath}
  BY <1>2, <1>3 DEF CookieIsFollowed, HostsDirs
<1>5. left = {} /\ own = {} /\ cookie' = cookie
  BY <1>4
<1>6. PICK found \in probe_xauthority_any : found \in {link', LinkPath}
  BY <1>1, <1>4, <1>5, ProbeFinds
<1> QED
  BY <1>1, <1>4, <1>5, <1>6, ProbeFinds

LEMMA EnsureFollows ==
  ASSUME Typed, Life, Followed, ensure_xauthority PROVE Followed'
<1>1. /\ server # None /\ last = {} /\ last' = {} /\ UNCHANGED <<server, box>>
  BY DEF ensure_xauthority, made
<1>2. PICK found \in probe_xauthority_any : Follow(found)
  BY DEF ensure_xauthority
<1>3. CookieIsFollowed'
  BY <1>1, <1>2, Written, LookFollows
<1> QED
  BY <1>1, <1>3 DEF Followed, Remembered

LEMMA WatchFollows ==
  ASSUME Typed, Life, Followed, xauthority_watch_task PROVE Followed'
<1>1. server # None /\ UNCHANGED <<server, box>> /\ LinkPath' = LinkPath /\ box # NoBox
  BY ServedBox DEF xauthority_watch_task, made, LinkPath
<1>2. Remembered
  BY DEF Followed
<1>3. CASE ~Wanted \/ probe_xauthority_any = {}
  <2>1. UNCHANGED <<link, left, own, cookie, unwritten, last>>
    BY <1>3 DEF xauthority_watch_task
  <2>2. CookieIsFollowed'
    BY <1>1, <1>3, <2>1, LookFollows
  <2> QED
    BY <1>1, <1>2, <2>1, <2>2 DEF Followed, Remembered
<1>4. CASE Wanted /\ probe_xauthority_any # {}
  <2>1. PICK found \in probe_xauthority_any :
           /\ IF last = {found} THEN UNCHANGED <<link, left, own, cookie, unwritten>> ELSE Follow(found)
           /\ last' = {found}
    BY <1>4 DEF xauthority_watch_task
  <2>3. ~unwritten' => found \in {link', LinkPath}
    BY <1>2, <2>1, Written DEF Remembered
  <2>4. ~unwritten' /\ left' = {} /\ own' = {} /\ cookie' # None
          => left = {} /\ own = {} /\ cookie' = cookie
    BY <2>1, Written
  <2>5. CookieIsFollowed'
    BY <1>1, <1>4, <2>3, <2>4, LookFollows
  <2> QED
    BY <1>1, <2>1, <2>3, <2>5 DEF Followed, Remembered
<1> QED
  BY <1>3, <1>4

LEMMA OfServerHolds == ASSUME IInv, OfServer PROVE IInv'
<1>1. /\ Typed /\ InStep /\ Life /\ AccountsKept /\ SameUser
      /\ Prepares /\ Prepared /\ NothingAstray /\ Spared /\ Followed
  BY DEF IInv
<1>2. /\ UNCHANGED <<made, up, cmd, exec, server, dirs, failed, faults>>
  BY DEF OfServer, ensure_xauthority, xauthority_watch_task, Session, OwnDisplay
<1>3. UNCHANGED <<box, fs, reg, up, todo, given, begun, exec, server, rundir, hostdir, failed, faults>>
  BY <1>2 DEF made, cmd, dirs
<1>4. Typed'
  BY <1>1, <1>2, <1>3 DEF Typed
<1>5. InStep' /\ Life' /\ AccountsKept' /\ SameUser' /\ Prepares' /\ Prepared' /\ NothingAstray' /\ Spared'
  BY <1>1, <1>3, InStepStays, LifeStays, AccountsStay, SameUserStays, PreparesStays, PreparedStays, AstrayStays,
     SparedStays
<1>6. Followed'
  <2>1. CASE ensure_xauthority
    BY <1>1, <2>1, EnsureFollows
  <2>2. CASE xauthority_watch_task
    BY <1>1, <2>2, WatchFollows
  <2>3. CASE Session \/ OwnDisplay
    BY <1>1, <1>3, <2>3 DEF Session, OwnDisplay, Followed, Remembered, CookieIsFollowed, LinkPath
  <2> QED
    BY <2>1, <2>2, <2>3 DEF OfServer
<1> QED
  BY <1>4, <1>5, <1>6 DEF IInv

-----------------------------------------------------------------------------
(* On the host *)

\* The start of a container: accounts, and who the server says it is.
LEMMA BootIs ==
  ASSUME Typed, AccountsKept, Boot(fs), WellMade(box')
  PROVE  /\ fs' \in FileSets /\ fs'.passwd = Booted(fs.passwd)
         /\ fs'.homes = fs.homes /\ fs'.strays = fs.strays /\ fs'.scripts = fs.scripts
         /\ fs'.tools = fs.tools /\ fs'.rest = fs.rest
         /\ server' \in Accounts /\ server' # None
         /\ box'.cfg.user # None \/ ~Named(box'.env) => server'.home = Home(fs'.passwd, box'.cfg.user)
         /\ rundir' = "root" /\ own' = {} /\ last' = {} /\ failed' = (failed \/ exec # None)
<1>1. fs \in FileSets /\ fs.passwd \in Seq(Accounts) /\ OneAccount(fs.passwd)
  BY DEF Typed, AccountsKept, FileSets
<1> DEFINE g == IF fs.group = "none" THEN "placeholder" ELSE fs.group
           p == Booted(fs.passwd)
           n == Get(box'.env, "EASYTIDY_USER_NAME")
           name == IF n = <<>> THEN None ELSE Head(n)
<1>2. /\ fs' = [fs EXCEPT !.passwd = p, !.group = g]
      /\ server' = resolve_identity(fs'.passwd, name)
      /\ rundir' = "root" /\ own' = {} /\ last' = {} /\ failed' = (failed \/ exec # None)
  BY DEF Boot, Booted
<1>3. p \in Seq(Accounts) /\ OneAccount(p)
  BY <1>1, BootedIs
<1>4. g \in STRING
  BY <1>1, Strings DEF FileSets
<1>5. name \in STRING \cup {None}
  <2>1. n \in Seq(STRING)
    <3>1. Named(box'.env) => box'.env["EASYTIDY_USER_NAME"] \in Texts
      BY DEF WellMade, Told
    <3>2. <<>> \in Texts
      BY Words
    <3> QED
      BY <3>1, <3>2 DEF Named, Get, Texts
  <2> HIDE DEF n
  <2>2. n # <<>> => Head(n) \in STRING
    BY <2>1
  <2> QED
    BY <2>2
<1>6. ASSUME box'.cfg.user # None \/ ~Named(box'.env) PROVE name = box'.cfg.user
  <2>1. CASE box'.cfg.user # None
    <3>1. n = <<box'.cfg.user>>
      BY <2>1 DEF WellMade, Told, Named, Get
    <3> HIDE DEF n
    <3> QED
      BY <3>1
  <2>2. CASE box'.cfg.user = None
    <3>1. n = <<>>
      BY <1>6, <2>2 DEF Named, Get
    <3> HIDE DEF n
    <3> QED
      BY <2>2, <3>1
  <2> QED
    BY <2>1, <2>2
<1> HIDE DEF g, p, name
<1>7. /\ fs' \in FileSets /\ fs'.passwd = p
      /\ fs'.homes = fs.homes /\ fs'.strays = fs.strays /\ fs'.scripts = fs.scripts
      /\ fs'.tools = fs.tools /\ fs'.rest = fs.rest
  BY <1>1, <1>2, <1>3, <1>4 DEF FileSets
<1>8. server' \in Accounts
  BY <1>2, <1>3, <1>5, <1>7, IdentityIs
<1>9. server' # None
  BY <1>8, Absent
<1>10. box'.cfg.user # None \/ ~Named(box'.env) => server'.home = Home(fs'.passwd, box'.cfg.user)
  BY <1>2, <1>6 DEF Home
<1> QED
  BY <1>2, <1>7, <1>8, <1>9, <1>10 DEF p

\* A preparation that has been called.
LEMMA CalledIs ==
  ASSUME NEW f \in FileSets, NEW n \in STRING \cup {None}, NEW first \in BOOLEAN, OneAccount(f.passwd)
  PROVE  LET e == [plan_prepare(f, n, first) EXCEPT !.at = "called"] IN
         e \in Plans /\ e # None /\ e.at = "called" /\ e.user = n /\ e.first = first
<1> DEFINE d == plan_prepare(f, n, first)
           e == [d EXCEPT !.at = "called"]
<1>1. d \in Plans /\ d.user = n /\ d.first = first
  <2>1. Planned(d, f.passwd, n, first)
    BY PlanIs
  <2> HIDE DEF d
  <2> QED
    BY <2>1 DEF Planned
<1> HIDE DEF d
<1>2. "called" \in STRING
  BY Strings
<1>3. e \in Plans /\ e.at = "called" /\ e.user = n /\ e.first = first
  BY <1>1, <1>2 DEF Plans
<1>4. e # None
  BY <1>3, Absent
<1> QED
  BY <1>3, <1>4 DEF d

\* When a command is given up nothing is in hand.
LEMMA GivenUp ==
  ASSUME IInv, GiveUp, UNCHANGED <<made, up, exec, server, dirs, x11, failed, faults>>,
         todo \in {ToCreate, ToRebuild}
  PROVE  IInv'
<1>1. /\ Typed /\ InStep /\ Life /\ AccountsKept /\ SameUser
      /\ Prepares /\ Prepared /\ NothingAstray /\ Spared /\ Followed
  BY DEF IInv
<1>2. /\ UNCHANGED <<box, fs, reg, up, exec, server, rundir, hostdir, x11, failed, faults>>
      /\ todo' = <<>>
  BY DEF made, dirs, x11, GiveUp
<1>3. Typed' /\ AccountsKept' /\ SameUser' /\ Spared' /\ Followed'
  BY <1>1, <1>2, TypedStays, AccountsStay, SameUserStays, SparedStays, FollowedStays
<1>4. InStep'
  <2>1. todo' \in Steps
    BY <1>2 DEF Steps, Outside
  <2> QED
    BY <1>2, <2>1, Apart DEF InStep
<1>5. Life'
  BY <1>1, <1>2, Apart DEF Life
<1>6. Prepares'
  BY <1>1, <1>2, Apart DEF Prepares
<1>7. Prepared'
  <2>1. Settled' => Settled
    BY <1>1, <1>2, Apart DEF Settled, Outside, InStep
  <2> QED
    BY <1>1, <1>2, <2>1 DEF Prepared
<1>8. NothingAstray'
  BY <1>1, <1>2, Apart DEF NothingAstray
<1> QED
  BY <1>3, <1>4, <1>5, <1>6, <1>7, <1>8 DEF IInv

LEMMA CreateHolds == ASSUME IInv, Create PROVE IInv'
<1>1. /\ Typed /\ InStep /\ Life /\ AccountsKept /\ SameUser
      /\ Prepares /\ Prepared /\ NothingAstray /\ Spared /\ Followed
  BY DEF IInv
<1>2. UNCHANGED <<reg, up, exec, server, dirs, x11, failed, faults>> /\ At("create")
  BY DEF Create
<1>3. UNCHANGED <<reg, up, exec, server, rundir, hostdir, x11, failed, faults>>
  BY <1>2 DEF dirs, x11
<1>4. todo = ToCreate
  BY <1>1, <1>2, AtIs DEF InStep
<1>5. given \in Configs /\ box = NoBox /\ reg = None /\ exec = None /\ up = "down" /\ server = None
  BY <1>1, <1>4, Apart DEF InStep, Life
<1>6. CASE GiveUp /\ UNCHANGED <<box, fs>>
  BY <1>2, <1>4, <1>6, GivenUp DEF made
<1>7. ASSUME NEW hv \in HostEnvs, NEW i \in Images,
             box' = create_inner(given, hv, i.passwd, i), Creatable(given, hv, box'), fs' = Files(i, TRUE), Advance
      PROVE  IInv'
  <2> DEFINE b == create_inner(given, hv, i.passwd, i)
  <2>1. /\ i.passwd \in Seq(Accounts) /\ OneAccount(i.passwd) /\ i.tools \in SUBSET STRING
        /\ Named(i.env) => i.env["EASYTIDY_USER_NAME"] \in Texts
    BY ImageIs
  <2>2. WellMade(b)
    BY <1>5, <1>7, <2>1, MadeWell
  <2>3. b.cfg = given /\ b.image = i.passwd
    BY MadeIs
  <2>4. b.home # None => b.home = Home(i.passwd, given.user)
    BY <1>5, <2>1, HomeIs
  <2>5. box' = b
    BY <1>7
  <2> HIDE DEF b
  <2>6. box' # NoBox
    BY <1>5, <2>3, <2>5, ABoxIsMade
  <2>7. fs' \in FileSets /\ fs'.passwd = i.passwd /\ fs'.homes = {}
    BY <1>7, <2>1, FilesAre
  <2>8. todo' = ToStart /\ given' = given
    BY <1>1, <1>4, <1>7, Advances, Apart DEF InStep
  <2>9. Typed'
    BY <1>1, <1>3, <2>2, <2>5, <2>7 DEF Typed
  <2>10. InStep'
    <3>1. todo' \in Steps
      BY <2>8 DEF Steps
    <3> QED
      BY <1>3, <1>5, <2>3, <2>5, <2>6, <2>8, <3>1, Apart DEF InStep
  <2>11. Life'
    BY <1>3, <1>5, <2>6, <2>8, Apart DEF Life
  <2>12. AccountsKept'
    <3>1. OthersIn(fs'.passwd, box'.image)
      BY <2>3, <2>5, <2>7 DEF OthersIn
    <3> QED
      BY <1>3, <1>5, <2>1, <2>7, <3>1 DEF AccountsKept
  <2>13. SameUser'
    BY <1>3, <1>5, <2>3, <2>4, <2>5, <2>7 DEF SameUser, Unnamed, Decided
  <2>14. Prepares' /\ NothingAstray'
    BY <1>3, <1>5, <2>8 DEF Prepares, NothingAstray
  <2>15. Prepared'
    BY <2>8, Apart DEF Prepared, Settled, Outside
  <2>16. Spared' /\ Followed'
    BY <1>1, <1>3, <1>5 DEF Spared, Followed, Remembered, CookieIsFollowed, x11
  <2> QED
    BY <2>9, <2>10, <2>11, <2>12, <2>13, <2>14, <2>15, <2>16 DEF IInv
<1> QED
  BY <1>6, <1>7 DEF Create

LEMMA RebuildHolds == ASSUME IInv, Rebuild PROVE IInv'
<1>1. /\ Typed /\ InStep /\ Life /\ AccountsKept /\ SameUser
      /\ Prepares /\ Prepared /\ NothingAstray /\ Spared /\ Followed
  BY DEF IInv
<1>2. UNCHANGED <<reg, hostdir, cookie, left, link, unwritten, faults>> /\ At("rebuild")
  BY DEF Rebuild
<1>3. todo = ToRebuild
  BY <1>1, <1>2, AtIs DEF InStep
<1>4. given \in Configs /\ box # NoBox /\ WellMade(box)
  BY <1>1, <1>3, Apart DEF InStep, Typed
<1>5. CASE GiveUp /\ UNCHANGED <<box, fs, up, server, rundir, own, last, stale, failed, exec>>
  BY <1>2, <1>3, <1>5, GivenUp DEF made, dirs, x11
<1> DEFINE image == [passwd |-> fs.passwd, env |-> box.env]
<1>6. ASSUME NEW hv \in HostEnvs,
             box' = create_inner(given, hv, box.image, image), Creatable(given, hv, box'),
             Boot(fs), up' = "start", stale' = TRUE, exec' = None, Advance
      PROVE  IInv'
  <2> DEFINE b == create_inner(given, hv, box.image, image)
  <2>1. fs.passwd \in Seq(Accounts) /\ OneAccount(fs.passwd) /\ box.image \in Seq(Accounts)
    BY <1>1, <1>4 DEF Typed, FileSets, AccountsKept, WellMade
  <2>2. image.passwd = fs.passwd /\ image.env = box.env
    OBVIOUS
  <2> HIDE DEF image
  <2>3. Named(image.env) => image.env["EASYTIDY_USER_NAME"] \in Texts
    BY <1>4, <2>2 DEF WellMade, Told
  <2>4. WellMade(b)
    BY <1>4, <1>6, <2>1, <2>2, <2>3, MadeWell
  <2>5. b.cfg = given /\ b.image = fs.passwd
    BY <2>2, MadeIs
  <2>6. ~Named(b.env) => ~Named(box.env)
    <3>1. b.env = Over(Variables(given, inject_passthrough(given, hv).env), box.env)
      BY <2>2, MadeIs
    <3> DEFINE v == Variables(given, inject_passthrough(given, hv).env)
    <3>2. DOMAIN Over(v, box.env) = DOMAIN v \cup DOMAIN box.env
      BY OverIs
    <3> HIDE DEF v, b
    <3> QED
      BY <3>1, <3>2 DEF Named, v
  <2>7. b.home # None => b.home = Home(box.image, given.user)
    BY <1>4, <2>1, HomeIs
  <2>8. box' = b
    BY <1>6
  <2> HIDE DEF b
  <2>9. box' # NoBox
    BY <1>4, <2>5, <2>8, ABoxIsMade
  <2>10. /\ fs' \in FileSets /\ fs'.passwd = Booted(fs.passwd) /\ fs'.homes = fs.homes /\ fs'.strays = fs.strays
         /\ server' \in Accounts /\ server' # None
         /\ box'.cfg.user # None \/ ~Named(box'.env) => server'.home = Home(fs'.passwd, box'.cfg.user)
         /\ own' = {} /\ last' = {} /\ failed' = (failed \/ exec # None)
    BY <1>1, <1>6, <2>4, <2>8, BootIs
  <2>11. /\ OneAccount(fs'.passwd) /\ Spares(fs.passwd, fs'.passwd)
         /\ Home(fs'.passwd, None) = Home(fs.passwd, None)
         /\ Real(fs'.passwd) = {} <=> Real(fs.passwd) = {}
    BY <2>1, <2>10, BootedIs
  <2>12. todo' = ToPrepareAgain /\ given' = given
    BY <1>1, <1>3, <1>6, Advances, Apart DEF InStep
  <2>13. Typed'
    BY <1>1, <1>2, <1>6, <2>4, <2>8, <2>10 DEF Typed
  <2>14. InStep'
    <3>1. todo' \in Steps
      BY <2>12 DEF Steps
    <3> QED
      BY <1>4, <1>6, <2>5, <2>8, <2>9, <2>12, <3>1, Apart DEF InStep
  <2>15. Life'
    BY <1>6, <2>9, <2>10, <2>12, Apart DEF Life
  <2>16. AccountsKept'
    <3>1. OthersIn(fs'.passwd, box'.image)
      BY <2>5, <2>8, <2>11 DEF OthersIn, Spares
    <3> QED
      BY <1>1, <1>6, <2>10, <2>11, <3>1 DEF AccountsKept
  <2>17. ASSUME ~Named(b.env) PROVE Unnamed /\ given.user = None
    BY <1>4, <2>4, <2>5, <2>6, <2>17 DEF Unnamed, WellMade, Told
  <2>18. SameUser'
    <3>1. Unnamed' => /\ reg' # None => Loaded(reg').user = None
                      /\ Home(fs'.passwd, None) = Home(box'.image, None)
      BY <1>1, <1>2, <2>5, <2>8, <2>11, <2>17 DEF Unnamed, SameUser
    <3>2. Decided' => (box'.home # None => box'.home = Home(fs'.passwd, box'.cfg.user))
      <4>1. CASE given.user # None
        BY <2>5, <2>7, <2>8, <4>1, NamedHome
      <4>2. CASE given.user = None
        BY <1>1, <2>5, <2>7, <2>8, <2>11, <2>17, <4>2 DEF Decided, SameUser
      <4> QED
        BY <4>1, <4>2
    <3>3. Decided' => server'.home = Home(fs'.passwd, box'.cfg.user)
      BY <2>10 DEF Decided
    <3> QED
      BY <1>6, <3>1, <3>2, <3>3 DEF SameUser
  <2>19. Prepares'
    BY <1>6 DEF Prepares
  <2>20. Prepared'
    BY <2>12, Apart DEF Prepared, Settled, Outside
  <2>21. NothingAstray'
    BY <1>1, <1>2, <1>3, <1>4, <2>10, Apart DEF NothingAstray
  <2>22. Spared' /\ Followed'
    BY <1>1, <1>2, <1>6, <2>10 DEF Spared, Followed, Remembered, CookieIsFollowed, x11
  <2> QED
    BY <2>13, <2>14, <2>15, <2>16, <2>18, <2>19, <2>20, <2>21, <2>22 DEF IInv
<1> QED
  BY <1>5, <1>6 DEF Rebuild, probe_image

LEMMA StartHolds == ASSUME IInv, Start PROVE IInv'
<1>1. /\ Typed /\ InStep /\ Life /\ AccountsKept /\ SameUser
      /\ Prepares /\ Prepared /\ NothingAstray /\ Spared /\ Followed
  BY DEF IInv
<1> DEFINE asked == At("start") /\ reg # None /\ Bypass(Loaded(reg))
           call == [plan_prepare(fs', Loaded(reg).user, FALSE) EXCEPT !.at = "called"]
<1>2. /\ UNCHANGED <<box, reg, hostdir, cookie, left, link, unwritten, faults>> /\ stale' = TRUE /\ Advance /\ Boot(fs)
      /\ (At("start") /\ up = "down" /\ up' = "start") \/ (At("restart") /\ up' = "restart")
      /\ exec' = IF asked THEN call ELSE None
  BY DEF Start
<1> HIDE DEF call
<1>3. /\ todo \in {ToStart, Starting, Restarting}
      /\ todo \in {ToStart, Starting} => At("start") /\ up' = "start"
      /\ todo = Restarting => ~At("start") /\ up' = "restart"
  BY <1>1, <1>2, AtIs, Apart DEF InStep
<1>4. todo \in Steps /\ todo # <<>>
  BY <1>1, <1>3, Apart DEF InStep
<1>5. /\ todo = ToStart => todo' = ToWait /\ given' = given
      /\ todo = Starting => todo' = Started
      /\ todo = Restarting => todo' = <<>>
  BY <1>2, <1>3, <1>4, Advances, Apart
<1>6. box # NoBox /\ WellMade(box)
  BY <1>1, <1>3, Apart DEF InStep, Typed
<1>7. /\ fs' \in FileSets /\ fs'.passwd = Booted(fs.passwd)
      /\ fs'.homes = fs.homes /\ fs'.strays = fs.strays /\ fs'.scripts = fs.scripts
      /\ fs'.tools = fs.tools /\ fs'.rest = fs.rest
      /\ server' \in Accounts /\ server' # None
      /\ box.cfg.user # None \/ ~Named(box.env) => server'.home = Home(fs'.passwd, box.cfg.user)
      /\ own' = {} /\ last' = {} /\ failed' = (failed \/ exec # None)
  BY <1>1, <1>2, <1>6, BootIs
<1>8. fs.passwd \in Seq(Accounts) /\ OneAccount(fs.passwd)
  BY <1>1 DEF Typed, FileSets, AccountsKept
<1>9. /\ OneAccount(fs'.passwd) /\ Spares(fs.passwd, fs'.passwd)
      /\ Home(fs'.passwd, None) = Home(fs.passwd, None)
      /\ Real(fs'.passwd) = {} <=> Real(fs.passwd) = {}
  BY <1>7, <1>8, BootedIs
<1>10. ASSUME asked
       PROVE  /\ exec' \in Plans /\ exec' # None /\ exec'.at = "called" /\ exec'.user = Loaded(reg).user
              /\ exec'.user # "/" /\ todo = Starting
  <2>1. Loaded(reg) \in Configs
    BY <1>1, <1>10 DEF Typed
  <2>2. Loaded(reg).user \in STRING \cup {None} /\ Loaded(reg).user # "/"
    <3>1. "/" # None
      BY Absent, Strings
    <3> QED
      BY <2>1, <3>1, ModesAre
  <2>3. call \in Plans /\ call # None /\ call.at = "called" /\ call.user = Loaded(reg).user
    BY <1>7, <1>9, <2>2, CalledIs DEF call
  <2>4. todo = Starting
    BY <1>1, <1>3, <1>10, Apart DEF InStep
  <2> QED
    BY <1>2, <1>10, <2>2, <2>3, <2>4
<1>11. ~asked => exec' = None
  BY <1>2
<1>12. exec' # None => exec' \in Plans /\ exec'.at = "called" /\ asked
  BY <1>10, <1>11
<1>13. Typed'
  BY <1>1, <1>2, <1>3, <1>6, <1>7, <1>12 DEF Typed
<1>14. InStep'
  <2>1. todo' \in Steps
    BY <1>3, <1>5 DEF Steps, Outside
  <2>2. todo = ToStart => reg = None /\ exec' = None /\ given \in Configs /\ given = box.cfg
    BY <1>1, <1>11, Apart DEF InStep
  <2> QED
    BY <1>2, <1>3, <1>5, <1>6, <2>1, <2>2, Apart DEF InStep
<1>15. Life'
  BY <1>2, <1>3, <1>5, <1>6, <1>7, <1>10, <1>12, Apart DEF Life
<1>16. AccountsKept'
  <2>1. OthersIn(fs'.passwd, box.image)
    BY <1>1, <1>6, <1>9, OthersStay DEF AccountsKept
  <2> QED
    BY <1>1, <1>2, <1>7, <1>9, <1>10, <1>12, <2>1 DEF AccountsKept, Begun
<1>17. SameUser'
  <2>1. Unnamed' => Unnamed
    BY <1>2 DEF Unnamed
  <2>2. Unnamed' => /\ reg' # None => Loaded(reg').user = None
                    /\ exec' # None => exec'.user = None
                    /\ Home(fs'.passwd, None) = Home(box'.image, None)
    BY <1>1, <1>2, <1>9, <1>10, <1>12, <2>1 DEF SameUser
  <2>3. Decided' => (box'.home # None => box'.home = Home(fs'.passwd, box'.cfg.user))
    <3>1. Decided' => Decided
      BY <1>2 DEF Decided
    <3>2. Home(fs'.passwd, box.cfg.user) = Home(fs.passwd, box.cfg.user)
      BY <1>9, NamedHome
    <3> QED
      BY <1>1, <1>2, <3>1, <3>2 DEF SameUser
  <2>4. Decided' => server'.home = Home(fs'.passwd, box'.cfg.user)
    BY <1>2, <1>7 DEF Decided
  <2> QED
    BY <1>12, <2>2, <2>3, <2>4 DEF SameUser
<1>18. Prepares'
  BY <1>2, <1>3, <1>5, <1>10, <1>12, Apart DEF Prepares
<1>19. Prepared'
  <2> SUFFICES ASSUME Settled' PROVE Prepared'
    BY DEF Prepared
  <2>1. /\ exec = None /\ ~failed /\ exec' = None /\ reg # None /\ Loaded(reg) = box.cfg
        /\ todo \in {Starting, Restarting}
    BY <1>2, <1>3, <1>5, <1>7, Apart DEF Settled, Outside
  <2>2. Settled
    BY <1>6, <2>1 DEF Settled, Outside
  <2>3. Home(fs'.passwd, box.cfg.user) = Home(fs.passwd, box.cfg.user)
    BY <1>9, NamedHome
  <2>4. up' = "start" => box.tmpfs = {}
    <3> SUFFICES ASSUME up' = "start" PROVE box.tmpfs = {}
      OBVIOUS
    <3>1. At("start")
      BY <1>3
    <3>2. ~Bypass(box.cfg)
      BY <1>12, <1>2, <1>10, <2>1, <3>1
    <3> QED
      BY <1>6, <3>2 DEF WellMade, Placed
  <2> QED
    BY <1>1, <1>2, <1>7, <2>2, <2>3, <2>4 DEF Prepared
<1>20. NothingAstray'
  BY <1>1, <1>2, <1>3, <1>5, <1>6, <1>7, Apart DEF NothingAstray
<1>21. Spared' /\ Followed'
  BY <1>1, <1>2, <1>7 DEF Spared, Followed, Remembered, CookieIsFollowed, x11
<1> QED
  BY <1>13, <1>14, <1>15, <1>16, <1>17, <1>18, <1>19, <1>20, <1>21 DEF IInv

LEMMA PrepareHolds == ASSUME IInv, Prepare PROVE IInv'
<1>1. /\ Typed /\ InStep /\ Life /\ AccountsKept /\ SameUser
      /\ Prepares /\ Prepared /\ NothingAstray /\ Spared /\ Followed
  BY DEF IInv
<1> DEFINE first == At("prepare_first")
           call == [plan_prepare(fs, given.user, first) EXCEPT !.at = "called"]
<1>2. /\ UNCHANGED <<made, up, server, dirs, x11, failed, faults>> /\ exec = None /\ Advance
      /\ At("prepare") \/ At("prepare_first")
      /\ exec' = IF up = "down" THEN None ELSE call
  BY DEF Prepare
<1> HIDE DEF call
<1>3. UNCHANGED <<box, fs, reg, up, server, rundir, hostdir, x11, failed, faults>>
  BY <1>2 DEF made, dirs, x11
<1>4. todo \in {ToPrepare, ToPrepareAgain} /\ (todo = ToPrepare => first)
  BY <1>1, <1>2, AtIs DEF InStep
<1>5. todo' = ToEnd /\ given' = given
  <2>1. todo \in Steps /\ todo # <<>>
    BY <1>1, <1>4, Apart DEF InStep
  <2> QED
    BY <1>2, <1>4, <2>1, Advances, Apart
<1>6. box # NoBox /\ WellMade(box) /\ given = box.cfg /\ given \in Configs /\ up = "start"
  BY <1>1, <1>4, Apart DEF InStep, Typed
<1>7. exec' = call
  BY <1>2, <1>6
<1>8. given.user \in STRING \cup {None} /\ given.user # "/"
  <2>1. "/" # None
    BY Absent, Strings
  <2> QED
    BY <1>6, <2>1, ModesAre
<1>9. call \in Plans /\ call # None /\ call.at = "called" /\ call.user = given.user /\ call.first = first
  <2>1. fs \in FileSets /\ OneAccount(fs.passwd) /\ first \in BOOLEAN
    BY <1>1 DEF Typed, AccountsKept, At
  <2> HIDE DEF first
  <2> QED
    BY <1>8, <2>1, CalledIs DEF call
<1> HIDE DEF first
<1>10. Typed' /\ Spared' /\ Followed'
  <2>1. Spared' /\ Followed'
    BY <1>1, <1>3, SparedStays, FollowedStays
  <2> QED
    BY <1>1, <1>3, <1>7, <1>9, <2>1 DEF Typed
<1>11. InStep'
  <2>1. todo' \in Steps
    BY <1>5 DEF Steps
  <2> QED
    BY <1>3, <1>5, <1>6, <2>1, Apart DEF InStep
<1>12. Life'
  BY <1>1, <1>3, <1>5, <1>6, Apart DEF Life
<1>13. AccountsKept'
  BY <1>1, <1>3, <1>7, <1>8, <1>9 DEF AccountsKept, Begun
<1>14. SameUser'
  <2>1. Unnamed' => Unnamed /\ given.user = None
    BY <1>3, <1>6 DEF Unnamed, WellMade, Told
  <2>2. Decided' => Decided
    BY <1>3 DEF Decided
  <2> QED
    BY <1>1, <1>3, <1>7, <1>9, <2>1, <2>2 DEF SameUser
<1>15. Prepares'
  BY <1>3, <1>5, <1>6, <1>7, <1>9, Apart DEF Prepares
<1>16. Prepared'
  BY <1>7, <1>9 DEF Prepared, Settled
<1>17. NothingAstray'
  BY <1>1, <1>3, <1>4, <1>5, <1>7, <1>9, Apart DEF NothingAstray
<1> QED
  BY <1>10, <1>11, <1>12, <1>13, <1>14, <1>15, <1>16, <1>17 DEF IInv

LEMMA WaitHolds == ASSUME IInv, Wait PROVE IInv'
<1>1. /\ Typed /\ InStep /\ Life /\ AccountsKept /\ SameUser
      /\ Prepares /\ Prepared /\ NothingAstray /\ Spared /\ Followed
  BY DEF IInv
<1>2. /\ At("wait") /\ Advance /\ UNCHANGED <<made, up, exec, server, dirs, x11>>
      /\ \/ exec = None /\ UNCHANGED <<faults, failed>>
         \/ exec # None /\ faults' = faults + 1 /\ failed' = TRUE
  BY DEF Wait, Fault
<1>3. UNCHANGED <<box, fs, reg, up, exec, server, rundir, hostdir, x11>>
  BY <1>2 DEF made, dirs, x11
<1>4. todo \in {ToWait, ToEnd, Started}
  BY <1>1, <1>2, AtIs DEF InStep
<1>5. /\ todo = ToWait => todo' = ToPrepare /\ given' = given
      /\ todo = ToEnd => todo' = ToRegister /\ given' = given
      /\ todo = Started => todo' = <<>>
  <2>1. todo \in Steps /\ todo # <<>>
    BY <1>1, <1>4, Apart DEF InStep
  <2> QED
    BY <1>2, <1>4, <2>1, Advances, Apart
<1>6. box # NoBox
  BY <1>1, <1>4, Apart DEF InStep
<1>7. Typed'
  <2>1. faults' \in Nat /\ failed' \in BOOLEAN
    <3>1. faults \in Nat /\ failed \in BOOLEAN
      BY <1>1 DEF Typed
    <3>2. CASE exec = None
      BY <1>2, <3>1, <3>2
    <3>3. CASE exec # None
      <4>1. faults' = faults + 1 /\ failed' = TRUE
        BY <1>2, <3>3
      <4>2. faults + 1 \in Nat
        BY <3>1
      <4> QED
        BY <4>1, <4>2
    <3> QED
      BY <3>2, <3>3
  <2>2. up' = up /\ up \in {"down", "start", "restart"}
    BY <1>1, <1>3 DEF Typed
  <2> QED
    BY <1>1, <1>3, <2>1, <2>2 DEF Typed
<1>8. InStep'
  <2>1. todo' \in Steps
    BY <1>4, <1>5 DEF Steps, Outside
  <2>2. CASE todo = ToWait
    BY <1>1, <1>3, <1>5, <2>1, <2>2, Apart DEF InStep
  <2>3. CASE todo = ToEnd
    BY <1>1, <1>3, <1>5, <2>1, <2>3, Apart DEF InStep
  <2>4. CASE todo = Started
    BY <1>5, <2>1, <2>4, Apart DEF InStep
  <2> QED
    BY <1>4, <2>2, <2>3, <2>4
<1>9. Life'
  BY <1>1, <1>2, <1>3, <1>4, <1>5, <1>6, Apart DEF Life
<1>10. AccountsKept' /\ SameUser' /\ Spared' /\ Followed'
  BY <1>1, <1>3, AccountsStay, SameUserStays, SparedStays, FollowedStays
<1>11. Prepares'
  BY <1>1, <1>3, <1>4, <1>5, Apart DEF Prepares
<1>12. Prepared'
  <2>1. Settled' => Settled
    BY <1>2, <1>3, <1>4, <1>5, Apart DEF Settled, Outside
  <2> QED
    BY <1>1, <1>3, <2>1 DEF Prepared
<1>13. NothingAstray'
  <2>1. faults \in Nat
    BY <1>1 DEF Typed
  <2>2. faults' = 0 => faults = 0 /\ exec = None
    BY <1>2, <2>1
  <2> QED
    BY <1>1, <1>3, <1>4, <1>5, <2>2, Apart DEF NothingAstray
<1> QED
  BY <1>7, <1>8, <1>9, <1>10, <1>11, <1>12, <1>13 DEF IInv

LEMMA RegisterHolds == ASSUME IInv, Register PROVE IInv'
<1>1. /\ Typed /\ InStep /\ Life /\ AccountsKept /\ SameUser
      /\ Prepares /\ Prepared /\ NothingAstray /\ Spared /\ Followed
  BY DEF IInv
<1>2. /\ At("register") /\ Advance /\ reg' = Stored(given)
      /\ UNCHANGED <<box, fs, up, exec, server, dirs, x11, failed, faults>>
  BY DEF Register
<1>3. UNCHANGED <<box, fs, up, exec, server, rundir, hostdir, x11, failed, faults>>
  BY <1>2 DEF dirs, x11
<1>4. todo = ToRegister
  BY <1>1, <1>2, AtIs DEF InStep
<1>5. todo' = <<>>
  BY <1>1, <1>2, <1>4, Advances, Apart DEF InStep
<1>6. box # NoBox /\ WellMade(box) /\ given = box.cfg /\ given \in Configs
  BY <1>1, <1>4, Apart DEF InStep, Typed
<1>7. Loaded(reg') = given
  BY <1>2, <1>6, LoadedStored
<1>8. Typed'
  BY <1>1, <1>3, <1>6, <1>7 DEF Typed
<1>9. InStep'
  <2>1. todo' \in Steps
    BY <1>5 DEF Steps, Outside
  <2> QED
    BY <1>5, <2>1, Apart DEF InStep
<1>10. Life'
  BY <1>1, <1>3, <1>4, <1>5, <1>6, Apart DEF Life
<1>11. AccountsKept' /\ Spared' /\ Followed'
  BY <1>1, <1>3, AccountsStay, SparedStays, FollowedStays
<1>12. SameUser'
  <2>1. Unnamed' => Unnamed /\ given.user = None
    BY <1>3, <1>6 DEF Unnamed, WellMade, Told
  <2>2. Decided' => Decided
    BY <1>3 DEF Decided
  <2> QED
    BY <1>1, <1>3, <1>7, <2>1, <2>2 DEF SameUser
<1>13. Prepares'
  BY <1>1, <1>3, <1>5, Apart DEF Prepares
<1>14. Prepared'
  <2>1. Settled' => Settled
    BY <1>3, <1>4 DEF Settled
  <2> QED
    BY <1>1, <1>3, <2>1 DEF Prepared
<1>15. NothingAstray'
  BY <1>1, <1>3, <1>4, <1>6, Apart DEF NothingAstray
<1> QED
  BY <1>8, <1>9, <1>10, <1>11, <1>12, <1>13, <1>14, <1>15 DEF IInv

LEMMA FailsHolds == ASSUME IInv, Fails PROVE IInv'
<1>1. /\ Typed /\ InStep /\ Life /\ AccountsKept /\ SameUser
      /\ Prepares /\ Prepared /\ NothingAstray /\ Spared /\ Followed
  BY DEF IInv
<1>2. /\ todo # <<>> /\ faults' = faults + 1 /\ todo' = <<>> /\ failed' = (failed \/ up # "down")
      /\ UNCHANGED <<made, up, exec, server, dirs, x11>>
  BY DEF Fails, Fault, GiveUp
<1>3. UNCHANGED <<box, fs, reg, up, exec, server, rundir, hostdir, x11>>
  BY <1>2 DEF made, dirs, x11
<1>4. Typed'
  BY <1>1, <1>2, <1>3 DEF Typed
<1>5. InStep'
  <2>1. todo' \in Steps
    BY <1>2 DEF Steps, Outside
  <2> QED
    BY <1>2, <2>1, Apart DEF InStep
<1>6. Life'
  BY <1>1, <1>2, <1>3, Apart DEF Life
<1>7. AccountsKept' /\ SameUser' /\ Spared' /\ Followed'
  BY <1>1, <1>3, AccountsStay, SameUserStays, SparedStays, FollowedStays
<1>8. Prepares'
  BY <1>1, <1>2, <1>3, Apart DEF Prepares
<1>9. Prepared'
  <2> SUFFICES ASSUME Settled' PROVE Prepared'
    BY DEF Prepared
  <2>1. ~failed /\ up = "down" /\ box # NoBox /\ exec = None /\ reg # None /\ Loaded(reg) = box.cfg
    BY <1>2, <1>3, Apart DEF Settled
  <2>2. todo \notin {ToCreate, ToStart, ToWait, ToPrepare, ToPrepareAgain, ToEnd, ToRegister}
    BY <1>1, <2>1, Apart DEF InStep, Life
  <2>3. Settled
    BY <1>1, <2>1, <2>2 DEF Settled, InStep, Steps
  <2> QED
    BY <1>1, <1>3, <2>3 DEF Prepared
<1>10. NothingAstray'
  BY <1>1, <1>2 DEF NothingAstray, Typed
<1> QED
  BY <1>4, <1>5, <1>6, <1>7, <1>8, <1>9, <1>10 DEF IInv

LEMMA StopHolds == ASSUME IInv, Stop PROVE IInv'
<1>1. /\ Typed /\ InStep /\ Life /\ AccountsKept /\ SameUser
      /\ Prepares /\ Prepared /\ NothingAstray /\ Spared /\ Followed
  BY DEF IInv
<1>2. /\ up # "down" /\ up' = "down" /\ server' = None /\ exec' = None /\ failed' = (failed \/ exec # None)
      /\ (todo = <<>> /\ exec = None /\ UNCHANGED faults) \/ (exec # None /\ faults' = faults + 1)
      /\ UNCHANGED <<made, cmd, dirs, x11>>
  BY DEF Stop, Fault
<1>3. UNCHANGED <<box, fs, reg, todo, given, rundir, hostdir, x11>>
  BY <1>2 DEF made, cmd, dirs, x11
<1>4. Typed'
  <2>1. faults' \in Nat /\ failed' \in BOOLEAN /\ up' \in {"down", "start", "restart"}
    BY <1>1, <1>2 DEF Typed
  <2> QED
    BY <1>1, <1>2, <1>3, <2>1 DEF Typed
<1>5. InStep'
  <2>1. todo \notin {ToStart, ToWait, ToPrepare, ToPrepareAgain, Starting}
    BY <1>1, <1>2, Apart DEF InStep
  <2> QED
    BY <1>1, <1>2, <1>3, <2>1, Apart DEF InStep
<1>6. Life'
  BY <1>1, <1>2, <1>3, Apart DEF Life
<1>7. AccountsKept'
  BY <1>1, <1>2, <1>3 DEF AccountsKept
<1>8. SameUser'
  <2>1. (Unnamed' => Unnamed) /\ (Decided' => Decided)
    BY <1>3 DEF Unnamed, Decided
  <2> QED
    BY <1>1, <1>2, <1>3, <2>1 DEF SameUser
<1>9. Prepares'
  BY <1>2 DEF Prepares
<1>10. Prepared'
  <2>1. Settled' => Settled
    BY <1>2, <1>3 DEF Settled
  <2> QED
    BY <1>1, <1>2, <1>3, <2>1 DEF Prepared
<1>11. NothingAstray'
  BY <1>1, <1>2, <1>3, Apart DEF NothingAstray, Typed
<1>12. Spared' /\ Followed'
  BY <1>1, <1>2, <1>3 DEF Spared, Followed, Remembered, CookieIsFollowed, x11, LinkPath
<1> QED
  BY <1>4, <1>5, <1>6, <1>7, <1>8, <1>9, <1>10, <1>11, <1>12 DEF IInv

LEMMA OnHostHolds == ASSUME IInv, OnHost PROVE IInv'
BY CreateHolds, RebuildHolds, StartHolds, PrepareHolds, WaitHolds, RegisterHolds, FailsHolds, StopHolds DEF OnHost

-----------------------------------------------------------------------------
(* In the container *)

\* While preparation runs there is a container, and what it is prepared for.
LEMMA Running ==
  ASSUME Typed, InStep, Life, exec # None
  PROVE  /\ box # NoBox /\ WellMade(box) /\ up # "down" /\ exec \in Plans /\ fs \in FileSets
         /\ todo \notin {ToStart, ToWait, ToPrepare, ToPrepareAgain, Starting}
         /\ fs.passwd \in Seq(Accounts) /\ exec.user \in STRING \cup {None} /\ exec.first \in BOOLEAN
         /\ exec.home \in STRING
BY DEF Typed, InStep, Life, Plans, FileSets

\* A step of it that is not the last.
Works ==
    /\ exec # None /\ exec' \in Plans /\ exec' # None
    /\ exec'.user = exec.user /\ exec'.first = exec.first
    /\ UNCHANGED <<box, reg, up, todo, given, server, x11, failed, faults>>
    /\ fs' \in FileSets /\ fs'.tools = fs.tools

LEMMA WorksHolds ==
  ASSUME IInv, Works
  PROVE  Typed' /\ InStep' /\ Life' /\ Prepared' /\ Followed'
<1>1. Typed /\ InStep /\ Life /\ Followed
  BY DEF IInv
<1>2. /\ exec # None /\ exec' \in Plans /\ exec' # None /\ fs' \in FileSets
      /\ UNCHANGED <<box, reg, up, todo, given, server, x11, failed, faults>>
  BY DEF Works
<1>3. Typed'
  BY <1>1, <1>2 DEF Typed
<1>4. InStep'
  BY <1>1, <1>2, Running DEF InStep
<1>5. Life'
  BY <1>1, <1>2, Running DEF Life
<1>6. Prepared'
  BY <1>2 DEF Prepared, Settled
<1>7. Followed'
  BY <1>1, <1>2, FollowedStays
<1> QED
  BY <1>3, <1>4, <1>5, <1>6, <1>7

LEMMA StepIs ==
  ASSUME NEW s \in STRING, exec \in Plans, Step(s)
  PROVE  /\ exec' \in Plans /\ exec' # None /\ exec'.at = s /\ exec'.user = exec.user /\ exec'.first = exec.first
         /\ exec'.home = exec.home /\ exec'.remove = exec.remove /\ exec'.add = exec.add
<1>1. exec' = [exec EXCEPT !.at = s]
  BY DEF Step
<1>2. exec' \in Plans
  BY <1>1 DEF Plans
<1>3. exec' # None
  BY <1>2, Absent
<1> QED
  BY <1>1, <1>2, <1>3 DEF Plans

LEMMA InsideIs ==
  ASSUME Inside
  PROVE  UNCHANGED <<box, reg, up, todo, given, begun, server, x11, faults>>
BY DEF Inside, cmd, x11

LEMMA PlanHolds == ASSUME IInv, Plan PROVE IInv'
<1>1. /\ Typed /\ InStep /\ Life /\ AccountsKept /\ SameUser
      /\ Prepares /\ Prepared /\ NothingAstray /\ Spared /\ Followed
  BY DEF IInv
<1>2. /\ exec # None /\ exec.at = "called" /\ exec' = plan_prepare(fs, exec.user, exec.first)
      /\ UNCHANGED <<fs, rundir, hostdir, failed>>
      /\ UNCHANGED <<box, reg, up, todo, given, begun, server, x11, faults>>
  BY InsideIs DEF Plan, Exec, dirs
<1>3. /\ box # NoBox /\ exec \in Plans /\ fs \in FileSets
      /\ exec.user \in STRING \cup {None} /\ exec.first \in BOOLEAN
  BY <1>1, <1>2, Running
<1>4. Planned(exec', fs.passwd, exec.user, exec.first)
  <2>1. Planned(plan_prepare(fs, exec.user, exec.first), fs.passwd, exec.user, exec.first)
    BY <1>1, <1>3, PlanIs DEF AccountsKept
  <2> QED
    BY <1>2, <2>1
<1>5. /\ exec' \in Plans /\ exec' # None /\ exec'.at = "passwd" /\ exec'.user = exec.user
      /\ exec'.first = exec.first /\ exec'.home = Home(fs.passwd, exec.user)
  <2>1. exec' \in Plans
    BY <1>4 DEF Planned
  <2> QED
    BY <1>4, <2>1, Absent DEF Planned
<1>6. Works
  BY <1>2, <1>3, <1>5 DEF Works
<1>7. Typed' /\ InStep' /\ Life' /\ Prepared' /\ Followed'
  BY <1>6, WorksHolds
<1>8. AccountsKept'
  BY <1>1, <1>2, <1>5 DEF AccountsKept, Begun
<1>9. SameUser'
  <2>1. (Unnamed' => Unnamed) /\ (Decided' => Decided)
    BY <1>2 DEF Unnamed, Decided
  <2> QED
    BY <1>1, <1>2, <1>5, <2>1 DEF SameUser
<1>10. Prepares'
  BY <1>1, <1>2, <1>5 DEF Prepares
<1>11. NothingAstray'
  BY <1>1, <1>2, <1>5 DEF NothingAstray
<1>12. Spared'
  BY <1>1, <1>2, SparedStays
<1> QED
  BY <1>7, <1>8, <1>9, <1>10, <1>11, <1>12 DEF IInv

LEMMA RewritePasswdHolds == ASSUME IInv, RewritePasswd PROVE IInv'
<1>1. /\ Typed /\ InStep /\ Life /\ AccountsKept /\ SameUser
      /\ Prepares /\ Prepared /\ NothingAstray /\ Spared /\ Followed
  BY DEF IInv
<1> DEFINE q == Rewritten(fs.passwd, exec.remove, exec.add)
<1>2. /\ exec # None /\ exec.at = "passwd" /\ fs' = [fs EXCEPT !.passwd = q] /\ Step("group")
      /\ UNCHANGED <<rundir, hostdir, failed>>
      /\ UNCHANGED <<box, reg, up, todo, given, begun, server, x11, faults>>
  BY InsideIs DEF RewritePasswd, Exec, dirs, Rewritten
<1>3. /\ box # NoBox /\ WellMade(box) /\ exec \in Plans /\ fs \in FileSets
      /\ exec.user \in STRING \cup {None} /\ exec.first \in BOOLEAN
  BY <1>1, <1>2, Running
<1>4. /\ exec' \in Plans /\ exec' # None /\ exec'.at = "group" /\ exec'.user = exec.user
      /\ exec'.first = exec.first /\ exec'.home = exec.home
  BY <1>2, <1>3, StepIs, Strings
<1>5. exec = plan_prepare(fs, exec.user, exec.first) /\ exec.user # "/" /\ OneAccount(fs.passwd)
  BY <1>1, <1>2 DEF AccountsKept
<1>6. /\ q \in Seq(Accounts) /\ OneAccount(q) /\ Spares(fs.passwd, q) /\ Real(q) # {}
      /\ Home(q, exec.user) = Home(fs.passwd, exec.user)
  <2> DEFINE e == plan_prepare(fs, exec.user, exec.first)
             r == Rewritten(fs.passwd, e.remove, e.add)
  <2>1. /\ r \in Seq(Accounts) /\ OneAccount(r) /\ Spares(fs.passwd, r) /\ Real(r) # {}
        /\ Home(r, exec.user) = Home(fs.passwd, exec.user)
    BY <1>3, <1>5, RewrittenIs
  <2>2. e = exec
    BY <1>5
  <2> HIDE DEF e
  <2>3. r = q
    BY <2>2
  <2> HIDE DEF q, r
  <2> QED
    BY <2>1, <2>3
<1> HIDE DEF q
<1>7. /\ fs' \in FileSets /\ fs'.passwd = q /\ fs'.homes = fs.homes /\ fs'.strays = fs.strays
      /\ fs'.tools = fs.tools /\ fs'.rest = fs.rest /\ fs'.scripts = fs.scripts
  BY <1>2, <1>3, <1>6 DEF FileSets
<1>8. Works
  BY <1>2, <1>4, <1>7 DEF Works
<1>9. Typed' /\ InStep' /\ Life' /\ Prepared' /\ Followed'
  BY <1>8, WorksHolds
<1>10. AccountsKept'
  <2>1. OthersIn(q, box.image)
    BY <1>1, <1>3, <1>6, OthersStay DEF AccountsKept
  <2> QED
    BY <1>1, <1>2, <1>4, <1>6, <1>7, <2>1 DEF AccountsKept, Begun
<1>11. SameUser'
  <2>1. (Unnamed' => Unnamed) /\ (Decided' => Decided)
    BY <1>2 DEF Unnamed, Decided
  <2>2. ASSUME Unnamed PROVE exec.user = None /\ Home(q, None) = Home(fs.passwd, None)
    BY <1>1, <1>2, <1>6, <2>2 DEF SameUser
  <2>3. ASSUME Decided PROVE Home(q, box.cfg.user) = Home(fs.passwd, box.cfg.user)
    <3>1. CASE box.cfg.user # None
      BY <3>1, NamedHome
    <3>2. CASE box.cfg.user = None
      BY <2>2, <2>3, <3>2 DEF Decided, Unnamed
    <3> QED
      BY <3>1, <3>2
  <2>4. exec.home = Home(fs.passwd, exec.user)
    BY <1>1, <1>2 DEF SameUser
  <2> QED
    BY <1>1, <1>2, <1>4, <1>6, <1>7, <2>1, <2>2, <2>3, <2>4 DEF SameUser
<1>12. Prepares'
  BY <1>1, <1>2, <1>4 DEF Prepares
<1>13. NothingAstray'
  BY <1>1, <1>2, <1>4, <1>7 DEF NothingAstray
<1>14. Spared'
  BY <1>1, <1>2, SparedStays
<1> QED
  BY <1>9, <1>10, <1>11, <1>12, <1>13, <1>14 DEF IInv

\* A step that leaves the accounts alone.
LEMMA AccountsAlone ==
  ASSUME IInv, Works, fs'.passwd = fs.passwd, exec.at \in Begun, exec'.at \in Begun, exec'.home = exec.home
  PROVE  AccountsKept' /\ SameUser'
<1>1. Typed /\ InStep /\ Life /\ AccountsKept /\ SameUser
  BY DEF IInv
<1>2. /\ exec # None /\ exec'.user = exec.user /\ UNCHANGED <<box, reg, server>>
  BY DEF Works
<1>3. exec'.at # "passwd" /\ exec'.at # "called" /\ exec.at # "called"
  BY DEF Begun
<1>4. AccountsKept'
  BY <1>1, <1>2, <1>3 DEF AccountsKept
<1>5. SameUser'
  <2>1. (Unnamed' => Unnamed) /\ (Decided' => Decided)
    BY <1>2 DEF Unnamed, Decided
  <2> QED
    BY <1>1, <1>2, <1>3, <2>1 DEF SameUser
<1> QED
  BY <1>4, <1>5

LEMMA RewriteGroupHolds == ASSUME IInv, RewriteGroup PROVE IInv'
<1>1. /\ Typed /\ InStep /\ Life /\ AccountsKept /\ SameUser
      /\ Prepares /\ Prepared /\ NothingAstray /\ Spared /\ Followed
  BY DEF IInv
<1> DEFINE g == IF exec.add # <<>> THEN "real"
                ELSE IF exec.remove # {} /\ fs.group # "real" THEN "none" ELSE fs.group
<1>2. /\ exec # None /\ exec.at = "group" /\ fs' = [fs EXCEPT !.group = g] /\ Step("home")
      /\ UNCHANGED <<rundir, hostdir, failed>>
      /\ UNCHANGED <<box, reg, up, todo, given, begun, server, x11, faults>>
  BY InsideIs DEF RewriteGroup, Exec, dirs
<1>3. box # NoBox /\ exec \in Plans /\ fs \in FileSets
  BY <1>1, <1>2, Running
<1>4. /\ exec' \in Plans /\ exec' # None /\ exec'.at = "home" /\ exec'.user = exec.user
      /\ exec'.first = exec.first /\ exec'.home = exec.home
  BY <1>2, <1>3, StepIs, Strings
<1>5. g \in STRING
  BY <1>3, Strings DEF FileSets
<1> HIDE DEF g
<1>6. /\ fs' \in FileSets /\ fs'.passwd = fs.passwd /\ fs'.homes = fs.homes /\ fs'.strays = fs.strays
      /\ fs'.tools = fs.tools /\ fs'.rest = fs.rest /\ fs'.scripts = fs.scripts
  BY <1>2, <1>3, <1>5 DEF FileSets
<1>7. Works
  BY <1>2, <1>4, <1>6 DEF Works
<1>8. Typed' /\ InStep' /\ Life' /\ Prepared' /\ Followed' /\ AccountsKept' /\ SameUser'
  BY <1>2, <1>4, <1>6, <1>7, WorksHolds, AccountsAlone DEF Begun
<1>9. Prepares'
  BY <1>1, <1>2, <1>4 DEF Prepares
<1>10. NothingAstray'
  BY <1>1, <1>2, <1>4, <1>6 DEF NothingAstray
<1>11. Spared'
  BY <1>1, <1>2, SparedStays
<1> QED
  BY <1>8, <1>9, <1>10, <1>11 DEF IInv

LEMMA EnsureHomeHolds == ASSUME IInv, ensure_home PROVE IInv'
<1>1. /\ Typed /\ InStep /\ Life /\ AccountsKept /\ SameUser
      /\ Prepares /\ Prepared /\ NothingAstray /\ Spared /\ Followed
  BY DEF IInv
<1> DEFINE h == fs.homes \cup {exec.home}
           r == fs.rest \cup write_fontconfig
<1>2. /\ exec # None /\ exec.at = "home" /\ fs' = [fs EXCEPT !.homes = h, !.rest = r] /\ Step("dirs")
      /\ UNCHANGED <<rundir, hostdir, failed>>
      /\ UNCHANGED <<box, reg, up, todo, given, begun, server, x11, faults>>
  BY InsideIs DEF ensure_home, Exec, dirs
<1>3. box # NoBox /\ exec \in Plans /\ fs \in FileSets /\ exec.home \in STRING
  BY <1>1, <1>2, Running
<1>4. /\ exec' \in Plans /\ exec' # None /\ exec'.at = "dirs" /\ exec'.user = exec.user
      /\ exec'.first = exec.first /\ exec'.home = exec.home
  BY <1>2, <1>3, StepIs, Strings
<1>5. h \subseteq STRING /\ r \subseteq STRING /\ exec.home \in h /\ {"fonts"} \cap fs.tools \subseteq r
  BY <1>3, Strings DEF FileSets, write_fontconfig
<1> HIDE DEF h, r
<1>6. /\ fs' \in FileSets /\ fs'.passwd = fs.passwd /\ fs'.homes = h /\ fs'.strays = fs.strays
      /\ fs'.tools = fs.tools /\ fs'.rest = r
  BY <1>2, <1>3, <1>5 DEF FileSets
<1>7. Works
  BY <1>2, <1>4, <1>6 DEF Works
<1>8. Typed' /\ InStep' /\ Life' /\ Prepared' /\ Followed'
  BY <1>7, WorksHolds
<1>9. AccountsKept' /\ SameUser'
  BY <1>2, <1>4, <1>6, <1>7, AccountsAlone DEF Begun
<1>10. Prepares'
  BY <1>1, <1>2, <1>4, <1>5, <1>6 DEF Prepares
<1>11. NothingAstray'
  BY <1>1, <1>2, <1>4, <1>6 DEF NothingAstray
<1>12. Spared'
  BY <1>1, <1>2, SparedStays
<1> QED
  BY <1>8, <1>9, <1>10, <1>11, <1>12 DEF IInv

LEMMA EnsureDirsHolds == ASSUME IInv, ensure_xdg_runtime_dir PROVE IInv'
<1>1. /\ Typed /\ InStep /\ Life /\ AccountsKept /\ SameUser
      /\ Prepares /\ Prepared /\ NothingAstray /\ Spared /\ Followed
  BY DEF IInv
<1> DEFINE r == fs.rest \cup ensure_x11_socket_dir
           dir == Get(box.env, "XDG_RUNTIME_DIR")
<1>2. /\ exec # None /\ exec.at = "dirs" /\ fs' = [fs EXCEPT !.rest = r] /\ Step("repair")
      /\ UNCHANGED failed
      /\ UNCHANGED <<box, reg, up, todo, given, begun, server, x11, faults>>
  BY InsideIs DEF ensure_xdg_runtime_dir, Exec
<1>3. IF RunUser(dir) /\ Get(box.env, "HOST_XDG_RUNTIME_DIR") # <<>>
      THEN IF dir \in box.tmpfs THEN rundir' = "user" /\ UNCHANGED hostdir
           ELSE /\ hostdir' = IF ~Hosts(dir) THEN hostdir
                              ELSE IF "HOST_XDG_RUNTIME_DIR" \in DOMAIN box.cfg.env THEN "asked"
                              ELSE IF Bypass(box.cfg) THEN "touched" ELSE "inherited"
                /\ UNCHANGED rundir
      ELSE UNCHANGED dirs
  BY DEF ensure_xdg_runtime_dir
<1>4. box # NoBox /\ WellMade(box) /\ exec \in Plans /\ fs \in FileSets
  BY <1>1, <1>2, Running
<1>5. /\ exec' \in Plans /\ exec' # None /\ exec'.at = "repair" /\ exec'.user = exec.user
      /\ exec'.first = exec.first /\ exec'.home = exec.home
  BY <1>2, <1>4, StepIs, Strings
<1>6. r \subseteq STRING /\ fs.rest \subseteq r
  BY <1>4, Strings DEF FileSets, ensure_x11_socket_dir
<1> HIDE DEF r
<1>7. /\ fs' \in FileSets /\ fs'.passwd = fs.passwd /\ fs'.homes = fs.homes /\ fs'.strays = fs.strays
      /\ fs'.tools = fs.tools /\ fs'.rest = r
  BY <1>2, <1>4, <1>6 DEF FileSets
<1>8. Works
  BY <1>2, <1>5, <1>7 DEF Works
<1>9. Typed' /\ InStep' /\ Life' /\ Prepared' /\ Followed'
  BY <1>8, WorksHolds
<1>10. AccountsKept' /\ SameUser'
  BY <1>2, <1>5, <1>7, <1>8, AccountsAlone DEF Begun
<1>11. /\ Bypass(box.cfg) /\ RunUser(dir) => dir \in box.tmpfs
       /\ box.tmpfs # {} => /\ dir \in box.tmpfs /\ RunUser(dir)
                            /\ Spoken(box.cfg) => Get(box.env, "HOST_XDG_RUNTIME_DIR") # <<>>
  BY <1>4 DEF WellMade, Placed, RunDir
<1> HIDE DEF dir
<1>12. Prepares'
  <2>1. box.tmpfs # {} /\ Spoken(box.cfg) => rundir' = "user"
    BY <1>3, <1>11
  <2> QED
    BY <1>1, <1>2, <1>5, <1>6, <1>7, <2>1 DEF Prepares
<1>13. NothingAstray'
  BY <1>1, <1>2, <1>5, <1>7 DEF NothingAstray
<1>14. Spared'
  <2>1. hostdir' \in {hostdir, "asked", "inherited"}
    BY <1>3, <1>11 DEF dirs
  <2> QED
    BY <1>1, <2>1 DEF Spared
<1> QED
  BY <1>9, <1>10, <1>12, <1>13, <1>14 DEF IInv

LEMMA RepairHolds == ASSUME IInv, Repair PROVE IInv'
<1>1. /\ Typed /\ InStep /\ Life /\ AccountsKept /\ SameUser
      /\ Prepares /\ Prepared /\ NothingAstray /\ Spared /\ Followed
  BY DEF IInv
<1> DEFINE r == fs.rest \cup ensure_ets_symlink \cup ensure_button_layout
           s == (fs.strays /\ ~exec.first)
<1>2. /\ exec # None /\ exec.at = "repair" /\ fs' = [fs EXCEPT !.strays = s, !.rest = r] /\ Step("scripts")
      /\ UNCHANGED <<rundir, hostdir, failed>>
      /\ UNCHANGED <<box, reg, up, todo, given, begun, server, x11, faults>>
  BY InsideIs DEF Repair, Exec, dirs
<1>3. /\ box # NoBox /\ exec \in Plans /\ fs \in FileSets
      /\ todo \notin {ToStart, ToWait, ToPrepare, ToPrepareAgain, Starting}
  BY <1>1, <1>2, Running
<1>4. /\ exec' \in Plans /\ exec' # None /\ exec'.at = "scripts" /\ exec'.user = exec.user
      /\ exec'.first = exec.first /\ exec'.home = exec.home
  BY <1>2, <1>3, StepIs, Strings
<1>5. /\ r \subseteq STRING /\ fs.rest \subseteq r /\ {"ets"} \cup ({"buttons"} \cap fs.tools) \subseteq r
      /\ s \in BOOLEAN
  BY <1>3, Strings DEF FileSets, ensure_ets_symlink, ensure_button_layout
<1> HIDE DEF r
<1>6. s => fs.strays /\ ~exec.first
  OBVIOUS
<1> HIDE DEF s
<1>7. /\ fs' \in FileSets /\ fs'.passwd = fs.passwd /\ fs'.homes = fs.homes /\ fs'.strays = s
      /\ fs'.tools = fs.tools /\ fs'.rest = r
  BY <1>2, <1>3, <1>5 DEF FileSets
<1>8. Works
  BY <1>2, <1>4, <1>7 DEF Works
<1>9. Typed' /\ InStep' /\ Life' /\ Prepared' /\ Followed'
  BY <1>8, WorksHolds
<1>10. AccountsKept' /\ SameUser'
  BY <1>2, <1>4, <1>7, <1>8, AccountsAlone DEF Begun
<1>11. Prepares'
  BY <1>1, <1>2, <1>4, <1>5, <1>7 DEF Prepares
<1>12. NothingAstray'
  BY <1>1, <1>2, <1>3, <1>6, <1>7 DEF NothingAstray
<1>13. Spared'
  BY <1>1, <1>2, SparedStays
<1> QED
  BY <1>9, <1>10, <1>11, <1>12, <1>13 DEF IInv

\* When preparation ends, in one way or another.
LEMMA EndHolds ==
  ASSUME IInv, exec # None, exec' = None, fs' \in FileSets, fs'.passwd = fs.passwd, fs'.homes = fs.homes,
         UNCHANGED <<box, reg, up, todo, given, server, rundir, hostdir, x11>>,
         failed' \in BOOLEAN, faults' \in Nat
  PROVE  Typed' /\ InStep' /\ Life' /\ AccountsKept' /\ SameUser' /\ Prepares' /\ Spared' /\ Followed'
<1>1. Typed /\ InStep /\ Life /\ AccountsKept /\ SameUser /\ Spared /\ Followed
  BY DEF IInv
<1>2. /\ box # NoBox /\ up # "down" /\ todo \notin {ToStart, ToWait, ToPrepare, ToPrepareAgain, Starting}
  BY <1>1, Running
<1>3. Typed'
  BY <1>1 DEF Typed
<1>4. InStep'
  BY <1>1, <1>2 DEF InStep
<1>5. Life'
  BY <1>1, <1>2 DEF Life
<1>6. AccountsKept'
  BY <1>1 DEF AccountsKept
<1>7. SameUser'
  <2>1. (Unnamed' => Unnamed) /\ (Decided' => Decided)
    BY DEF Unnamed, Decided
  <2> QED
    BY <1>1, <2>1 DEF SameUser
<1>8. Prepares'
  BY DEF Prepares
<1>9. Spared' /\ Followed'
  BY <1>1, SparedStays, FollowedStays
<1> QED
  BY <1>3, <1>4, <1>5, <1>6, <1>7, <1>8, <1>9

LEMMA InstallScriptsHolds == ASSUME IInv, install_scripts PROVE IInv'
<1>1. /\ Typed /\ InStep /\ Life /\ AccountsKept /\ SameUser
      /\ Prepares /\ Prepared /\ NothingAstray /\ Spared /\ Followed
  BY DEF IInv
<1> DEFINE home == Home(fs.passwd, exec.user)
           s == IF At("wait") /\ home \in fs.homes THEN fs.scripts \cup {home} ELSE fs.scripts
<1>2. /\ exec # None /\ exec.at = "scripts" /\ fs' = [fs EXCEPT !.scripts = s] /\ exec' = None
      /\ failed' = (failed /\ ~At("wait"))
      /\ UNCHANGED <<rundir, hostdir>>
      /\ UNCHANGED <<box, reg, up, todo, given, begun, server, x11, faults>>
  BY InsideIs DEF install_scripts, Exec, dirs, Home
<1>3. /\ box # NoBox /\ exec \in Plans /\ fs \in FileSets /\ exec.home \in STRING
      /\ todo \notin {ToStart, ToWait, ToPrepare, ToPrepareAgain, Starting}
  BY <1>1, <1>2, Running
<1>4. exec.home = home
  BY <1>1, <1>2 DEF SameUser
<1>5. s \subseteq STRING /\ fs.scripts \subseteq s /\ (At("wait") /\ home \in fs.homes => home \in s)
  BY <1>3, <1>4 DEF FileSets
<1> HIDE DEF home, s
<1>6. /\ fs' \in FileSets /\ fs'.passwd = fs.passwd /\ fs'.homes = fs.homes /\ fs'.strays = fs.strays
      /\ fs'.tools = fs.tools /\ fs'.rest = fs.rest /\ fs'.scripts = s
  BY <1>2, <1>3, <1>5 DEF FileSets
<1>7. failed' \in BOOLEAN /\ faults' \in Nat
  BY <1>1, <1>2 DEF Typed
<1>8. Typed' /\ InStep' /\ Life' /\ AccountsKept' /\ SameUser' /\ Prepares' /\ Spared' /\ Followed'
  BY <1>2, <1>6, <1>7, EndHolds
<1>9. Prepared'
  <2> SUFFICES ASSUME Settled' PROVE Prepared'
    BY DEF Prepared
  <2>1. todo \in {ToEnd, ToRegister} \/ (todo \in Outside /\ reg # None /\ Loaded(reg) = box.cfg)
    BY <1>2 DEF Settled
  <2>2. todo \in {ToEnd, Started} /\ At("wait")
    <3>1. ~failed \/ At("wait")
      BY <1>2 DEF Settled
    <3>2. ~failed => todo \in {ToEnd, Started}
      BY <1>1, <1>2 DEF Life
    <3>3. At("wait") <=> todo \in {ToWait, ToEnd, Started}
      BY <1>1, AtIs DEF InStep
    <3> QED
      BY <1>3, <3>1, <3>2, <3>3
  <2>3. exec.user = box.cfg.user
    BY <1>1, <1>2, <2>1, <2>2, Apart DEF Prepares
  <2>4. home \in fs.homes /\ home \in s
    BY <1>1, <1>2, <1>4, <1>5, <2>2 DEF Prepares
  <2>5. ({"fonts", "buttons"} \cap fs.tools) \cup {"ets"} \subseteq fs.rest
    BY <1>1, <1>2 DEF Prepares
  <2>6. box.tmpfs # {} /\ Spoken(box.cfg) => rundir = "user"
    BY <1>1, <1>2 DEF Prepares
  <2> QED
    BY <1>2, <1>6, <2>3, <2>4, <2>5, <2>6 DEF Prepared, home
<1>10. NothingAstray'
  BY <1>1, <1>2, <1>3, <1>6 DEF NothingAstray
<1> QED
  BY <1>8, <1>9, <1>10 DEF IInv

LEMMA CutHolds == ASSUME IInv, Cut PROVE IInv'
<1>1. Typed /\ NothingAstray
  BY DEF IInv
<1>2. /\ exec # None /\ exec' = None /\ failed' = TRUE /\ faults' = faults + 1
      /\ UNCHANGED <<box, fs, reg, up, todo, given, server, rundir, hostdir, x11>>
  BY DEF Cut, Fault, made, cmd, dirs, x11
<1>3. fs' \in FileSets /\ faults' \in Nat /\ failed' \in BOOLEAN /\ faults' # 0
  BY <1>1, <1>2 DEF Typed
<1>4. Typed' /\ InStep' /\ Life' /\ AccountsKept' /\ SameUser' /\ Prepares' /\ Spared' /\ Followed'
  BY <1>2, <1>3, EndHolds
<1>5. Prepared' /\ NothingAstray'
  BY <1>2, <1>3 DEF Prepared, Settled, NothingAstray
<1> QED
  BY <1>4, <1>5 DEF IInv

LEMMA InContainerHolds == ASSUME IInv, InContainer PROVE IInv'
BY PlanHolds, RewritePasswdHolds, RewriteGroupHolds, EnsureHomeHolds, EnsureDirsHolds, RepairHolds,
   InstallScriptsHolds, CutHolds DEF InContainer

\* A step keeps the invariant.
LEMMA StepHolds == ASSUME IInv, [Next]_vars PROVE IInv'
<1>1. CASE Command
  BY <1>1, CommandHolds
<1>2. CASE OnHost
  BY <1>2, OnHostHolds
<1>3. CASE InContainer
  BY <1>3, InContainerHolds
<1>4. CASE OfServer
  BY <1>4, OfServerHolds
<1>5. CASE UNCHANGED vars
  <2>1. UNCHANGED <<box, fs, reg, up, todo, given, begun, exec, server, rundir, hostdir,
                    x11, failed, faults>>
    BY <1>5 DEF vars, made, cmd, dirs, x11
  <2> QED
    BY <2>1, TypedStays, InStepStays, LifeStays, AccountsStay, SameUserStays, PreparesStays, PreparedStays,
       AstrayStays, SparedStays, FollowedStays DEF IInv
<1> QED
  BY <1>1, <1>2, <1>3, <1>4, <1>5 DEF Next

-----------------------------------------------------------------------------
(* Theorems *)

\* The inductive invariant: whatever the commands, the server and the display of the host
\* do, and whatever fails, the container is one that a configuration has made
\* (podman/mod.rs create_inner, gui.rs inject_passthrough), the command in hand stands
\* where its steps say (mod.rs:1880-1990, libpod.rs), preparation finds the accounts of
\* the image and the home it has chosen (incontainer.rs:57-320), and what has been
\* prepared stays so.
THEOREM InvHolds == Spec => []IInv
<1>1. Init => IInv
  BY InitHolds
<1>2. IInv /\ [Next]_vars => IInv'
  BY StepHolds
<1> QED
  BY <1>1, <1>2, PTL DEF Spec

\* A container with a runtime directory of its own, whose configuration is the one on file.
LEMMA RuntimeDirsFollow == ASSUME IInv PROVE RuntimeDirsAreRight
<1>1. Spared /\ Prepared /\ Life
  BY DEF IInv
<1>2. hostdir # "touched"
  BY <1>1 DEF Spared
<1>3. ASSUME Quiet, up = "start", ~failed, box.tmpfs # {}, reg # None, Loaded(reg) = box.cfg, Spoken(box.cfg)
      PROVE  rundir = "user"
  <2>1. box # NoBox
    BY <1>1, <1>3 DEF Life
  <2>2. todo \in Outside
    BY <1>3 DEF Quiet, Outside
  <2> QED
    BY <1>1, <1>3, <2>1, <2>2 DEF Prepared, Settled, Quiet
<1> QED
  BY <1>2, <1>3 DEF RuntimeDirsAreRight, Spoken

\* incontainer.rs:541, mod.rs:1950-1957: preparation never changes the host's runtime
\* directory without the user's word, and a container with a display of its own that has
\* been started and prepared as its configuration says has a runtime directory that is its
\* user's.
THEOREM RuntimeDirsHold == Spec => []RuntimeDirsAreRight
<1>1. IInv => RuntimeDirsAreRight
  BY RuntimeDirsFollow
<1> QED
  BY <1>1, InvHolds, PTL

\* gui.rs:175, mod.rs:755: variables and mounts that the user has declared are those the
\* container has, whatever the display's rules would add.
THEOREM UserWinsHolds == Spec => []UserWins
<1>1. IInv => UserWins
  <2>1. SUFFICES ASSUME IInv, box # NoBox PROVE Wins(box)
    BY DEF UserWins, Wins
  <2> QED
    BY <2>1 DEF IInv, Typed, WellMade
<1> QED
  BY <1>1, InvHolds, PTL

LEMMA IdentityFollows == ASSUME IInv PROVE IdentityAgrees
<1>1. /\ Typed /\ InStep /\ Life /\ AccountsKept /\ SameUser /\ Prepared /\ NothingAstray
  BY DEF IInv
<1>2. fs.passwd \in Seq(Accounts)
  BY <1>1 DEF Typed, FileSets
<1>3. Quiet => box # NoBox /\ server # None /\ exec = None /\ todo = <<>> /\ todo \in Outside
  BY <1>1 DEF Quiet, Life, Outside
<1>4. ASSUME Quiet, box.cfg.user # None \/ "EASYTIDY_USER_NAME" \notin DOMAIN box.env
      PROVE  /\ resolve_identity(fs.passwd, box.cfg.user).home = server.home
             /\ box.home # None => box.home = server.home
  <2>1. Decided
    BY <1>3, <1>4 DEF Decided, Named
  <2> QED
    BY <1>1, <1>3, <1>4, <2>1 DEF SameUser, Home
<1>5. ASSUME Quiet, box.cfg.user # None \/ "EASYTIDY_USER_NAME" \notin DOMAIN box.env,
             ~failed, reg # None, Loaded(reg) = box.cfg, fs.homes # {}
      PROVE  /\ server.home \in fs.homes \cap fs.scripts
             /\ ({"fonts", "buttons"} \cap fs.tools) \cup {"ets"} \subseteq fs.rest
  <2>1. Settled
    BY <1>3, <1>5 DEF Settled
  <2>2. /\ Home(fs.passwd, box.cfg.user) \in fs.homes \cap fs.scripts
        /\ ({"fonts", "buttons"} \cap fs.tools) \cup {"ets"} \subseteq fs.rest
    BY <1>1, <1>5, <2>1 DEF Prepared
  <2>3. Home(fs.passwd, box.cfg.user) = server.home
    BY <1>4, <1>5 DEF Home
  <2> QED
    BY <2>2, <2>3
<1>6. ASSUME fs.homes # {}
      PROVE  Held(fs.passwd) = {} /\ \E i \in DOMAIN fs.passwd : OfUid(fs.passwd) = {i}
  <2>1. Real(fs.passwd) # {} /\ \A i, j \in OfUid(fs.passwd) : i = j
    BY <1>1, <1>6 DEF AccountsKept, OneAccount
  <2>2. PICK i \in OfUid(fs.passwd) : i \notin Held(fs.passwd)
    BY <2>1 DEF Real
  <2>3. OfUid(fs.passwd) = {i} /\ i \in DOMAIN fs.passwd
    BY <2>1, <2>2 DEF OfUid
  <2> QED
    BY <2>2, <2>3 DEF Held
<1>7. ASSUME Quiet, NEW i \in DOMAIN box.image, box.image[i].uid # "uid"
      PROVE  Contains(fs.passwd, box.image[i])
  <2>1. OthersIn(fs.passwd, box.image)
    BY <1>1, <1>3, <1>7 DEF AccountsKept
  <2>2. PICK j \in DOMAIN fs.passwd : fs.passwd[j] = box.image[i]
    BY <1>7, <2>1 DEF OthersIn
  <2>3. j \in 1..Len(fs.passwd)
    BY <1>2, <2>2, LinesAre
  <2> QED
    BY <2>2, <2>3 DEF Contains
<1>8. ASSUME Quiet, faults = 0 PROVE ~fs.strays
  BY <1>1, <1>3, <1>8, Apart DEF NothingAstray
<1> QED
  BY <1>4, <1>5, <1>6, <1>7, <1>8 DEF IdentityAgrees

\* incontainer.rs:57-70, 253-260, pathvars.rs: the host, preparation and the server agree
\* on who the user is and where his home is; others keep their accounts.
THEOREM IdentityHolds == Spec => []IdentityAgrees
<1>1. IInv => IdentityAgrees
  BY IdentityFollows
<1> QED
  BY <1>1, InvHolds, PTL

\* setup.rs:274-278: once the server has looked and its link could be written, it leads to
\* the host's cookie where nothing else looks like one.
THEOREM CookieHolds == Spec => []CookieIsFollowed
<1>1. IInv => CookieIsFollowed
  BY DEF IInv, Followed
<1> QED
  BY <1>1, InvHolds, PTL
=============================================================================

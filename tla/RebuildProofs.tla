---------------------------- MODULE RebuildProofs ----------------------------
(***************************************************************************)
(* Rebuild for any number of tags and writes: whatever rebuilds do to each *)
(* other, a container of the user's and the newest image stay; and if only *)
(* one rebuild is at work at a time (Alone), no write is lost.             *)
(*                                                                         *)
(* AnyInv is inductive without Alone; EnvHasAll and MidwayHasAll need it,  *)
(* since they speak of containers that another rebuild may remove.         *)
(***************************************************************************)
EXTENDS Rebuild, TLAPS

-----------------------------------------------------------------------------
(* Containers *)

LEMMA NoneTyped == None \in Container /\ ~None.managed /\ ~Exists(None) /\ ~Runs(None)
BY DEF None, Container, Exists, Runs

\* Starting and stopping change nothing but the state.
LEMMA StartStop ==
  ASSUME NEW c \in Container
  PROVE  /\ Started(c) \in Container /\ Stopped(c) \in Container
         /\ \A d \in {Started(c), Stopped(c)} :
               d.managed = c.managed /\ d.data = c.data /\ d.image = c.image
         /\ Runs(Started(c)) /\ ~Runs(Stopped(c))
         /\ Exists(Started(c)) /\ (Exists(c) => Exists(Stopped(c)))
BY DEF Started, Stopped, Container, Exists, Runs

\* A container made of an image holds what the image holds.
LEMMA NewTyped ==
  ASSUME NEW t \in Tags, backup[t] \in SUBSET Writes
  PROVE  /\ New(t) \in Container /\ Exists(New(t)) /\ New(t).managed /\ ~Runs(New(t))
         /\ New(t).image = t /\ New(t).data = backup[t]
BY DEF New, Container, Exists, Runs

\* So does the container the engine's own rebuild makes.
Replacement(t) == [state |-> "running", managed |-> TRUE, data |-> env.data, image |-> t]

LEMMA ReplacementTyped ==
  ASSUME NEW t \in Tags, env \in Container
  PROVE  /\ Replacement(t) \in Container /\ Exists(Replacement(t)) /\ Replacement(t).managed
         /\ Replacement(t).image = t /\ Replacement(t).data = env.data
BY DEF Replacement, Container, Exists

\* A container that takes the environment's name stays the container it was.
LEMMA TakeNameTyped ==
  ASSUME TypeOK, TakeName
  PROVE  /\ env' \in Container /\ tmp' \in Container
         /\ images' \subseteq Tags /\ backup' \in [Tags -> SUBSET Writes]
         /\ nextWrite' \in 1..(MaxWrites + 1) /\ counted' \subseteq Writes
<1>1. tmp.data \subseteq Writes
  BY DEF TypeOK, Container
<1> QED
  BY <1>1, NoneTyped DEF TakeName, TypeOK, imageVars

-----------------------------------------------------------------------------
(* What holds for any number of rebuilds *)

LEMMA InitAny == Init => AnyInv
<1> SUFFICES ASSUME Init PROVE AnyInv
  OBVIOUS
<1>1. TypeOK
  <2>1. env \in Container /\ tmp \in Container
    BY NoneTyped DEF Init, Container, None
  <2>2. pc \in [Rebuilders -> Place]
    BY DEF Init, Place
  <2> QED
    BY <2>1, <2>2, BoundsAssumption DEF Init, TypeOK, Tags, Writes
<1>2. ForeignIsSafe
  BY NoneTyped DEF Init, ForeignIsSafe, None, Runs
<1> QED
  BY <1>1, <1>2 DEF Init, AnyInv, TagsAreGiven, PlanIsOld

\* Every step keeps every variable in its set.
LEMMA NextTypeOK == TypeOK /\ TagsAreGiven /\ [Next]_vars => TypeOK'
<1> SUFFICES ASSUME TypeOK, TagsAreGiven, [Next]_vars PROVE TypeOK'
  OBVIOUS
<1> USE DEF containers, imageVars, taskVars, writeVars
<1>1. ASSUME NEW r \in Rebuilders, RebuildStep(r) PROVE TypeOK'
  <2>1. pc' \in [Rebuilders -> Place]
    BY <1>1 DEF TypeOK, RebuildStep, LookForTmp, RemoveLeftover, IsRunning, Stop, TakeTag, Endpoint,
       Confirmed, Commit, Create, Start, Confirm, RemoveOld, Rename, Undo, Restore, Return,
       GoTo, Answered, Refused, Place
  <2>2. CASE LookForTmp(r) \/ IsRunning(r) \/ Confirm(r) \/ Return(r)
    BY <2>1, <2>2 DEF LookForTmp, IsRunning, Confirm, Return, TypeOK
  <2>3. CASE RemoveLeftover(r) \/ RemoveOld(r) \/ Undo(r)
    BY <2>1, <2>3, NoneTyped DEF RemoveLeftover, RemoveOld, Undo, Refused, TypeOK
  <2>8. CASE Rename(r)
    BY <2>1, <2>8, TakeNameTyped DEF Rename, Refused, TypeOK
  <2>4. CASE Stop(r) \/ Start(r) \/ Restore(r) \/ Confirmed(r)
    <3>1. env' \in Container /\ tmp' \in Container
      BY <2>4, StartStop DEF Stop, Start, Restore, Confirmed, Refused, TypeOK
    <3> QED
      BY <2>1, <2>4, <3>1 DEF Stop, Start, Restore, Confirmed, Refused, TypeOK
  <2>5. CASE TakeTag(r)
    BY <2>1, <2>5, BoundsAssumption DEF TakeTag, TypeOK, Tags
  <2>6. CASE Endpoint(r) \/ Commit(r)
    <3>1. tag[r] \in Tags
      BY <2>6 DEF Endpoint, Commit, At, TagsAreGiven, TypeOK, Tags, Last
    <3>2. env.data \subseteq Writes
      BY DEF TypeOK, Container
    <3>3. images' \subseteq Tags /\ backup' \in [Tags -> SUBSET Writes]
      BY <2>6, <3>1, <3>2 DEF Endpoint, Commit, Committed, Refused, TypeOK
    <3>4. env' \in Container /\ tmp' \in Container
      <4>1. Replacement(tag[r]) \in Container /\ Stopped(Replacement(tag[r])) \in Container
        BY <3>1, ReplacementTyped, StartStop DEF TypeOK
      <4> QED
        BY <2>6, <4>1, NoneTyped DEF Endpoint, Commit, Refused, TypeOK, Replacement
    <3> QED
      BY <2>1, <2>6, <3>3, <3>4 DEF Endpoint, Commit, Refused, TypeOK
  <2>7. CASE Create(r)
    <3>1. tag[r] \in images => New(tag[r]) \in Container
      BY NewTyped DEF TypeOK
    <3> QED
      BY <2>1, <2>7, <3>1 DEF Create, Refused, TypeOK
  <2> QED
    BY <1>1, <2>2, <2>3, <2>4, <2>5, <2>6, <2>7, <2>8 DEF RebuildStep
<1>2. ASSUME NEW r \in Rebuilders, Crash(r) \/ \E q \in BOOLEAN : Begin(r, q) PROVE TypeOK'
  <2>1. pc' \in [Rebuilders -> Place]
    BY <1>2 DEF Crash, Begin, GoTo, TypeOK, Place
  <2> QED
    BY <1>2, <2>1 DEF Crash, Begin, TypeOK
<1>3. CASE Scan
  BY <1>3 DEF Scan, Redundant, TypeOK
<1>4. ASSUME NEW t \in Tags, Delete(t) PROVE TypeOK'
  BY <1>4 DEF Delete, TypeOK
<1>5. CASE UserStart \/ EnvStops \/ TmpStops
  BY <1>5, StartStop DEF UserStart, EnvStops, TmpStops, Touch, TypeOK
<1>6. CASE Write
  <2>1. env' \in Container
    BY <1>6 DEF Write, TypeOK, Container
  <2> QED
    BY <1>6, <2>1, BoundsAssumption DEF Write, TypeOK, Writes
<1>7. CASE WriteInTmp
  <2>1. tmp' \in Container
    BY <1>7 DEF WriteInTmp, TypeOK, Container
  <2> QED
    BY <1>7, <2>1, BoundsAssumption DEF WriteInTmp, TypeOK, Writes
<1>8. CASE UserRename
  BY <1>8, TakeNameTyped DEF UserRename, TypeOK
<1>9. CASE UNCHANGED vars
  BY <1>9 DEF vars, TypeOK
<1> QED
  BY <1>1, <1>2, <1>3, <1>4, <1>5, <1>6, <1>7, <1>8, <1>9 DEF Next

\* Tags only grow, and only a rebuild that has taken one commits.
LEMMA NextTagsAreGiven == TypeOK /\ TagsAreGiven /\ [Next]_vars => TagsAreGiven'
<1> SUFFICES ASSUME TypeOK, TagsAreGiven, [Next]_vars PROVE TagsAreGiven'
  OBVIOUS
<1> USE DEF containers, imageVars, taskVars, writeVars, TagsAreGiven, Last
<1>1. ASSUME NEW r \in Rebuilders, RebuildStep(r) PROVE TagsAreGiven'
  <2>1. CASE TakeTag(r)
    <3>1. \A s \in Rebuilders \ {r} : pc'[s] = pc[s] /\ tag'[s] = tag[s]
      BY <2>1 DEF TakeTag, GoTo, Answered, TypeOK
    <3>2. tag'[r] = nextTag /\ nextTag' = nextTag + 1 /\ nextTag \in Nat /\ nextTag >= 1
      BY <2>1 DEF TakeTag, TypeOK
    <3>3. \A s \in Rebuilders : pc'[s] \in {"endpoint", "commit"} => tag'[s] \in 1..(nextTag' - 1)
      BY <3>1, <3>2
    <3>4. \A t \in images' : t <= nextTag' - 1
      BY <2>1, <3>2 DEF TakeTag, TypeOK, Tags
    <3> QED
      BY <3>3, <3>4
  <2>2. CASE Endpoint(r) \/ Commit(r)
    <3>1. images' \subseteq images \cup {tag[r]} /\ tag[r] \in 1..Last
      BY <2>2 DEF Endpoint, Commit, Committed, Refused, At
    <3>2. \A s \in Rebuilders : pc'[s] \in {"endpoint", "commit"} => pc'[s] = pc[s]
      BY <2>2 DEF Endpoint, Commit, Refused, GoTo, Answered, TypeOK
    <3> QED
      BY <2>2, <3>1, <3>2 DEF Endpoint, Commit
  <2>3. CASE LookForTmp(r) \/ RemoveLeftover(r) \/ IsRunning(r) \/ Stop(r) \/ Confirmed(r) \/ Create(r)
               \/ Start(r) \/ Confirm(r) \/ RemoveOld(r) \/ Rename(r) \/ Undo(r) \/ Restore(r) \/ Return(r)
    <3>1. \A s \in Rebuilders : pc'[s] \in {"endpoint", "commit"} => pc'[s] = pc[s]
      BY <2>3 DEF TypeOK, LookForTmp, RemoveLeftover, IsRunning, Stop, Confirmed, Create, Start,
         Confirm, RemoveOld, Rename, Undo, Restore, Return, GoTo, Answered, Refused
    <3>2. UNCHANGED <<images, tag, nextTag>>
      BY <2>3 DEF LookForTmp, RemoveLeftover, IsRunning, Stop, Confirmed, Create, Start,
         Confirm, RemoveOld, Rename, TakeName, Undo, Restore, Return, Refused
    <3> QED
      BY <3>1, <3>2
  <2> QED
    BY <1>1, <2>1, <2>2, <2>3 DEF RebuildStep
<1>2. ASSUME NEW r \in Rebuilders, Crash(r) \/ \E q \in BOOLEAN : Begin(r, q) PROVE TagsAreGiven'
  BY <1>2 DEF Crash, Begin, GoTo, TypeOK
<1>3. CASE \/ Scan \/ UserStart \/ EnvStops \/ TmpStops
            \/ UserRename \/ Write \/ WriteInTmp \/ UNCHANGED vars
  BY <1>3 DEF Scan, UserStart, EnvStops, TmpStops, Touch, UserRename, TakeName, Write, WriteInTmp, vars
<1>4. ASSUME NEW t \in Tags, Delete(t) PROVE TagsAreGiven'
  BY <1>4 DEF Delete
<1> QED
  BY <1>1, <1>2, <1>3, <1>4 DEF Next

\* A cleanup that is overtaken by rebuilds and by other deletions still has newer
\* images than those it is about to delete.
LEMMA NextPlanIsOld == TypeOK /\ PlanIsOld /\ [Next]_vars => PlanIsOld'
<1> SUFFICES ASSUME TypeOK, PlanIsOld, [Next]_vars PROVE PlanIsOld'
  OBVIOUS
<1> USE DEF containers, imageVars, taskVars, writeVars, PlanIsOld
<1>1. ASSUME NEW r \in Rebuilders,
             RebuildStep(r) \/ Crash(r) \/ \E q \in BOOLEAN : Begin(r, q)
      PROVE  PlanIsOld'
  <2>1. images \subseteq images' /\ plan' = plan
    BY <1>1 DEF Crash, Begin, RebuildStep, LookForTmp, RemoveLeftover, IsRunning, Stop, TakeTag,
       Endpoint, Confirmed, Commit, Committed, Create, Start, Confirm, RemoveOld, Rename, TakeName,
       Undo, Restore, Return, Refused
  <2> QED
    BY <2>1
<1>2. CASE Scan
  BY <1>2 DEF Scan, Redundant
<1>3. ASSUME NEW t \in Tags, Delete(t) PROVE PlanIsOld'
  <2>1. t \in plan /\ plan' = plan \ {t} /\ images' \in {images, images \ {t}}
    BY <1>3 DEF Delete
  <2>2. ASSUME NEW s \in plan' PROVE \E u \in images' : u > s
    <3>1. PICK u \in images : u > s
      BY <2>1, <2>2
    <3>2. PICK v \in images : v > t
      BY <2>1
    <3>3. s \in Nat /\ t \in Nat /\ u \in Nat /\ v \in Nat
      BY <2>1, <2>2, <3>1, <3>2 DEF TypeOK, Tags
    <3>4. CASE u = t
      BY <2>1, <3>1, <3>2, <3>3, <3>4
    <3>5. CASE u # t
      BY <2>1, <3>1, <3>5
    <3> QED
      BY <3>4, <3>5
  <2> QED
    BY <2>2
<1>4. CASE \/ UserStart \/ EnvStops \/ TmpStops
            \/ UserRename \/ Write \/ WriteInTmp \/ UNCHANGED vars
  BY <1>4 DEF UserStart, EnvStops, TmpStops, Touch, UserRename, TakeName, Write, WriteInTmp, vars
<1> QED
  BY <1>1, <1>2, <1>3, <1>4 DEF Next

\* A container of the user's under the temporary name stays out of every rebuild's way,
\* and a name once free is only taken by containers of easytidy's.
LEMMA NextForeignIsSafe ==
  TypeOK /\ TagsAreGiven /\ ForeignIsSafe /\ [Next]_vars =>
      ForeignIsSafe' /\ (Exists(tmp) /\ ~tmp.managed => tmp' = tmp)
<1> SUFFICES ASSUME TypeOK, TagsAreGiven, ForeignIsSafe, [Next]_vars
             PROVE  ForeignIsSafe' /\ (Exists(tmp) /\ ~tmp.managed => tmp' = tmp)
  OBVIOUS
<1> USE DEF containers, imageVars, taskVars, writeVars
<1> DEFINE Touching == {"leftover", "start", "confirm", "remove", "undo", "rename"}
           Foreign  == Exists(tmp) /\ ~tmp.managed
           Foreign2 == Exists(tmp') /\ ~tmp'.managed
\* It is enough that a container that is foreign afterwards was there before, and
\* that no rebuild has come near it.
<1>0. ASSUME Foreign \/ Foreign2 => tmp' = tmp,
             Foreign => \A s \in Rebuilders : pc'[s] \notin Touching
      PROVE  ForeignIsSafe' /\ (Foreign => tmp' = tmp)
  BY <1>0 DEF ForeignIsSafe, Exists, Runs
<1>1. ASSUME NEW r \in Rebuilders, RebuildStep(r) PROVE ForeignIsSafe' /\ (Foreign => tmp' = tmp)
  <2>1. CASE LookForTmp(r)
    BY <1>0, <2>1 DEF LookForTmp, GoTo, ForeignIsSafe, TypeOK
  <2>2. CASE RemoveLeftover(r) \/ RemoveOld(r) \/ Rename(r) \/ Undo(r) \/ Start(r) \/ Confirm(r)
    <3>1. ~Foreign
      BY <2>2 DEF RemoveLeftover, RemoveOld, Rename, Undo, Start, Confirm, At, ForeignIsSafe
    <3>2. tmp' \in {tmp, None, Started(tmp)}
      BY <2>2 DEF RemoveLeftover, RemoveOld, Rename, TakeName, Undo, Start, Confirm, Refused
    <3>3. ~Foreign2
      <4>1. CASE Exists(tmp)
        BY <3>1, <3>2, <4>1, NoneTyped, StartStop DEF TypeOK
      <4>2. CASE ~Exists(tmp)
        BY <2>2, <4>2, NoneTyped DEF RemoveLeftover, RemoveOld, Rename, TakeName, Undo, Start,
           Confirm, Refused
      <4> QED
        BY <4>1, <4>2
    <3> QED
      BY <3>1, <3>3 DEF ForeignIsSafe
  <2>3. CASE IsRunning(r) \/ Stop(r) \/ TakeTag(r) \/ Confirmed(r) \/ Commit(r) \/ Restore(r) \/ Return(r)
    <3>1. tmp' = tmp
      BY <2>3 DEF IsRunning, Stop, TakeTag, Confirmed, Commit, Restore, Return, Refused
    <3>2. \A s \in Rebuilders : pc'[s] \in Touching => pc'[s] = pc[s]
      BY <2>3 DEF IsRunning, Stop, TakeTag, Confirmed, Commit, Restore, Return, Refused, GoTo, Answered, TypeOK
    <3> QED
      BY <1>0, <3>1, <3>2 DEF ForeignIsSafe
  <2>4. CASE Endpoint(r)
    <3>1. \A s \in Rebuilders : pc'[s] \in Touching => pc'[s] = pc[s]
      BY <2>4 DEF Endpoint, Refused, GoTo, Answered, TypeOK
    <3>2. tag[r] \in Tags
      BY <2>4 DEF Endpoint, At, TagsAreGiven, TypeOK, Tags, Last
    <3>3. \/ tmp' = tmp
          \/ ~Exists(tmp) /\ tmp' \in {None, Replacement(tag[r]), Stopped(Replacement(tag[r]))}
      BY <2>4 DEF Endpoint, Refused, Replacement
    <3>4. Foreign \/ Foreign2 => tmp' = tmp
      BY <3>2, <3>3, NoneTyped, ReplacementTyped, StartStop DEF TypeOK
    <3> QED
      BY <1>0, <3>1, <3>4 DEF ForeignIsSafe
  <2>5. CASE Create(r)
    <3>1. Foreign => \A s \in Rebuilders : pc'[s] \notin Touching
      BY <2>5 DEF Create, Refused, GoTo, Answered, TypeOK, ForeignIsSafe
    <3>2. \/ tmp' = tmp
          \/ ~Exists(tmp) /\ tag[r] \in images /\ tmp' = New(tag[r])
      BY <2>5 DEF Create, Refused
    <3>3. Foreign \/ Foreign2 => tmp' = tmp
      BY <3>2, NewTyped DEF TypeOK
    <3> QED
      BY <1>0, <3>1, <3>3
  <2> QED
    BY <1>1, <2>1, <2>2, <2>3, <2>4, <2>5 DEF RebuildStep
<1>2. ASSUME NEW r \in Rebuilders, Crash(r) \/ \E q \in BOOLEAN : Begin(r, q)
      PROVE  ForeignIsSafe' /\ (Foreign => tmp' = tmp)
  BY <1>0, <1>2 DEF Crash, Begin, GoTo, TypeOK, ForeignIsSafe
<1>3. CASE Scan \/ UserStart \/ EnvStops \/ Write \/ UNCHANGED vars
  BY <1>0, <1>3 DEF Scan, UserStart, EnvStops, Touch, Write, vars, ForeignIsSafe
<1>4. ASSUME NEW t \in Tags, Delete(t) PROVE ForeignIsSafe' /\ (Foreign => tmp' = tmp)
  BY <1>0, <1>4 DEF Delete, ForeignIsSafe
<1>5. CASE TmpStops
  <2>1. Exists(tmp) /\ tmp.managed
    BY <1>5 DEF TmpStops, ForeignIsSafe, Runs, Exists
  <2> QED
    BY <1>5, <2>1, StartStop DEF TmpStops, TypeOK, ForeignIsSafe
<1>6. CASE UserRename
  BY <1>6, NoneTyped DEF UserRename, TakeName, ForeignIsSafe
<1>7. CASE WriteInTmp
  <2>1. Exists(tmp) /\ tmp.managed
    BY <1>7 DEF WriteInTmp, ForeignIsSafe, Runs, Exists
  <2>2. tmp'.managed = tmp.managed
    BY <1>7 DEF WriteInTmp, TypeOK, Container
  <2> QED
    BY <2>1, <2>2 DEF ForeignIsSafe
<1> QED
  BY <1>1, <1>2, <1>3, <1>4, <1>5, <1>6, <1>7 DEF Next

LEMMA NextAny == AnyInv /\ [Next]_vars => AnyInv'
BY NextTypeOK, NextTagsAreGiven, NextPlanIsOld, NextForeignIsSafe DEF AnyInv

\* The part of the invariant that holds however many rebuilds there are.
THEOREM AnyHolds == Spec => []AnyInv
BY InitAny, NextAny, PTL DEF Spec

\* A container of the user's under the temporary name is left alone, however many
\* rebuilds go on (mod.rs, steps 0 and 5 of rebuild_with_commit).
THEOREM ForeignStays == Spec => ForeignIsKept
<1>1. AnyInv /\ [Next]_vars => [Exists(tmp) /\ ~tmp.managed => tmp' = tmp]_vars
  BY NextForeignIsSafe DEF AnyInv
<1> QED
  BY <1>1, AnyHolds, PTL DEF Spec, ForeignIsKept

\* A cleanup, however stale its list, and any rebuilds besides it leave the newest
\* image (containers.rs, rebuild_images_cleanup).
THEOREM NewestStays == Spec => NewestBackupStays
<1>1. ASSUME AnyInv, [Next]_vars, NEW t \in images, \A u \in images : u <= t
      PROVE  t \in images'
  <2>1. ASSUME NEW r \in Rebuilders,
               RebuildStep(r) \/ Crash(r) \/ \E q \in BOOLEAN : Begin(r, q)
        PROVE  images \subseteq images'
    BY <2>1 DEF Crash, Begin, RebuildStep, LookForTmp, RemoveLeftover, IsRunning, Stop, TakeTag,
       Endpoint, Confirmed, Commit, Committed, Create, Start, Confirm, RemoveOld, Rename, TakeName,
       Undo, Restore, Return, Refused, containers, imageVars
  <2>2. ASSUME NEW s \in Tags, Delete(s) PROVE t \in images'
    <3>0. s \in plan /\ images' \in {images, images \ {s}}
      BY <2>2 DEF Delete
    <3>1. PICK u \in images : u > s
      BY <1>1, <3>0 DEF AnyInv, PlanIsOld
    <3>2. t # s
      BY <1>1, <3>1 DEF AnyInv, TypeOK, Tags
    <3> QED
      BY <3>0, <3>2
  <2>3. CASE \/ Scan \/ UserStart \/ EnvStops \/ TmpStops
              \/ UserRename \/ Write \/ WriteInTmp \/ UNCHANGED vars
    BY <2>3 DEF Scan, UserStart, EnvStops, TmpStops, Touch, UserRename, TakeName, Write, WriteInTmp,
       vars, containers, imageVars
  <2> QED
    BY <1>1, <2>1, <2>2, <2>3 DEF Next
<1>2. AnyInv /\ [Next]_vars =>
          [\A t \in images : (\A u \in images : u <= t) => t \in images']_vars
  BY <1>1
<1> QED
  BY <1>2, AnyHolds, PTL DEF Spec, NewestBackupStays

-----------------------------------------------------------------------------
(* What holds for one rebuild at a time *)

LEMMA InitIInv == Init => IInv
<1> SUFFICES ASSUME Init PROVE IInv
  OBVIOUS
<1>1. EnvHasAll
  BY DEF Init, EnvHasAll, Exists
<1>2. MidwayHasAll
  BY DEF Init, MidwayHasAll
<1> QED
  BY <1>1, <1>2, InitAny DEF IInv

Midway(r) ==
    /\ pc[r] \in {"stop", "tag", "endpoint", "commit", "create", "start", "confirm", "remove",
                   "confirmed"} => Exists(env)
    /\ pc[r] \in {"endpoint", "commit", "create", "start", "confirm", "remove", "rename",
                   "confirmed"} => tag[r] = Last
    /\ pc[r] \in {"create", "start", "confirm", "remove"} =>
           tag[r] \in images /\ counted \subseteq backup[tag[r]]
    /\ pc[r] \in {"start", "confirm", "remove", "rename"} =>
           /\ Exists(tmp) /\ tmp.managed
           /\ tmp.image = tag[r] /\ counted \subseteq tmp.data
    /\ pc[r] = "rename" => ~Exists(env)
    /\ pc[r] = "confirmed" => env.image = tag[r]

LEMMA MidwayAll == MidwayHasAll <=> \A r \in Rebuilders : Midway(r)
BY DEF MidwayHasAll, Midway

\* A step of the rebuild: it is the only one whose place must be looked at.
LEMMA StepKeepsAll ==
  ASSUME Alone, IInv, NEW r \in Rebuilders, RebuildStep(r)
  PROVE  EnvHasAll' /\ Midway(r)'
<1> USE DEF containers, imageVars, taskVars, writeVars, At, GoTo, Answered, Refused
<1>0. /\ EnvHasAll /\ Midway(r) /\ TypeOK /\ TagsAreGiven
  BY MidwayAll DEF IInv, AnyInv
<1>1. CASE LookForTmp(r) \/ Return(r)
  BY <1>0, <1>1 DEF LookForTmp, Return, TypeOK, EnvHasAll, Midway, Last
<1>2. CASE RemoveLeftover(r)
  BY <1>0, <1>2, NoneTyped DEF RemoveLeftover, TypeOK, EnvHasAll, Midway, Last
<1>3. CASE IsRunning(r)
  BY <1>0, <1>3 DEF IsRunning, TypeOK, EnvHasAll, Midway, Last
<1>4. CASE Stop(r)
  BY <1>0, <1>4, StartStop DEF Stop, TypeOK, EnvHasAll, Midway, Last
<1>5. CASE TakeTag(r)
  <2>1. pc'[r] \in {"endpoint", "commit", "failed"} /\ Exists(env) /\ tag'[r] = nextTag
    BY <1>0, <1>5 DEF TakeTag, TypeOK, Midway
  <2>2. nextTag = nextTag' - 1 /\ UNCHANGED <<containers, imageVars, counted>>
    BY <1>0, <1>5 DEF TakeTag, TypeOK
  <2> QED
    BY <1>0, <2>1, <2>2 DEF EnvHasAll, Midway, Last
<1>6. CASE Endpoint(r)
  <2> DEFINE new == Replacement(tag[r])
  <2>1. pc[r] = "endpoint" /\ Exists(env) /\ tag[r] = Last /\ tag[r] \in Tags
    BY <1>0, <1>6 DEF Endpoint, Midway, TagsAreGiven, TypeOK, Tags, Last
  <2>2. UNCHANGED <<tag, nextTag, counted>>
    BY <1>6 DEF Endpoint
  <2>3. /\ new \in Container /\ Exists(new) /\ new.managed
        /\ new.image = tag[r] /\ new.data = env.data /\ counted \subseteq env.data
    BY <1>0, <2>1, ReplacementTyped DEF TypeOK, EnvHasAll
  <2>4. pc'[r] \in {"confirmed", "failed"}
    BY <1>0, <1>6 DEF Endpoint, TypeOK
  <2>5. \/ env' = new
        \/ /\ pc'[r] = "failed" /\ env' = None /\ tmp' = new
           /\ images' = images \cup {tag[r]} /\ backup'[tag[r]] = env.data
        \/ pc'[r] = "failed" /\ env' = env
    BY <1>0, <1>6, <2>1 DEF Endpoint, Committed, Replacement, TypeOK
  <2>6. EnvHasAll'
    BY <1>0, <2>1, <2>2, <2>3, <2>5, NoneTyped DEF EnvHasAll, Last
  <2>7. Midway(r)'
    BY <2>1, <2>2, <2>3, <2>4, <2>5 DEF Midway, Last
  <2> QED
    BY <2>6, <2>7
<1>7. CASE Confirmed(r) \/ Restore(r)
  <2>1. pc'[r] \in {"ok", "failed"} /\ UNCHANGED <<tmp, imageVars, tag, nextTag, counted>>
    BY <1>0, <1>7 DEF Confirmed, Restore, TypeOK
  <2>2. env' = env \/ (Exists(env) /\ env' = Started(env))
    BY <1>7 DEF Confirmed, Restore
  <2>3. EnvHasAll'
    BY <1>0, <2>1, <2>2, StartStop DEF EnvHasAll, TypeOK, Last
  <2> QED
    BY <2>1, <2>3 DEF Midway
<1>8. CASE Commit(r)
  <2>1. pc[r] = "commit" /\ Exists(env) /\ tag[r] = Last /\ tag[r] \in Tags
    BY <1>0, <1>8 DEF Commit, Midway, TagsAreGiven, TypeOK, Tags, Last
  <2>2. UNCHANGED <<containers, tag, nextTag, counted>> /\ pc'[r] \in {"create", "restore"}
    BY <1>0, <1>8 DEF Commit, TypeOK
  <2>3. pc'[r] = "create" => images' = images \cup {tag[r]} /\ backup'[tag[r]] = env.data
    BY <1>0, <1>8, <2>1 DEF Commit, Committed, TypeOK
  <2> QED
    BY <1>0, <2>1, <2>2, <2>3 DEF EnvHasAll, Midway, Last
<1>9. CASE Create(r)
  <2>1. /\ pc[r] = "create" /\ Exists(env) /\ tag[r] = Last
        /\ tag[r] \in images /\ tag[r] \in Tags /\ counted \subseteq backup[tag[r]]
    BY <1>0, <1>9 DEF Create, Midway, TypeOK
  <2>2. UNCHANGED <<env, imageVars, tag, nextTag, counted>> /\ pc'[r] \in {"start", "restore"}
    BY <1>0, <1>9 DEF Create, TypeOK
  <2>3. pc'[r] = "start" => tmp' = New(tag[r])
    BY <1>0, <1>9 DEF Create, TypeOK
  <2>4. pc'[r] = "start" => Exists(tmp') /\ tmp'.managed /\ tmp'.image = tag[r] /\ counted \subseteq tmp'.data
    BY <1>0, <2>1, <2>3, NewTyped DEF TypeOK
  <2> QED
    BY <1>0, <2>1, <2>2, <2>4 DEF EnvHasAll, Midway, Last
<1>10. CASE Start(r)
  <2>1. UNCHANGED <<env, imageVars, tag, nextTag, counted>> /\ pc'[r] \in {"confirm", "undo"} /\ pc[r] = "start"
    BY <1>0, <1>10 DEF Start, TypeOK
  <2>2. pc'[r] = "confirm" => tmp' = Started(tmp)
    BY <1>0, <1>10 DEF Start, TypeOK
  <2> QED
    BY <1>0, <2>1, <2>2, StartStop DEF EnvHasAll, Midway, TypeOK, Last
<1>11. CASE Confirm(r)
  BY <1>0, <1>11 DEF Confirm, TypeOK, EnvHasAll, Midway, Last
<1>12. CASE RemoveOld(r)
  <2>1. UNCHANGED <<tmp, imageVars, tag, nextTag, counted>> /\ pc'[r] \in {"rename", "undo"} /\ pc[r] = "remove"
    BY <1>0, <1>12 DEF RemoveOld, TypeOK
  <2>2. env' = None \/ (env' = env /\ pc'[r] = "undo")
    BY <1>0, <1>12 DEF RemoveOld, TypeOK
  <2> QED
    BY <1>0, <2>1, <2>2, NoneTyped DEF EnvHasAll, Midway, Last
<1>13. CASE Rename(r)
  BY <1>0, <1>13 DEF Rename, TakeName, TypeOK, EnvHasAll, Midway, Last
<1>14. CASE Undo(r)
  BY <1>0, <1>14, NoneTyped DEF Undo, TypeOK, EnvHasAll, Midway, Last
<1> QED
  BY <1>1, <1>2, <1>3, <1>4, <1>5, <1>6, <1>7, <1>8, <1>9, <1>10, <1>11, <1>12, <1>13, <1>14
  DEF RebuildStep

\* What the user, the cleanup and a crash do while the rebuild q, if any, waits.
LEMMA OthersKeepAll ==
  ASSUME IInv, NEW q,
         \/ \E r \in Rebuilders : Crash(r) \/ \E b \in BOOLEAN : Begin(r, b)
         \/ Scan \/ \E t \in Tags : Delete(t)
         \/ UserStart \/ EnvStops \/ TmpStops
         \/ UserRename \/ Write \/ WriteInTmp \/ UNCHANGED vars
  PROVE  EnvHasAll' /\ (q \in Rebuilders => Midway(q)')
<1> USE DEF containers, imageVars, taskVars, writeVars
<1>0. EnvHasAll /\ (q \in Rebuilders => Midway(q)) /\ TypeOK /\ TagsAreGiven /\ PlanIsOld
  BY MidwayAll DEF IInv, AnyInv
<1>1. ASSUME NEW r \in Rebuilders, Crash(r) \/ \E b \in BOOLEAN : Begin(r, b)
      PROVE  EnvHasAll' /\ (q \in Rebuilders => Midway(q)')
  <2>1. UNCHANGED <<containers, imageVars, tag, nextTag, counted>>
    BY <1>1 DEF Crash, Begin
  <2>2. q \in Rebuilders => pc'[q] = pc[q] \/ pc'[q] \in {"idle", "look"}
    BY <1>0, <1>1 DEF Crash, Begin, GoTo, TypeOK
  <2> QED
    BY <1>0, <2>1, <2>2 DEF EnvHasAll, Midway, Last
<1>2. CASE Scan \/ UNCHANGED vars
  BY <1>0, <1>2 DEF Scan, vars, EnvHasAll, Midway, Last
\* The last image is not in the plan, since no image is newer.
<1>3. ASSUME NEW t \in Tags, Delete(t) PROVE EnvHasAll' /\ (q \in Rebuilders => Midway(q)')
  <2>1. UNCHANGED <<containers, taskVars, counted>> /\ t \in plan
        /\ images' \in {images, images \ {t}}
    BY <1>3 DEF Delete
  <2>2. \A u \in images : u # t => u \in images' /\ backup'[u] = backup[u]
    BY <1>0, <1>3 DEF Delete, TypeOK
  <2>3. Last # t
    <3>1. PICK u \in images : u > t
      BY <1>0, <2>1 DEF PlanIsOld
    <3> QED
      BY <1>0, <3>1 DEF TagsAreGiven, TypeOK, Tags, Last
  <2> QED
    BY <1>0, <2>1, <2>2, <2>3 DEF EnvHasAll, Midway, Last
<1>4. CASE UserStart \/ EnvStops
  <2>1. env' \in {Started(env), Stopped(env)} /\ Exists(env)
        /\ UNCHANGED <<tmp, imageVars, taskVars, counted>>
    BY <1>4 DEF UserStart, EnvStops, Touch, Runs, Exists
  <2>2. Exists(env') /\ env'.managed = env.managed /\ env'.data = env.data /\ env'.image = env.image
    BY <1>0, <2>1, StartStop DEF TypeOK
  <2> QED
    BY <1>0, <2>1, <2>2 DEF EnvHasAll, Midway, Last
<1>5. CASE TmpStops
  <2>1. tmp' = Stopped(tmp) /\ Exists(tmp) /\ UNCHANGED <<env, imageVars, taskVars, counted>>
    BY <1>5 DEF TmpStops, Runs, Exists
  <2>2. Exists(tmp') /\ tmp'.managed = tmp.managed /\ tmp'.data = tmp.data /\ tmp'.image = tmp.image
    BY <1>0, <2>1, StartStop DEF TypeOK
  <2> QED
    BY <1>0, <2>1, <2>2 DEF EnvHasAll, Midway, Last
<1>6. CASE Write
  <2>1. /\ Exists(env') /\ Exists(env) /\ env'.managed = env.managed /\ env'.image = env.image
        /\ env'.data = env.data \cup {nextWrite}
        /\ UNCHANGED <<tmp, imageVars, taskVars>>
    BY <1>0, <1>6 DEF Write, Exists, Runs, TypeOK, Container
  <2>2. counted' \subseteq counted \cup {nextWrite}
    BY <1>6 DEF Write
  <2>3. q \in Rebuilders /\ pc[q] \in {"create", "start", "confirm", "remove"} => counted' = counted
    BY <1>6 DEF Write, Late
  <2>4. q \in Rebuilders => pc[q] # "rename"
    BY <1>0, <2>1 DEF Midway
  <2> QED
    BY <1>0, <2>1, <2>2, <2>3, <2>4 DEF EnvHasAll, Midway, Last
<1>7. CASE WriteInTmp
  <2>1. /\ Exists(tmp') /\ Exists(tmp) /\ tmp'.managed = tmp.managed /\ tmp'.image = tmp.image
        /\ tmp'.data = tmp.data \cup {nextWrite}
        /\ UNCHANGED <<env, imageVars, taskVars, counted>>
    BY <1>0, <1>7 DEF WriteInTmp, Exists, Runs, TypeOK, Container
  <2> QED
    BY <1>0, <2>1 DEF EnvHasAll, Midway, Last
\* What is left under the temporary name has all of it, and nobody is rebuilding.
<1>8. CASE UserRename
  <2>1. /\ Exists(tmp) /\ ~Exists(env) /\ tmp.managed /\ env' = tmp
        /\ counted' = counted \cup tmp.data
        /\ UNCHANGED <<imageVars, taskVars>>
        /\ \A r \in Rebuilders : pc[r] = "idle"
    BY <1>8 DEF UserRename, TakeName, At
  <2>2. counted \subseteq tmp.data
    BY <1>0, <2>1 DEF EnvHasAll
  <2> QED
    BY <2>1, <2>2 DEF EnvHasAll, Midway
<1> QED
  BY <1>1, <1>2, <1>3, <1>4, <1>5, <1>6, <1>7, <1>8

LEMMA NextIInv == Alone /\ IInv /\ [Next]_vars => IInv'
<1> SUFFICES ASSUME Alone, IInv, [Next]_vars PROVE IInv'
  OBVIOUS
<1>1. AnyInv'
  BY NextAny DEF IInv
<1>2. EnvHasAll'
  <2>1. ASSUME NEW r \in Rebuilders, RebuildStep(r) PROVE EnvHasAll'
    BY <2>1, StepKeepsAll
  <2> QED
    BY <2>1, OthersKeepAll DEF Next
<1>3. ASSUME NEW q \in Rebuilders PROVE Midway(q)'
  <2>1. ASSUME NEW r \in Rebuilders, RebuildStep(r) PROVE Midway(q)'
    BY <2>1, StepKeepsAll DEF Alone
  <2> QED
    BY <2>1, OthersKeepAll DEF Next
<1>4. MidwayHasAll' <=> \A r \in Rebuilders : Midway(r)'
  BY DEF MidwayHasAll, Midway
<1> QED
  BY <1>1, <1>2, <1>3, <1>4 DEF IInv

\* The inductive invariant of one rebuild at a time.
THEOREM AllIsKept == ASSUME Alone PROVE Spec => []IInv
<1>1. IInv /\ [Next]_vars => IInv'
  BY NextIInv
<1> QED
  BY <1>1, InitIInv, PTL DEF Spec

\* Whatever request fails and wherever a rebuild is killed, what was written in the
\* environment is in a container or in an image (mod.rs, rebuild_with_commit).
THEOREM NothingIsLost == ASSUME Alone PROVE Spec => []NoWriteIsLost
<1>1. IInv => NoWriteIsLost
  BY DEF IInv, AnyInv, EnvHasAll, NoWriteIsLost
<1> QED
  BY <1>1, AllIsKept, PTL

\* The old container goes only for a new one that is there with all of its content
\* (mod.rs, step 5; and the engine's endpoint).
THEOREM OldIsReplaced == ASSUME Alone PROVE Spec => OldGoesForNew
<1> DEFINE Good == Exists(tmp') /\ tmp'.managed /\ counted' \subseteq tmp'.data
<1>1. ASSUME IInv, [Next]_vars, Exists(env), ~Exists(env') PROVE Good
  <2> USE DEF containers, imageVars, taskVars, writeVars
  <2>0. env \in Container /\ EnvHasAll /\ TypeOK
    BY <1>1 DEF IInv, AnyInv, TypeOK
  <2>1. ASSUME NEW r \in Rebuilders, RebuildStep(r) PROVE Good
    <3>0. Midway(r)
      BY <1>1, MidwayAll DEF IInv
    <3>1. CASE Endpoint(r)
      <4>1. tag[r] \in Tags
        BY <1>1, <3>1 DEF Endpoint, At, IInv, AnyInv, TagsAreGiven, TypeOK, Tags, Last
      <4>2. /\ env' = Replacement(tag[r]) \/ env' = env \/ tmp' = Replacement(tag[r])
            /\ counted' = counted
        BY <3>1 DEF Endpoint, Refused, Replacement
      <4> QED
        BY <1>1, <2>0, <4>1, <4>2, ReplacementTyped DEF EnvHasAll
    <3>2. CASE RemoveOld(r)
      BY <1>1, <3>0, <3>2 DEF RemoveOld, Refused, At, Midway
    <3>3. CASE Stop(r) \/ Confirmed(r) \/ Restore(r)
      <4>1. env' \in {env, Started(env), Stopped(env)}
        BY <3>3 DEF Stop, Confirmed, Restore, Refused
      <4> QED
        BY <1>1, <2>0, <4>1, StartStop
    <3>4. CASE LookForTmp(r) \/ RemoveLeftover(r) \/ IsRunning(r) \/ TakeTag(r) \/ Commit(r) \/ Create(r)
                 \/ Start(r) \/ Confirm(r) \/ Rename(r) \/ Undo(r) \/ Return(r)
      BY <1>1, <3>4 DEF LookForTmp, RemoveLeftover, IsRunning, TakeTag, Commit, Create, Start, Confirm,
         Rename, TakeName, Undo, Return, Refused
    <3> QED
      BY <2>1, <3>1, <3>2, <3>3, <3>4 DEF RebuildStep
  <2>2. CASE UserStart \/ EnvStops
    BY <1>1, <2>0, <2>2, StartStop DEF UserStart, EnvStops, Touch
  <2>3. CASE Write
    BY <1>1, <2>0, <2>3 DEF Write, Exists, Container
  <2>4. CASE \/ \E r \in Rebuilders : Crash(r) \/ \E q \in BOOLEAN : Begin(r, q)
             \/ Scan \/ (\E t \in Tags : Delete(t))
             \/ TmpStops \/ UserRename \/ WriteInTmp \/ UNCHANGED vars
    BY <1>1, <2>4 DEF Crash, Begin, Scan, Delete, TmpStops, UserRename, TakeName, WriteInTmp, vars
  <2> QED
    BY <1>1, <2>1, <2>2, <2>3, <2>4 DEF Next
<1>2. IInv /\ [Next]_vars => [Exists(env) /\ ~Exists(env') => Good]_vars
  BY <1>1
<1> QED
  BY <1>2, AllIsKept, PTL DEF Spec, OldGoesForNew

\* A rebuild that reports success has put its own image in the environment's place,
\* with nothing missing (mod.rs, steps 5 to 7, and the answer of the endpoint).
THEOREM OkIsTrue == ASSUME Alone PROVE Spec => OkMeansReplaced
<1>1. ASSUME IInv, [Next]_vars, NEW r \in Rebuilders, pc'[r] = "ok", pc[r] # "ok"
      PROVE  env'.image = tag[r] /\ counted' \subseteq env'.data
  <2> USE DEF containers, imageVars, taskVars, writeVars
  <2>0. TypeOK /\ EnvHasAll /\ Midway(r)
    BY <1>1, MidwayAll DEF IInv, AnyInv
  <2>1. PICK s \in Rebuilders : RebuildStep(s)
    BY <1>1, <2>0 DEF Next, Crash, Begin, GoTo, TypeOK, Scan, Delete, UserStart, EnvStops, TmpStops,
       Touch, UserRename, Write, WriteInTmp, vars
  <2>2. s = r
    BY Alone DEF Alone
  <2>3. Confirmed(r) \/ Rename(r)
    BY <1>1, <2>0, <2>1, <2>2 DEF RebuildStep, LookForTmp, RemoveLeftover, IsRunning, Stop, TakeTag,
       Endpoint, Commit, Create, Start, Confirm, RemoveOld, Undo, Restore, Return,
       GoTo, Answered, Refused, TypeOK
  <2>4. CASE Confirmed(r)
    <3>1. env' \in {env, Started(env)} /\ pc[r] = "confirmed"
      BY <2>4 DEF Confirmed, At
    <3>2. env'.image = env.image /\ env'.data = env.data /\ counted' = counted
      BY <2>0, <2>4, <3>1, StartStop DEF TypeOK, Confirmed
    <3> QED
      BY <2>0, <3>1, <3>2 DEF Midway, EnvHasAll
  <2>5. CASE Rename(r)
    BY <1>1, <2>0, <2>5 DEF Rename, TakeName, Refused, GoTo, Answered, At, Midway, TypeOK
  <2> QED
    BY <2>3, <2>4, <2>5
<1>2. IInv /\ [Next]_vars =>
        [\A r \in Rebuilders : pc'[r] = "ok" /\ pc[r] # "ok" =>
             env'.image = tag[r] /\ counted' \subseteq env'.data]_vars
  BY <1>1
<1> QED
  BY <1>2, AllIsKept, PTL DEF Spec, OkMeansReplaced

=============================================================================

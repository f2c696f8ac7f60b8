------------------------------- MODULE Rebuild -------------------------------
(***************************************************************************)
(* Rebuilding an environment (crates/core/src/podman/mod.rs,               *)
(* rebuild_with_commit) and clearing its backup images away                *)
(* (crates/gui/src/commands/containers.rs, rebuild_images_cleanup).        *)
(*                                                                         *)
(* A rebuild is a sequence of engine requests, and a step is one request.  *)
(* A request may fail without effect, or take effect and be reported as    *)
(* failed.  The rebuilding process may crash between any two of them; the  *)
(* user starts, stops and works in the container all the while.            *)
(*                                                                         *)
(* The content of a container or an image is the set of writes it holds.   *)
(* Nothing is lost that one of them holds.                                 *)
(***************************************************************************)
EXTENDS Naturals, FiniteSets

CONSTANTS Rebuilders,   \* processes that may rebuild the environment
          MaxTags,      \* bound: tags given out, one per rebuild
          MaxWrites     \* bound: writes made in the environment

ASSUME BoundsAssumption == MaxTags \in Nat \ {0} /\ MaxWrites \in Nat

Tags   == 1..MaxTags
Writes == 1..MaxWrites

VARIABLES
    env,       \* the container that bears the environment's name
    tmp,       \* the container named <name>_tmp
    images,    \* the tags of easytidy-rebuild images
    backup,    \* what the image of a tag holds
    nextTag,   \* the next time stamp
    pc,        \* where each rebuild is
    quick,     \* which of the two ways it goes
    tag,       \* the tag it commits to
    plan,      \* the images a cleanup is about to delete
    nextWrite, \* writes made so far, plus one
    counted    \* the writes that must not be lost

containers == <<env, tmp>>
imageVars  == <<images, backup>>
taskVars   == <<pc, quick, tag, nextTag>>
writeVars  == <<nextWrite, counted>>
vars == <<containers, imageVars, taskVars, plan, writeVars>>

\* managed: it bears the label manager=easytidy.
Container == [state : {"none", "created", "running", "stopped"}, managed : BOOLEAN,
              data : SUBSET Writes, image : Tags \cup {0}]
None == [state |-> "none", managed |-> FALSE, data |-> {}, image |-> 0]

\* The place of a rebuild that waits for its next request, named for the request.
Place == {"idle", "look", "leftover", "running", "stop", "tag", "endpoint", "confirmed",
          "commit", "create", "start", "confirm", "remove", "undo", "restore", "rename",
          "ok", "failed"}

TypeOK ==
    /\ env \in Container /\ tmp \in Container
    /\ images \subseteq Tags
    /\ backup \in [Tags -> SUBSET Writes]
    /\ nextTag \in 1..(MaxTags + 1)
    /\ pc \in [Rebuilders -> Place]
    /\ quick \in [Rebuilders -> BOOLEAN]
    /\ tag \in [Rebuilders -> Tags \cup {0}]
    /\ plan \subseteq Tags
    /\ nextWrite \in 1..(MaxWrites + 1)
    /\ counted \subseteq Writes

\* The environment runs; the name <name>_tmp may be taken by a container of the user's.
Init ==
    /\ env = [state |-> "running", managed |-> TRUE, data |-> {}, image |-> 0]
    /\ tmp \in {None, [None EXCEPT !.state = "stopped"]}
    /\ images = {}
    /\ backup = [t \in Tags |-> {}]
    /\ nextTag = 1
    /\ pc = [r \in Rebuilders |-> "idle"]
    /\ quick = [r \in Rebuilders |-> FALSE]
    /\ tag = [r \in Rebuilders |-> 0]
    /\ plan = {}
    /\ nextWrite = 1
    /\ counted = {}

-----------------------------------------------------------------------------
(* The engine *)

Exists(c) == c.state # "none"
Runs(c)   == c.state = "running"

Started(c) == [c EXCEPT !.state = "running"]
Stopped(c) == IF Runs(c) THEN [c EXCEPT !.state = "stopped"] ELSE c
New(t) == [state |-> "created", managed |-> TRUE, data |-> backup[t], image |-> t]

InUse(t) == env.image = t \/ tmp.image = t

GoTo(r, to) == pc' = [pc EXCEPT ![r] = to]
At(r, from) == pc[r] = from

\* A request was made: it may be reported as failed although it took effect.
Answered(r, ok, failed) == GoTo(r, ok) \/ GoTo(r, failed)

\* The request fails and changes nothing.
Refused(r, failed) ==
    /\ GoTo(r, failed)
    /\ UNCHANGED <<containers, imageVars>>

-----------------------------------------------------------------------------
(* rebuild_with_commit, up to the point where its two ways part *)

Begin(r, q) ==
    /\ At(r, "idle")
    /\ GoTo(r, "look")
    /\ quick' = [quick EXCEPT ![r] = q]
    /\ UNCHANGED <<containers, imageVars, tag, nextTag, plan, writeVars>>

\* Step 0: a leftover of easytidy's under the temporary name is to be removed.
\* Mutant: whatever has the temporary name is taken for a leftover.
LookForTmp_Any(r) ==
    /\ At(r, "look")
    /\ \/ GoTo(r, IF Exists(tmp) THEN "leftover" ELSE "running")
       \/ GoTo(r, "failed")
    /\ UNCHANGED <<containers, imageVars, quick, tag, nextTag, plan, writeVars>>
LookForTmp(r) ==
    /\ At(r, "look")
    /\ \/ GoTo(r, IF tmp.managed THEN "leftover" ELSE "running")
       \/ GoTo(r, "failed")
    /\ UNCHANGED <<containers, imageVars, quick, tag, nextTag, plan, writeVars>>

RemoveLeftover(r) ==
    /\ At(r, "leftover")
    /\ \/ tmp' = None /\ UNCHANGED <<env, imageVars>> /\ Answered(r, "running", "failed")
       \/ Refused(r, "failed")
    /\ UNCHANGED <<quick, tag, nextTag, plan, writeVars>>

\* Step 1: stop the container; that it does not exist is an error.
IsRunning(r) ==
    /\ At(r, "running")
    /\ \/ Exists(env) /\ GoTo(r, IF Runs(env) THEN "stop" ELSE "tag")
       \/ GoTo(r, "failed")
    /\ UNCHANGED <<containers, imageVars, quick, tag, nextTag, plan, writeVars>>

Stop(r) ==
    /\ At(r, "stop")
    /\ \/ env' = Stopped(env) /\ UNCHANGED <<tmp, imageVars>> /\ Answered(r, "tag", "failed")
       \/ Refused(r, "failed")
    /\ UNCHANGED <<quick, tag, nextTag, plan, writeVars>>

\* The image's tag is the time; the slow way connects to libpod, and a failure of
\* that is not rolled back.
TakeTag(r) ==
    /\ At(r, "tag")
    /\ nextTag \in Tags
    /\ tag' = [tag EXCEPT ![r] = nextTag]
    /\ nextTag' = nextTag + 1
    /\ IF quick[r] THEN GoTo(r, "endpoint") ELSE Answered(r, "commit", "failed")
    /\ UNCHANGED <<containers, imageVars, quick, plan, writeVars>>

-----------------------------------------------------------------------------
(* The quick way: the engine's own rebuild, external *)

Committed(t) ==
    /\ images' = images \cup {t}
    /\ backup' = [backup EXCEPT ![t] = env.data]

\* What the endpoint promises (libpod.rs:157-175): it stops, commits, creates,
\* starts, removes and renames; a failure before the removal leaves the old
\* container as it was and the new one, if any, not running; one after it leaves
\* the new one under its temporary name.
Endpoint(r) ==
    /\ At(r, "endpoint")
    /\ \/ /\ Exists(env) /\ ~Exists(tmp)
          /\ Committed(tag[r])
          /\ LET new == [state |-> "running", managed |-> TRUE, data |-> env.data, image |-> tag[r]] IN
             \/ env' = new /\ UNCHANGED tmp /\ Answered(r, "confirmed", "failed")
             \/ env' = None /\ tmp' = new /\ GoTo(r, "failed")
             \/ UNCHANGED env /\ tmp' \in {None, Stopped(new)} /\ GoTo(r, "failed")
       \/ Refused(r, "failed")
    /\ UNCHANGED <<quick, tag, nextTag, plan, writeVars>>

\* start_and_confirm of the new container, whose result is only logged.
Confirmed(r) ==
    /\ At(r, "confirmed")
    /\ GoTo(r, "ok")
    /\ env' = env \/ (Exists(env) /\ env' = Started(env))
    /\ UNCHANGED <<tmp, imageVars, quick, tag, nextTag, plan, writeVars>>

-----------------------------------------------------------------------------
(* The slow way: step by step, with a rollback *)

\* Step 2: the container's layer becomes an image.
Commit(r) ==
    /\ At(r, "commit")
    /\ \/ Exists(env) /\ Committed(tag[r]) /\ UNCHANGED containers /\ Answered(r, "create", "restore")
       \/ Refused(r, "restore")
    /\ UNCHANGED <<quick, tag, nextTag, plan, writeVars>>

\* Step 3: a container of that image under the temporary name.
Create(r) ==
    /\ At(r, "create")
    /\ \/ /\ tag[r] \in images /\ ~Exists(tmp)
          /\ tmp' = New(tag[r])
          /\ UNCHANGED <<env, imageVars>>
          /\ Answered(r, "start", "restore")
       \/ Refused(r, "restore")
    /\ UNCHANGED <<quick, tag, nextTag, plan, writeVars>>

\* Step 4: start it,
Start(r) ==
    /\ At(r, "start")
    /\ \/ /\ Exists(tmp)
          /\ tmp' = Started(tmp)
          /\ UNCHANGED <<env, imageVars>>
          /\ Answered(r, "confirm", "undo")
       \/ Refused(r, "undo")
    /\ UNCHANGED <<quick, tag, nextTag, plan, writeVars>>

\* and wait until it runs and its dock daemon answers.
Confirm(r) ==
    /\ At(r, "confirm")
    /\ \/ Runs(tmp) /\ GoTo(r, "remove")
       \/ GoTo(r, "undo")
    /\ UNCHANGED <<containers, imageVars, quick, tag, nextTag, plan, writeVars>>

\* Step 5: the old container goes; that it is gone already is no error.
RemoveOld(r) ==
    /\ At(r, "remove")
    /\ \/ env' = None /\ UNCHANGED <<tmp, imageVars>> /\ Answered(r, "rename", "undo")
       \/ Refused(r, "undo")
    /\ UNCHANGED <<quick, tag, nextTag, plan, writeVars>>

\* The rollback: the new container goes, whatever comes of it,
Undo(r) ==
    /\ At(r, "undo")
    /\ tmp' \in {None, tmp}
    /\ GoTo(r, "restore")
    /\ UNCHANGED <<env, imageVars, quick, tag, nextTag, plan, writeVars>>

\* and the old one is started again, whatever comes of it, had it run or not.
Restore(r) ==
    /\ At(r, "restore")
    /\ GoTo(r, "failed")
    /\ env' = env \/ (Exists(env) /\ env' = Started(env))
    /\ UNCHANGED <<tmp, imageVars, quick, tag, nextTag, plan, writeVars>>

\* The container under the temporary name takes the environment's name, and what was
\* done in it with it.
TakeName ==
    /\ Exists(tmp) /\ ~Exists(env)
    /\ env' = tmp /\ tmp' = None
    /\ counted' = counted \cup tmp.data
    /\ UNCHANGED <<imageVars, nextWrite>>

\* Step 6: the new container takes the name.
Rename(r) ==
    /\ At(r, "rename")
    /\ \/ TakeName /\ Answered(r, "ok", "failed")
       \/ Refused(r, "failed") /\ UNCHANGED writeVars
    /\ UNCHANGED <<quick, tag, nextTag, plan>>

Return(r) ==
    /\ \E from \in {"ok", "failed"} : At(r, from)
    /\ GoTo(r, "idle")
    /\ UNCHANGED <<containers, imageVars, quick, tag, nextTag, plan, writeVars>>

\* The process that rebuilds is killed.
Crash(r) ==
    /\ pc[r] # "idle"
    /\ GoTo(r, "idle")
    /\ UNCHANGED <<containers, imageVars, quick, tag, nextTag, plan, writeVars>>

-----------------------------------------------------------------------------
(* Clearing backup images away: rebuild_images_cleanup *)

\* Mutant: sorted the other way round, it is the oldest that is kept.
Redundant_KeepsOldest == {t \in images : \E u \in images : u < t}
Redundant == {t \in images : \E u \in images : u > t}

\* List the images and plan to delete all but the newest,
Scan ==
    /\ plan' = Redundant
    /\ UNCHANGED <<containers, imageVars, taskVars, writeVars>>

\* one by one; the engine refuses one that a container is made of.
Delete(t) ==
    /\ t \in plan
    /\ plan' = plan \ {t}
    /\ images' \in {images} \cup (IF InUse(t) THEN {} ELSE {images \ {t}})
    /\ backup' = [backup EXCEPT ![t] = IF t \in images' THEN @ ELSE {}]
    /\ UNCHANGED <<containers, taskVars, writeVars>>

-----------------------------------------------------------------------------
(* The user and the container *)

\* env_start, env_stop, or the container ends by itself.
Touch(e) ==
    /\ env' = e
    /\ UNCHANGED <<tmp, imageVars, taskVars, plan, writeVars>>

UserStart == Exists(env) /\ Touch(Started(env))
EnvStops  == Runs(env) /\ Touch(Stopped(env))
TmpStops  ==
    /\ Runs(tmp)
    /\ tmp' = Stopped(tmp)
    /\ UNCHANGED <<env, imageVars, taskVars, plan, writeVars>>

\* A rebuild has committed the container and may be about to remove it.
Late == \E r \in Rebuilders : pc[r] \in {"create", "start", "confirm", "remove"}

\* What the error of step 6 asks for, by hand: podman rename <name>_tmp <name>.
UserRename ==
    /\ \A r \in Rebuilders : At(r, "idle")
    /\ tmp.managed /\ TakeName
    /\ UNCHANGED <<taskVars, plan>>

\* Work in the environment changes its container.
Write ==
    /\ Runs(env)
    /\ nextWrite \in Writes
    /\ env' = [env EXCEPT !.data = @ \cup {nextWrite}]
    /\ nextWrite' = nextWrite + 1
    /\ counted' = IF Late THEN counted ELSE counted \cup {nextWrite}
    /\ UNCHANGED <<tmp, imageVars, taskVars, plan>>

\* Work in a container that bears the temporary name: a rebuild's new one, or one that
\* a rebuild has left there. It counts from the moment the container takes the name;
\* in one that never does, it goes with it at step 0 of the next rebuild.
WriteInTmp ==
    /\ Runs(tmp)
    /\ nextWrite \in Writes
    /\ tmp' = [tmp EXCEPT !.data = @ \cup {nextWrite}]
    /\ nextWrite' = nextWrite + 1
    /\ UNCHANGED <<env, imageVars, taskVars, plan, counted>>

-----------------------------------------------------------------------------
RebuildStep(r) ==
    \/ LookForTmp(r) \/ RemoveLeftover(r) \/ IsRunning(r) \/ Stop(r) \/ TakeTag(r)
    \/ Endpoint(r) \/ Confirmed(r)
    \/ Commit(r) \/ Create(r) \/ Start(r) \/ Confirm(r) \/ RemoveOld(r) \/ Rename(r)
    \/ Undo(r) \/ Restore(r) \/ Return(r)

Next ==
    \/ \E r \in Rebuilders : RebuildStep(r) \/ Crash(r) \/ \E q \in BOOLEAN : Begin(r, q)
    \/ Scan \/ \E t \in Tags : Delete(t)
    \/ UserStart \/ EnvStops \/ TmpStops \/ UserRename \/ Write \/ WriteInTmp

Spec == Init /\ [][Next]_vars

-----------------------------------------------------------------------------
(* Safety, of one rebuild at a time *)

\* mod.rs:1319: whatever fails, and wherever the process is killed, what was done in
\* the container that bears the environment's name, or in one before it took that name,
\* is in a container or in the image that backs it up. What is done in a container that
\* never takes the name is not counted: the next rebuild deletes it (OnlyCopyIsKept).
NoWriteIsLost ==
    \A w \in counted : w \in env.data \/ w \in tmp.data \/ \E t \in images : w \in backup[t]

\* mod.rs:1524: the old container is removed when the new one is there with all of
\* its content.
OldGoesForNew ==
    [][Exists(env) /\ ~Exists(env') =>
          Exists(tmp') /\ tmp'.managed /\ counted' \subseteq tmp'.data]_vars

\* A rebuild that reports success has put its own image in the environment's place,
\* and nothing is missing from it.
OkMeansReplaced ==
    [][\A r \in Rebuilders : pc'[r] = "ok" /\ pc[r] # "ok" =>
          env'.image = tag[r] /\ counted' \subseteq env'.data]_vars

(* Safety, of any number of them *)

\* mod.rs:1304-1305: a container of the user's that happens to have the temporary
\* name is left alone.
ForeignIsKept ==
    [][Exists(tmp) /\ ~tmp.managed => tmp' = tmp]_vars

\* containers.rs:317-318: however long ago a cleanup listed the images, it never
\* deletes the newest.
NewestBackupStays ==
    [][\A t \in images : (\A u \in images : u <= t) => t \in images']_vars

-----------------------------------------------------------------------------
(* The inductive invariant *)

Last == nextTag - 1

\* An image bears a tag that was given out, and so will the next one.
TagsAreGiven ==
    /\ \A t \in images : t <= Last
    /\ \A r \in Rebuilders : pc[r] \in {"endpoint", "commit"} => tag[r] \in 1..Last

\* A plan holds no image that is the newest.
PlanIsOld == \A t \in plan : \E u \in images : u > t

\* A container of the user's does not run, and nobody is about to touch it.
ForeignIsSafe ==
    Exists(tmp) /\ ~tmp.managed =>
        /\ ~Runs(tmp)
        /\ \A r \in Rebuilders :
               pc[r] \notin {"leftover", "start", "confirm", "remove", "undo", "rename"}

\* For any number of rebuilds at a time.
AnyInv == TypeOK /\ TagsAreGiven /\ PlanIsOld /\ ForeignIsSafe

\* The environment's container holds all of it; if there is none, the last image does,
\* and so does a container left under the temporary name.
EnvHasAll ==
    /\ Exists(env) => env.managed /\ counted \subseteq env.data
    /\ ~Exists(env) => /\ Last \in images /\ counted \subseteq backup[Last]
                      /\ (Exists(tmp) => tmp.managed /\ counted \subseteq tmp.data)

\* Between its stop and the removal a rebuild has its image and its containers.
MidwayHasAll ==
    \A r \in Rebuilders :
        /\ pc[r] \in {"stop", "tag", "endpoint", "commit", "create", "start", "confirm", "remove",
                       "confirmed"} => Exists(env)
        /\ pc[r] \in {"endpoint", "commit", "create", "start", "confirm", "remove", "rename",
                       "confirmed"} => tag[r] = Last
        /\ pc[r] \in {"create", "start", "confirm", "remove"} =>
               tag[r] \in images /\ counted \subseteq backup[tag[r]]
        /\ pc[r] \in {"start", "confirm", "remove", "rename"} =>
               /\ Exists(tmp) /\ tmp.managed
               /\ tmp.image = tag[r] /\ counted \subseteq tmp.data
        /\ pc[r] = "rename" => ~Exists(env)
        /\ pc[r] = "confirmed" => env.image = tag[r]

\* For one rebuild at a time.
IInv == AnyInv /\ EnvHasAll /\ MidwayHasAll

Alone == \A r, s \in Rebuilders : r = s

-----------------------------------------------------------------------------
(* What a comment says and the code does not do *)

\* mod.rs:1360-1361, 1462-1463: when the renaming has failed, the only live copy of
\* the environment bears the temporary name; it is not to be deleted, and the next
\* rebuild is to clean up and go all the way. It deletes that copy and then has
\* nothing to rebuild.
OnlyCopyIsKept ==
    [][\A r \in Rebuilders : pc[r] = "leftover" /\ ~Exists(env) => Exists(tmp')]_vars

=============================================================================

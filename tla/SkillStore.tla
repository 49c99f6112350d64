----------------------------- MODULE SkillStore -----------------------------
(***************************************************************************)
(* The file-system skill store of agent_host.  SkillsService runs every    *)
(* operation that writes under one write lock, on a blocking thread, so    *)
(* there is one operation at a time: the variable op.  Each call to the    *)
(* file system is a step, and the operation or the process may end at any  *)
(* of them.                                                                *)
(*                                                                         *)
(* A directory is the set of its files, a file a path and a text; the      *)
(* version history of a skill is the set of its version files, a number    *)
(* and the directory they keep.                                            *)
(***************************************************************************)
EXTENDS Naturals, FiniteSets, FiniteSetsExt

CONSTANTS
  SkillIds,
  Paths,        \* normalized relative file paths
  Texts,        \* file contents
  Sources,      \* what requests put into a skill
  Shipped,      \* the files of the skill a builtin directory holds
  NoDir, Torn,
  NoOp,
  MaxVersions,  \* bound on version numbers
  MaxFaults     \* bound on failed operations and crashes

Trees == {t \in SUBSET (Paths \X (Texts \cup {Torn})) :
            \A f, g \in t : f[1] = g[1] => f = g}

AllDirs == {NoDir} \cup Trees

Kinds == {"write", "delete", "sync"}
Pcs == {"baseline", "clear", "mkdir", "write", "save", "reply", "drop"}
Operation == [kind : Kinds, k : SkillIds, c : Trees, pc : Pcs, todo : Trees,
              was : AllDirs, past : SUBSET ({Torn} \cup Trees)]

ASSUME SkillStoreAssumption ==
  /\ Sources \cup {Shipped} \subseteq Trees
  /\ NoDir # Torn /\ \A t \in Trees : t # NoDir /\ t # Torn
  /\ NoOp \notin Operation
  /\ MaxVersions \in Nat /\ MaxFaults \in Nat

VARIABLES
  disk,      \* skills_dir: the directory of each skill
  vers,      \* .skill-versions: the version files of each skill by number
  image,     \* the ids under builtin_skills_dir of the installed image
  builtin,   \* SkillsService.builtin_ids
  serving,   \* start-up is over and the routes are served
  op,        \* the holder of the write lock, or the skill start-up copies
  acked,     \* the files of the last acknowledged create or update
  faults

vars == <<disk, vers, image, builtin, serving, op, acked, faults>>

Version == (1..MaxVersions) \X ({Torn} \cup Trees)
Held(h) == {v[2] : v \in h}
next_skill_version_by_count(h) == Cardinality(h) + 1
next_skill_version(h) == Max({0} \cup {v[1] : v \in h}) + 1

TypeOK ==
  /\ disk \in [SkillIds -> AllDirs]
  /\ vers \in [SkillIds -> SUBSET Version]
  /\ image \subseteq SkillIds /\ builtin \subseteq SkillIds
  /\ serving \in BOOLEAN
  /\ op \in {NoOp} \cup Operation
  /\ acked \in [SkillIds -> AllDirs]
  /\ faults \in 0..MaxFaults

\* a directory without history is one that was there before versions were kept
Init ==
  /\ disk \in [SkillIds -> Sources \cup {NoDir}]
  /\ acked = disk
  /\ vers = [k \in SkillIds |-> {}]
  /\ image \in SUBSET SkillIds
  /\ builtin = {} /\ serving = FALSE /\ op = NoOp /\ faults = 0

----------------------------------------------------------------------------
(* The requests.  One that is refused changes nothing.                      *)

Begin(kind, k, c, pc) ==
  op' = [kind |-> kind, k |-> k, c |-> c, pc |-> pc, todo |-> c,
         was |-> disk[k], past |-> Held(vers[k])]

ensure_user_skill_exists(k) == k \notin builtin /\ disk[k] # NoDir
Room(k) == next_skill_version(vers[k]) + 1 <= MaxVersions

create_skill(k, c) ==
  /\ serving /\ op = NoOp
  /\ k \notin builtin /\ disk[k] = NoDir /\ Room(k)
  /\ disk' = [disk EXCEPT ![k] = {}]
  /\ Begin("write", k, c, "write")
  /\ UNCHANGED <<vers, image, builtin, serving, acked, faults>>

update_skill_without_baseline(k, c) ==
  /\ serving /\ op = NoOp
  /\ ensure_user_skill_exists(k) /\ Room(k)
  /\ Torn \notin Held(vers[k])
  /\ Begin("write", k, c, "clear")
  /\ UNCHANGED <<disk, vers, image, builtin, serving, acked, faults>>

\* every version file is read before the first change: one torn file refuses all updates
update_skill(k, c) ==
  /\ serving /\ op = NoOp
  /\ ensure_user_skill_exists(k) /\ Room(k)
  /\ Torn \notin Held(vers[k])
  /\ Begin("write", k, c, IF vers[k] = {} THEN "baseline" ELSE "clear")
  /\ UNCHANGED <<disk, vers, image, builtin, serving, acked, faults>>


rollback_skill_version(k) ==
  \E v \in vers[k] : v[2] # Torn /\ update_skill(k, v[2])

delete_skill(k) ==
  /\ serving /\ op = NoOp
  /\ ensure_user_skill_exists(k)
  /\ Begin("delete", k, {}, "clear")
  /\ acked' = [acked EXCEPT ![k] = NoDir]
  /\ UNCHANGED <<disk, vers, image, builtin, serving, faults>>

----------------------------------------------------------------------------
(* The calls to the file system, in the order the operation makes them.     *)

Goto(pc) == op' = [op EXCEPT !.pc = pc]
Doing(pc) == op # NoOp /\ op.pc = pc
Quiet == UNCHANGED <<image, builtin, serving, acked, faults>>

\* a version file of that number would be overwritten
save_skill_version(k, c) ==
  LET n == next_skill_version(vers[k])
  IN vers' = [vers EXCEPT ![k] = {v \in @ : v[1] # n} \cup {<<n, c>>}]

Baseline ==
  /\ Doing("baseline")
  /\ save_skill_version(op.k, disk[op.k])
  /\ Goto("clear")
  /\ UNCHANGED disk /\ Quiet

AfterClear == IF op.kind = "delete" THEN "drop" ELSE "mkdir"

ClearFile ==
  /\ Doing("clear") /\ disk[op.k] # NoDir
  /\ \E f \in disk[op.k] : disk' = [disk EXCEPT ![op.k] = @ \ {f}]
  /\ UNCHANGED <<vers, op>> /\ Quiet

ClearDir ==
  /\ Doing("clear") /\ (disk[op.k] = NoDir \/ disk[op.k] = {})
  /\ disk' = [disk EXCEPT ![op.k] = NoDir]
  /\ Goto(AfterClear)
  /\ UNCHANGED vers /\ Quiet

MakeDir ==
  /\ Doing("mkdir")
  /\ disk' = [disk EXCEPT ![op.k] = {}]
  /\ Goto("write")
  /\ UNCHANGED vers /\ Quiet

WriteFile ==
  /\ Doing("write")
  /\ \E f \in op.todo :
       /\ disk' = [disk EXCEPT ![op.k] = @ \cup {f}]
       /\ op' = [op EXCEPT !.todo = @ \ {f}]
  /\ UNCHANGED vers /\ Quiet

WriteOver ==
  /\ Doing("write") /\ op.todo = {}
  /\ Goto(IF op.kind = "sync" THEN "drop" ELSE "save")
  /\ UNCHANGED <<disk, vers>> /\ Quiet

SaveVersion ==
  /\ Doing("save")
  /\ save_skill_version(op.k, op.c)
  /\ Goto("reply")
  /\ UNCHANGED disk /\ Quiet

Reply ==
  /\ Doing("reply")
  /\ acked' = [acked EXCEPT ![op.k] = op.c]
  /\ op' = NoOp
  /\ UNCHANGED <<disk, vers, image, builtin, serving, faults>>

DropVersion ==
  /\ Doing("drop")
  /\ \E v \in vers[op.k] : vers' = [vers EXCEPT ![op.k] = @ \ {v}]
  /\ UNCHANGED <<disk, op>> /\ Quiet

DropOver ==
  /\ Doing("drop") /\ vers[op.k] = {}
  /\ builtin' = IF op.kind = "sync" THEN builtin \cup {op.k} ELSE builtin
  /\ op' = NoOp
  /\ UNCHANGED <<disk, vers, image, serving, acked, faults>>

----------------------------------------------------------------------------
(* Start-up.                                                                *)

\* skills of the image are copied one after the other, over what is there
sync_builtin_skills(k) ==
  /\ ~serving /\ op = NoOp
  /\ k \in image \ builtin
  /\ Begin("sync", k, Shipped, "clear")
  /\ acked' = [acked EXCEPT ![k] = NoDir]
  /\ UNCHANGED <<disk, vers, image, builtin, serving, faults>>

Serve ==
  /\ ~serving /\ op = NoOp /\ builtin = image
  /\ serving' = TRUE
  /\ UNCHANGED <<disk, vers, image, builtin, op, acked, faults>>

----------------------------------------------------------------------------
(* A call fails, or the process ends, during any call.                      *)

\* what the call that fails leaves behind: nothing, or a file cut short
CutShort ==
  \/ UNCHANGED <<disk, vers>>
  \/ /\ op # NoOp /\ op.pc \in {"baseline", "save"}
     /\ save_skill_version(op.k, Torn)
     /\ UNCHANGED disk
  \/ /\ op # NoOp /\ op.pc = "write"
     /\ \E f \in op.todo : disk' = [disk EXCEPT ![op.k] = @ \cup {<<f[1], Torn>>}]
     /\ UNCHANGED vers

Fail ==
  /\ faults < MaxFaults /\ op # NoOp /\ op.kind # "sync"
  /\ CutShort
  /\ faults' = faults + 1 /\ op' = NoOp
  /\ UNCHANGED <<image, builtin, serving, acked>>

\* the process comes back from an image that may ship other skills
Crash ==
  /\ faults < MaxFaults
  /\ CutShort
  /\ faults' = faults + 1 /\ op' = NoOp
  /\ image' \in SUBSET SkillIds
  /\ builtin' = {} /\ serving' = FALSE
  /\ UNCHANGED acked

----------------------------------------------------------------------------
Routes ==
  \E k \in SkillIds :
    \/ \E c \in Sources : create_skill(k, c) \/ update_skill(k, c)
    \/ rollback_skill_version(k)
    \/ delete_skill(k)

Steps ==
  \/ Baseline \/ ClearFile \/ ClearDir \/ MakeDir \/ WriteFile \/ WriteOver
  \/ SaveVersion \/ Reply \/ DropVersion \/ DropOver

Startup == Serve \/ \E k \in SkillIds : sync_builtin_skills(k)

Next == Routes \/ Steps \/ Startup \/ Fail \/ Crash

Spec == Init /\ [][Next]_vars

----------------------------------------------------------------------------
(* The store keeps what the routes promise: an operation takes effect when  *)
(* it replies, fails or is cut off by the end of the process.               *)

ShelfSeen == [k \in SkillIds |-> IF op # NoOp /\ op.k = k THEN op.was ELSE disk[k]]
PastSeen == [k \in SkillIds |-> IF op # NoOp /\ op.k = k THEN op.past ELSE Held(vers[k])]

Promised == INSTANCE SkillHost
              WITH Dirs <- AllDirs, shelf <- ShelfSeen, past <- PastSeen

(* Every state change of the store, failed calls and crashes included, is   *)
(* one that SkillHost allows: SkillsService implements its routes.          *)
ImplementsSkillHost == Promised!HostSpec

(* Once create_skill or update_skill has answered, the files it was given   *)
(* are on disk or in the version history until the skill is deleted or a    *)
(* builtin takes its id, whatever operation is under way or was cut off.    *)
AckedRecoverable ==
  \A k \in SkillIds :
    acked[k] # NoDir => disk[k] = acked[k] \/ acked[k] \in Held(vers[k])
=============================================================================

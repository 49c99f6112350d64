------------------------- MODULE SkillStore_proofs -------------------------
(***************************************************************************)
(* Proofs about SkillStore: what an acknowledged write put into a skill    *)
(* can always be recovered, and the store implements SkillHost.            *)
(***************************************************************************)
EXTENDS SkillStore, WellFoundedInduction, TLAPS

----------------------------------------------------------------------------
(* The inductive invariant.                                                *)

\* the versions a write keeps besides its own: what a skill without history held
\* is saved before it is touched
Kept == op.past \cup (IF op.past = {} /\ op.was # NoDir THEN {op.was} ELSE {})

\* the history of a skill that is written, and that an update is not begun when
\* a version file is torn
WriteInv ==
  op # NoOp /\ op.kind = "write" =>
    /\ op.pc \in {"baseline", "clear", "mkdir", "write", "save", "reply"}
    /\ op.was # NoDir => Torn \notin op.past
    /\ op.pc = "baseline" => /\ vers[op.k] = {} /\ op.past = {}
                             /\ op.was # NoDir /\ disk[op.k] = op.was
    /\ op.pc \in {"clear", "mkdir", "write", "save"} => Held(vers[op.k]) = Kept
    /\ op.pc = "reply" => Held(vers[op.k]) = Kept \cup {op.c}

\* what was acknowledged is in the history before the directory is cleared
SafeInv ==
  op # NoOp /\ op.kind = "write" /\ op.pc # "baseline" =>
    acked[op.k] = NoDir \/ acked[op.k] \in Held(vers[op.k])

\* there are numbers for the versions an operation still saves
RoomInv ==
  op # NoOp /\ op.kind = "write" =>
    /\ op.pc = "baseline" => 2 <= MaxVersions
    /\ op.pc \in {"clear", "mkdir", "write", "save"} => next_skill_version(vers[op.k]) <= MaxVersions

\* a directory that is written holds the files that are done
FilesInv ==
  op # NoOp =>
    /\ op.todo \subseteq op.c
    /\ op.pc \in {"baseline", "clear", "mkdir"} => op.todo = op.c
    /\ op.pc = "write" => disk[op.k] = op.c \ op.todo
    /\ op.pc \in {"save", "reply"} => disk[op.k] = op.c

DeleteInv ==
  op # NoOp /\ op.kind = "delete" =>
    /\ op.pc \in {"clear", "drop"} /\ op.was # NoDir /\ acked[op.k] = NoDir
    /\ op.pc = "clear" => Held(vers[op.k]) = op.past
    /\ op.pc = "drop" => disk[op.k] = NoDir /\ Held(vers[op.k]) \subseteq op.past

SyncInv ==
  op # NoOp /\ op.kind = "sync" =>
    /\ op.pc \in {"clear", "mkdir", "write", "drop"} /\ acked[op.k] = NoDir
    /\ Held(vers[op.k]) \subseteq op.past

\* acknowledged files that no version holds are on disk, and the next update saves
\* them first or is refused
AckedInv ==
  \A k \in SkillIds :
    acked[k] # NoDir /\ acked[k] \notin Held(vers[k]) =>
      disk[k] = acked[k] /\ (vers[k] = {} \/ Torn \in Held(vers[k]))

IndInv ==
  /\ TypeOK
  /\ WriteInv /\ SafeInv /\ RoomInv /\ FilesInv /\ DeleteInv /\ SyncInv /\ AckedInv

----------------------------------------------------------------------------
(* Facts about trees, versions and their numbers.                          *)

LEMMA LeastNumber ==
  ASSUME NEW T \in SUBSET Nat, T # {}
  PROVE  \E m \in T : \A y \in T : m <= y
<1> DEFINE R == {ss \in Nat \X Nat : ss[1] < ss[2]}
<1>1. IsWellFoundedOn(R, Nat)
  BY NatLessThanWellFounded, Zenon DEF OpToRel
<1>2. PICK m \in T : \A y \in T : ~ (<<y, m>> \in R)
  <2> HIDE DEF R
  <2> QED BY <1>1, WFMin
<1>3. ASSUME NEW y \in T PROVE m <= y
  <2>1. ~ (y < m)
    BY <1>2
  <2> QED
    BY <2>1
<1> QED
  BY <1>3

LEMMA Greatest ==
  ASSUME NEW N \in Nat, NEW S \in SUBSET (0..N), S # {}
  PROVE  \E x \in S : \A y \in S : x >= y
<1> DEFINE T == {N - x : x \in S}
<1>1. T \in SUBSET Nat /\ T # {}
  <2>1. PICK x \in S : TRUE
    OBVIOUS
  <2>2. N - x \in T
    OBVIOUS
  <2>3. ASSUME NEW t \in T PROVE t \in Nat
    <3>1. PICK y \in S : t = N - y
      BY <2>3
    <3> QED BY <3>1
  <2> QED BY <2>2, <2>3
<1>2. PICK m \in T : \A y \in T : m <= y
  <2> HIDE DEF T
  <2> QED BY <1>1, LeastNumber
<1>3. PICK x \in S : m = N - x
  BY <1>2
<1>4. ASSUME NEW y \in S PROVE x >= y
  <2>1. m <= N - y
    BY <1>2
  <2> QED BY <2>1, <1>3
<1> QED
  BY <1>4

\* the next number is greater than every number in use
LEMMA NextVersion ==
  ASSUME NEW h \in SUBSET Version
  PROVE  /\ next_skill_version(h) \in 1..(MaxVersions + 1)
         /\ \A v \in h : v[1] < next_skill_version(h)
         /\ h # {} => \E v \in h : next_skill_version(h) = v[1] + 1
         /\ h = {} => next_skill_version(h) = 1
<1> DEFINE S == {0} \cup {v[1] : v \in h}
<1>1. S \in SUBSET (0..MaxVersions) /\ S # {}
  BY SkillStoreAssumption DEF Version
<1>2. \E x \in S : \A y \in S : x >= y
  <2> HIDE DEF S
  <2> QED BY <1>1, Greatest, SkillStoreAssumption
<1>3. Max(S) \in S /\ \A y \in S : Max(S) >= y
  <2> HIDE DEF S
  <2> QED BY <1>2 DEF Max
<1>4. next_skill_version(h) = Max(S) + 1
  BY DEF next_skill_version
<1>5. Max(S) \in 0..MaxVersions
  BY <1>1, <1>3
<1>6. \A v \in h : v[1] \in 1..MaxVersions /\ v[1] \in S
  BY DEF Version
<1>7. ASSUME NEW v \in h PROVE v[1] < next_skill_version(h)
  <2> HIDE DEF S
  <2> QED BY <1>3, <1>4, <1>5, <1>6
<1>8. ASSUME h # {} PROVE \E v \in h : next_skill_version(h) = v[1] + 1
  <2>1. PICK w \in h : TRUE
    BY <1>8
  <2>2. Max(S) # 0
    <3> HIDE DEF S
    <3> QED BY <2>1, <1>3, <1>5, <1>6
  <2> QED
    BY <2>2, <1>3, <1>4
<1>9. ASSUME h = {} PROVE next_skill_version(h) = 1
  BY <1>9, <1>3, <1>4
<1>10. next_skill_version(h) \in 1..(MaxVersions + 1)
  <2> HIDE DEF S
  <2> QED BY <1>4, <1>5, SkillStoreAssumption
<1> QED
  BY <1>7, <1>8, <1>9, <1>10

LEMMA TreeFacts ==
  /\ {} \in Trees
  /\ \A t \in Trees : \A s \in SUBSET t : s \in Trees
  /\ NoDir \notin Trees /\ Torn \notin Trees
BY SkillStoreAssumption DEF Trees

\* a file that is cut short leaves a tree
LEMMA CutTree ==
  ASSUME NEW c \in Trees, NEW todo \in SUBSET c, NEW f \in todo
  PROVE  /\ (c \ todo) \cup {f} \in Trees
         /\ (c \ todo) \cup {f} = c \ (todo \ {f})
         /\ (c \ todo) \cup {<<f[1], Torn>>} \in Trees
<1>1. f \in Paths \X (Texts \cup {Torn}) /\ <<f[1], Torn>> \in Paths \X (Texts \cup {Torn})
  BY DEF Trees
<1>2. \A g \in c \ todo : g[1] # f[1]
  BY DEF Trees
<1> QED
  BY <1>1, <1>2 DEF Trees

LEMMA HeldType ==
  ASSUME NEW h \in SUBSET Version
  PROVE  /\ Held(h) \subseteq {Torn} \cup Trees
         /\ h = {} <=> Held(h) = {}
         /\ \A v \in h : Held(h \ {v}) \subseteq Held(h)
<1>1. \A v \in h : v[2] \in {Torn} \cup Trees /\ v[2] \in Held(h)
  BY DEF Held, Version
<1>2. \A v \in h : Held(h \ {v}) \subseteq Held(h)
  BY DEF Held
<1> QED
  BY <1>1, <1>2 DEF Held

\* a version is added to the history, none is overwritten
LEMMA SaveFacts ==
  ASSUME TypeOK, NEW k \in SkillIds, NEW c \in {Torn} \cup Trees,
         next_skill_version(vers[k]) <= MaxVersions, save_skill_version(k, c)
  PROVE  /\ vers' \in [SkillIds -> SUBSET Version]
         /\ Held(vers'[k]) = Held(vers[k]) \cup {c}
         /\ next_skill_version(vers'[k]) = next_skill_version(vers[k]) + 1
         /\ \A j \in SkillIds \ {k} : vers'[j] = vers[j]
<1> DEFINE n == next_skill_version(vers[k])
           h == vers[k] \cup {<<n, c>>}
<1>1. vers \in [SkillIds -> SUBSET Version] /\ vers[k] \in SUBSET Version
  BY DEF TypeOK
<1>2. n \in 1..MaxVersions /\ \A v \in vers[k] : v[1] < n
  BY <1>1, NextVersion, SkillStoreAssumption
<1>3. \A v \in vers[k] : v[1] \in Nat
  BY <1>1 DEF Version
<1>4. {v \in vers[k] : v[1] # n} = vers[k]
  BY <1>2, <1>3
<1>5. vers' = [vers EXCEPT ![k] = h]
  BY <1>4 DEF save_skill_version
<1>6. <<n, c>> \in Version
  BY <1>2 DEF Version
<1>7. h \in SUBSET Version /\ h # {}
  BY <1>1, <1>6
<1>8. vers' \in [SkillIds -> SUBSET Version] /\ vers'[k] = h
      /\ \A j \in SkillIds \ {k} : vers'[j] = vers[j]
  <2> HIDE DEF h
  <2> QED BY <1>1, <1>5, <1>7
<1>9. Held(h) = Held(vers[k]) \cup {c}
  <2>1. ASSUME NEW x \in Held(h) PROVE x \in Held(vers[k]) \cup {c}
    <3>1. PICK v \in h : x = v[2]
      BY DEF Held
    <3> QED BY <3>1 DEF Held
  <2>2. ASSUME NEW x \in Held(vers[k]) \cup {c} PROVE x \in Held(h)
    <3>1. CASE x = c
      <4>1. <<n, c>> \in h /\ <<n, c>>[2] = c
        OBVIOUS
      <4> QED BY <3>1, <4>1 DEF Held
    <3>2. CASE x \in Held(vers[k])
      BY <3>2 DEF Held
    <3> QED BY <3>1, <3>2
  <2> QED BY <2>1, <2>2
<1>10. next_skill_version(h) = n + 1
  <2>1. /\ \A v \in h : v[1] < next_skill_version(h)
        /\ \E v \in h : next_skill_version(h) = v[1] + 1
        /\ next_skill_version(h) \in Nat
    <3> HIDE DEF h
    <3> QED BY <1>7, NextVersion, SkillStoreAssumption
  <2>2. <<n, c>> \in h /\ <<n, c>>[1] = n
    OBVIOUS
  <2>3. n < next_skill_version(h)
    <3> HIDE DEF h, n
    <3> QED BY <2>1, <2>2
  <2>4. PICK v \in h : next_skill_version(h) = v[1] + 1
    BY <2>1
  <2>5. v[1] <= n /\ v[1] \in Nat
    BY <1>2, <1>3
  <2> HIDE DEF h, n
  <2> QED BY <1>2, <2>1, <2>3, <2>4, <2>5
<1> QED
  BY <1>8, <1>9, <1>10

----------------------------------------------------------------------------
(* The steps keep the invariant.                                           *)

LEMMA OpType ==
  ASSUME TypeOK, op # NoOp
  PROVE  /\ op \in Operation /\ op.k \in SkillIds /\ op.c \in Trees /\ op.todo \in Trees
         /\ op.was \in AllDirs /\ op.past \subseteq {Torn} \cup Trees
         /\ disk[op.k] \in AllDirs /\ vers[op.k] \in SUBSET Version
BY DEF TypeOK, Operation

LEMMA BeginType ==
  ASSUME TypeOK, NEW kind \in Kinds, NEW k \in SkillIds, NEW c \in Trees, NEW pc \in Pcs,
         Begin(kind, k, c, pc)
  PROVE  /\ op' \in Operation /\ op' # NoOp
         /\ op'.kind = kind /\ op'.k = k /\ op'.c = c /\ op'.pc = pc /\ op'.todo = c
         /\ op'.was = disk[k] /\ op'.past = Held(vers[k])
         /\ Held(vers[k]) = {} <=> vers[k] = {}
<1>1. vers[k] \in SUBSET Version /\ disk[k] \in AllDirs
  BY DEF TypeOK
<1>2. Held(vers[k]) \subseteq {Torn} \cup Trees /\ (Held(vers[k]) = {} <=> vers[k] = {})
  BY <1>1, HeldType
<1>3. op' \in Operation
  BY <1>1, <1>2 DEF Begin, Operation
<1> QED
  BY <1>2, <1>3, SkillStoreAssumption DEF Begin

\* once its directory may change, what is acknowledged of the skill is in a version
LEMMA OpSafe ==
  ASSUME IndInv, op # NoOp, op.pc # "baseline"
  PROVE  acked[op.k] = NoDir \/ acked[op.k] \in Held(vers[op.k])
BY OpType DEF IndInv, Operation, Kinds, SafeInv, DeleteInv, SyncInv

LEMMA DiskStep ==
  ASSUME IndInv, op # NoOp, op.pc # "baseline", vers' = vers, acked' = acked,
         \A j \in SkillIds \ {op.k} : disk'[j] = disk[j]
  PROVE  AckedInv'
<1>1. ASSUME NEW j \in SkillIds, acked[j] # NoDir, acked[j] \notin Held(vers[j]) PROVE j # op.k
  BY <1>1, OpSafe
<1> QED
  BY <1>1 DEF IndInv, AckedInv

LEMMA SaveStep ==
  ASSUME IndInv, op # NoOp, op.kind = "write", op.pc \in {"baseline", "save"},
         NEW c \in {Torn} \cup Trees, save_skill_version(op.k, c)
  PROVE  /\ vers' \in [SkillIds -> SUBSET Version]
         /\ Held(vers'[op.k]) = Held(vers[op.k]) \cup {c}
         /\ next_skill_version(vers'[op.k]) = next_skill_version(vers[op.k]) + 1
         /\ \A j \in SkillIds \ {op.k} : vers'[j] = vers[j]
<1>1. op.k \in SkillIds /\ vers[op.k] \in SUBSET Version
  BY OpType DEF IndInv
<1>2. next_skill_version(vers[op.k]) <= MaxVersions
  BY <1>1, NextVersion, SkillStoreAssumption DEF IndInv, RoomInv, WriteInv
<1> QED
  BY <1>1, <1>2, SaveFacts DEF IndInv

LEMMA CutShortKeeps ==
  ASSUME IndInv, CutShort, acked' = acked
  PROVE  /\ disk' \in [SkillIds -> AllDirs]
         /\ vers' \in [SkillIds -> SUBSET Version]
         /\ AckedInv'
<1>1. CASE UNCHANGED <<disk, vers>>
  BY <1>1 DEF IndInv, TypeOK, AckedInv
<1>2. CASE op # NoOp /\ op.pc \in {"baseline", "save"} /\ save_skill_version(op.k, Torn)
           /\ UNCHANGED disk
  <2>1. op.kind = "write"
    BY <1>2, OpType DEF IndInv, Operation, Kinds, DeleteInv, SyncInv
  <2>2. /\ vers' \in [SkillIds -> SUBSET Version]
        /\ Held(vers'[op.k]) = Held(vers[op.k]) \cup {Torn}
        /\ \A j \in SkillIds \ {op.k} : vers'[j] = vers[j]
    BY <1>2, <2>1, SaveStep
  <2>3. AckedInv'
    BY <1>2, <2>2 DEF IndInv, AckedInv
  <2> QED
    BY <1>2, <2>2, <2>3 DEF IndInv, TypeOK
<1>3. CASE /\ op # NoOp /\ op.pc = "write"
           /\ \E f \in op.todo : disk' = [disk EXCEPT ![op.k] = @ \cup {<<f[1], Torn>>}]
           /\ UNCHANGED vers
  <2>1. PICK f \in op.todo : disk' = [disk EXCEPT ![op.k] = @ \cup {<<f[1], Torn>>}]
    BY <1>3
  <2>2. disk[op.k] \cup {<<f[1], Torn>>} \in Trees
    <3>1. op.c \in Trees /\ op.todo \in SUBSET op.c /\ disk[op.k] = op.c \ op.todo
      BY <1>3, OpType DEF IndInv, FilesInv
    <3> QED
      BY <3>1, CutTree
  <2>3. AckedInv'
    BY <1>3, <2>1, DiskStep DEF IndInv, TypeOK
  <2> QED
    BY <1>3, <2>1, <2>2, <2>3 DEF IndInv, TypeOK, AllDirs
<1> QED
  BY <1>1, <1>2, <1>3 DEF CutShort

LEMMA create_skillKeeps ==
  ASSUME IndInv, NEW k \in SkillIds, NEW c \in Sources, create_skill(k, c)
  PROVE  IndInv'
<1>1. /\ op' \in Operation /\ op' # NoOp
      /\ op'.kind = "write" /\ op'.k = k /\ op'.c = c /\ op'.pc = "write" /\ op'.todo = c
      /\ op'.was = NoDir /\ op'.past = Held(vers[k])
  BY BeginType, SkillStoreAssumption DEF create_skill, IndInv, Kinds, Pcs
<1>2. next_skill_version(vers[k]) \in Nat
  BY NextVersion, SkillStoreAssumption DEF IndInv, TypeOK
<1>3. TypeOK'
  BY <1>1, <1>2, SkillStoreAssumption, TreeFacts DEF create_skill, Begin, Room, IndInv, TypeOK, Operation, Kinds, Pcs, AllDirs, FilesInv
<1>4. WriteInv'
  BY <1>1, <1>2 DEF create_skill, Room, IndInv, WriteInv, SafeInv, AckedInv, Kept, TypeOK
<1>5. SafeInv'
  BY <1>1, <1>2 DEF create_skill, Room, IndInv, SafeInv, WriteInv, AckedInv, Kept, TypeOK
<1>6. RoomInv'
  BY <1>1, <1>2, SkillStoreAssumption DEF create_skill, Room, IndInv, RoomInv, WriteInv, SafeInv, AckedInv, Kept, TypeOK
<1>7. FilesInv'
  BY <1>1, <1>2 DEF create_skill, Room, IndInv, FilesInv, TypeOK
<1>8. DeleteInv'
  BY <1>1, <1>2 DEF create_skill, Room, IndInv, DeleteInv, TypeOK
<1>9. SyncInv'
  BY <1>1, <1>2 DEF create_skill, Room, IndInv, SyncInv, TypeOK
<1>10. AckedInv'
  BY <1>1, <1>2 DEF create_skill, Room, IndInv, AckedInv, WriteInv, SafeInv, Kept, TypeOK
<1> QED
  BY <1>3, <1>4, <1>5, <1>6, <1>7, <1>8, <1>9, <1>10 DEF IndInv

LEMMA update_skillKeeps ==
  ASSUME IndInv, NEW k \in SkillIds, NEW c \in Trees, update_skill(k, c)
  PROVE  IndInv'
<1>1. PICK pc \in Pcs : Begin("write", k, c, pc) /\ pc = IF vers[k] = {} THEN "baseline" ELSE "clear"
  BY DEF update_skill, Pcs
<1>2. /\ op' \in Operation /\ op' # NoOp
      /\ op'.kind = "write" /\ op'.k = k /\ op'.c = c /\ op'.todo = c /\ op'.pc = pc
      /\ op'.was = disk[k] /\ op'.past = Held(vers[k])
      /\ Held(vers[k]) = {} <=> vers[k] = {}
  BY <1>1, BeginType DEF IndInv, Kinds
<1>3. pc = IF vers[k] = {} THEN "baseline" ELSE "clear"
  BY <1>1
<1>4. /\ next_skill_version(vers[k]) \in Nat
      /\ vers[k] = {} => next_skill_version(vers[k]) = 1
  BY NextVersion, SkillStoreAssumption DEF IndInv, TypeOK
<1>5. /\ disk[k] # NoDir /\ next_skill_version(vers[k]) + 1 <= MaxVersions /\ Torn \notin Held(vers[k])
      /\ UNCHANGED <<disk, vers, image, builtin, serving, acked, faults>>
  BY DEF update_skill, ensure_user_skill_exists, Room
<1>6. TypeOK'
  BY <1>2, <1>3, <1>4, <1>5, SkillStoreAssumption, TreeFacts DEF IndInv, TypeOK, Operation, Kinds, Pcs, AllDirs, FilesInv
<1>7. WriteInv'
  BY <1>2, <1>3, <1>4, <1>5 DEF IndInv, WriteInv, SafeInv, AckedInv, Kept, TypeOK
<1>8. SafeInv'
  BY <1>2, <1>3, <1>4, <1>5 DEF IndInv, SafeInv, WriteInv, AckedInv, Kept, TypeOK
<1>9. RoomInv'
  BY <1>2, <1>3, <1>4, <1>5, SkillStoreAssumption DEF IndInv, RoomInv, WriteInv, SafeInv, AckedInv, Kept, TypeOK
<1>10. FilesInv'
  BY <1>2, <1>3, <1>4, <1>5 DEF IndInv, FilesInv, TypeOK
<1>11. DeleteInv'
  BY <1>2, <1>3, <1>4, <1>5 DEF IndInv, DeleteInv, TypeOK
<1>12. SyncInv'
  BY <1>2, <1>3, <1>4, <1>5 DEF IndInv, SyncInv, TypeOK
<1>13. AckedInv'
  BY <1>2, <1>3, <1>4, <1>5 DEF IndInv, AckedInv, WriteInv, SafeInv, Kept, TypeOK
<1> QED
  BY <1>6, <1>7, <1>8, <1>9, <1>10, <1>11, <1>12, <1>13 DEF IndInv

LEMMA delete_skillKeeps ==
  ASSUME IndInv, NEW k \in SkillIds, delete_skill(k)
  PROVE  IndInv'
<1>1. /\ op' \in Operation /\ op' # NoOp
      /\ op'.kind = "delete" /\ op'.k = k /\ op'.c = {} /\ op'.pc = "clear" /\ op'.todo = {}
      /\ op'.was = disk[k] /\ op'.past = Held(vers[k])
  BY BeginType, TreeFacts DEF delete_skill, IndInv, Kinds, Pcs
<1>2. TypeOK'
  BY <1>1, SkillStoreAssumption, TreeFacts DEF delete_skill, Begin, ensure_user_skill_exists, IndInv, TypeOK, Operation, Kinds, Pcs, AllDirs, FilesInv
<1>3. WriteInv'
  BY <1>1 DEF delete_skill, ensure_user_skill_exists, IndInv, WriteInv, SafeInv, AckedInv, Kept, TypeOK
<1>4. SafeInv'
  BY <1>1 DEF delete_skill, ensure_user_skill_exists, IndInv, SafeInv, WriteInv, AckedInv, Kept, TypeOK
<1>5. RoomInv'
  BY <1>1, SkillStoreAssumption DEF delete_skill, ensure_user_skill_exists, IndInv, RoomInv, WriteInv, SafeInv, AckedInv, Kept, TypeOK
<1>6. FilesInv'
  BY <1>1 DEF delete_skill, ensure_user_skill_exists, IndInv, FilesInv, TypeOK
<1>7. DeleteInv'
  BY <1>1 DEF delete_skill, ensure_user_skill_exists, IndInv, DeleteInv, TypeOK
<1>8. SyncInv'
  BY <1>1 DEF delete_skill, ensure_user_skill_exists, IndInv, SyncInv, TypeOK
<1>9. AckedInv'
  BY <1>1 DEF delete_skill, ensure_user_skill_exists, IndInv, AckedInv, WriteInv, SafeInv, Kept, TypeOK
<1> QED
  BY <1>2, <1>3, <1>4, <1>5, <1>6, <1>7, <1>8, <1>9 DEF IndInv

LEMMA sync_builtin_skillsKeeps ==
  ASSUME IndInv, NEW k \in SkillIds, sync_builtin_skills(k)
  PROVE  IndInv'
<1>1. /\ op' \in Operation /\ op' # NoOp
      /\ op'.kind = "sync" /\ op'.k = k /\ op'.c = Shipped /\ op'.pc = "clear" /\ op'.todo = Shipped
      /\ op'.was = disk[k] /\ op'.past = Held(vers[k])
  BY BeginType, SkillStoreAssumption DEF sync_builtin_skills, IndInv, Kinds, Pcs
<1>2. TypeOK'
  BY <1>1, SkillStoreAssumption, TreeFacts DEF sync_builtin_skills, Begin, IndInv, TypeOK, Operation, Kinds, Pcs, AllDirs, FilesInv
<1>3. WriteInv'
  BY <1>1 DEF sync_builtin_skills, IndInv, WriteInv, SafeInv, AckedInv, Kept, TypeOK
<1>4. SafeInv'
  BY <1>1 DEF sync_builtin_skills, IndInv, SafeInv, WriteInv, AckedInv, Kept, TypeOK
<1>5. RoomInv'
  BY <1>1, SkillStoreAssumption DEF sync_builtin_skills, IndInv, RoomInv, WriteInv, SafeInv, AckedInv, Kept, TypeOK
<1>6. FilesInv'
  BY <1>1 DEF sync_builtin_skills, IndInv, FilesInv, TypeOK
<1>7. DeleteInv'
  BY <1>1 DEF sync_builtin_skills, IndInv, DeleteInv, TypeOK
<1>8. SyncInv'
  BY <1>1 DEF sync_builtin_skills, IndInv, SyncInv, TypeOK
<1>9. AckedInv'
  BY <1>1 DEF sync_builtin_skills, IndInv, AckedInv, WriteInv, SafeInv, Kept, TypeOK
<1> QED
  BY <1>2, <1>3, <1>4, <1>5, <1>6, <1>7, <1>8, <1>9 DEF IndInv

LEMMA BaselineKeeps ==
  ASSUME IndInv, Baseline
  PROVE  IndInv'
<1>1. /\ op \in Operation /\ op.k \in SkillIds /\ op.c \in Trees
      /\ disk[op.k] \in AllDirs /\ vers[op.k] \in SUBSET Version
  BY OpType DEF Baseline, Doing, IndInv
<1>2. op.kind = "write"
  BY <1>1 DEF Baseline, Doing, IndInv, Operation, Kinds, DeleteInv, SyncInv
<1>3. /\ vers' \in [SkillIds -> SUBSET Version]
      /\ Held(vers'[op.k]) = Held(vers[op.k]) \cup {disk[op.k]}
      /\ next_skill_version(vers'[op.k]) = next_skill_version(vers[op.k]) + 1
      /\ \A j \in SkillIds \ {op.k} : vers'[j] = vers[j]
  BY <1>1, <1>2, SaveStep DEF Baseline, Doing, IndInv, WriteInv, AllDirs
<1>4. /\ vers[op.k] = {} /\ op.past = {} /\ op.was = disk[op.k] /\ op.was # NoDir /\ 2 <= MaxVersions
      /\ Held(vers[op.k]) = {} /\ next_skill_version(vers[op.k]) = 1
  BY <1>1, <1>2, HeldType, NextVersion DEF Baseline, Doing, IndInv, WriteInv, RoomInv
<1>5. /\ op' \in Operation /\ op'.pc = "clear" /\ op'.kind = "write" /\ op'.k = op.k /\ op'.was = op.was /\ op'.past = {}
  BY <1>1, <1>2, <1>4 DEF Baseline, Goto, Operation, Pcs
<1>6. TypeOK'
  BY <1>1, <1>2, <1>3, <1>4, <1>5, SkillStoreAssumption, TreeFacts DEF Baseline, Doing, Quiet, IndInv, TypeOK, Operation, Kinds, Pcs, AllDirs, FilesInv
<1>7. WriteInv'
  BY <1>1, <1>2, <1>3, <1>4, <1>5 DEF Baseline, Doing, Quiet, IndInv, TypeOK, Operation, Kinds, Pcs, AllDirs, WriteInv, SafeInv, AckedInv, Kept
<1>8. SafeInv'
  BY <1>1, <1>2, <1>3, <1>4, <1>5 DEF Baseline, Doing, Quiet, IndInv, TypeOK, Operation, Kinds, Pcs, AllDirs, SafeInv, WriteInv, AckedInv, Kept
<1>9. RoomInv'
  BY <1>1, <1>2, <1>3, <1>4, <1>5 DEF Baseline, Doing, Quiet, IndInv, TypeOK, Operation, Kinds, Pcs, AllDirs, RoomInv, WriteInv, SafeInv, AckedInv, Kept
<1>10. FilesInv'
  BY <1>1, <1>2, <1>3, <1>4, <1>5 DEF Baseline, Doing, Goto, Quiet, IndInv, TypeOK, Operation, Kinds, Pcs, AllDirs, FilesInv
<1>11. DeleteInv'
  BY <1>1, <1>2, <1>3, <1>4, <1>5 DEF Baseline, Doing, Quiet, IndInv, TypeOK, Operation, Kinds, Pcs, AllDirs, DeleteInv
<1>12. SyncInv'
  BY <1>1, <1>2, <1>3, <1>4, <1>5 DEF Baseline, Doing, Quiet, IndInv, TypeOK, Operation, Kinds, Pcs, AllDirs, SyncInv
<1>13. AckedInv'
  BY <1>1, <1>2, <1>3, <1>4, <1>5 DEF Baseline, Doing, Quiet, IndInv, TypeOK, Operation, Kinds, Pcs, AllDirs, AckedInv, WriteInv, SafeInv, Kept
<1> QED
  BY <1>6, <1>7, <1>8, <1>9, <1>10, <1>11, <1>12, <1>13 DEF IndInv

LEMMA ClearFileKeeps ==
  ASSUME IndInv, ClearFile
  PROVE  IndInv'
<1>1. /\ op \in Operation /\ op.k \in SkillIds /\ op.c \in Trees
      /\ disk[op.k] \in AllDirs /\ vers[op.k] \in SUBSET Version
  BY OpType DEF ClearFile, Doing, IndInv
<1>2. TypeOK'
  BY <1>1, SkillStoreAssumption, TreeFacts DEF ClearFile, Doing, Quiet, IndInv, TypeOK, Operation, Kinds, Pcs, AllDirs, FilesInv
<1>3. WriteInv'
  BY <1>1 DEF ClearFile, Doing, Quiet, IndInv, TypeOK, Operation, Kinds, Pcs, AllDirs, WriteInv, SafeInv, AckedInv, Kept
<1>4. SafeInv'
  BY <1>1 DEF ClearFile, Doing, Quiet, IndInv, TypeOK, Operation, Kinds, Pcs, AllDirs, SafeInv, WriteInv, AckedInv, Kept
<1>5. RoomInv'
  BY <1>1 DEF ClearFile, Doing, Quiet, IndInv, TypeOK, Operation, Kinds, Pcs, AllDirs, RoomInv, WriteInv, SafeInv, AckedInv, Kept
<1>6. FilesInv'
  BY <1>1 DEF ClearFile, Doing, Quiet, IndInv, TypeOK, Operation, Kinds, Pcs, AllDirs, FilesInv
<1>7. DeleteInv'
  BY <1>1 DEF ClearFile, Doing, Quiet, IndInv, TypeOK, Operation, Kinds, Pcs, AllDirs, DeleteInv
<1>8. SyncInv'
  BY <1>1 DEF ClearFile, Doing, Quiet, IndInv, TypeOK, Operation, Kinds, Pcs, AllDirs, SyncInv
<1>9. AckedInv'
  BY <1>1, DiskStep DEF ClearFile, Doing, Quiet, IndInv, TypeOK
<1> QED
  BY <1>2, <1>3, <1>4, <1>5, <1>6, <1>7, <1>8, <1>9 DEF IndInv

LEMMA ClearDirKeeps ==
  ASSUME IndInv, ClearDir
  PROVE  IndInv'
<1>1. /\ op \in Operation /\ op.k \in SkillIds /\ op.c \in Trees
      /\ disk[op.k] \in AllDirs /\ vers[op.k] \in SUBSET Version
  BY OpType DEF ClearDir, Doing, IndInv
<1>2. TypeOK'
  BY <1>1, SkillStoreAssumption, TreeFacts DEF ClearDir, AfterClear, Doing, Goto, Quiet, IndInv, TypeOK, Operation, Kinds, Pcs, AllDirs, FilesInv
<1>3. WriteInv'
  BY <1>1 DEF ClearDir, AfterClear, Doing, Goto, Quiet, IndInv, TypeOK, Operation, Kinds, Pcs, AllDirs, WriteInv, SafeInv, AckedInv, Kept
<1>4. SafeInv'
  BY <1>1 DEF ClearDir, AfterClear, Doing, Goto, Quiet, IndInv, TypeOK, Operation, Kinds, Pcs, AllDirs, SafeInv, WriteInv, AckedInv, Kept
<1>5. RoomInv'
  BY <1>1 DEF ClearDir, AfterClear, Doing, Goto, Quiet, IndInv, TypeOK, Operation, Kinds, Pcs, AllDirs, RoomInv, WriteInv, SafeInv, AckedInv, Kept
<1>6. FilesInv'
  BY <1>1 DEF ClearDir, AfterClear, Doing, Goto, Quiet, IndInv, TypeOK, Operation, Kinds, Pcs, AllDirs, FilesInv
<1>7. DeleteInv'
  BY <1>1 DEF ClearDir, AfterClear, Doing, Goto, Quiet, IndInv, TypeOK, Operation, Kinds, Pcs, AllDirs, DeleteInv
<1>8. SyncInv'
  BY <1>1 DEF ClearDir, AfterClear, Doing, Goto, Quiet, IndInv, TypeOK, Operation, Kinds, Pcs, AllDirs, SyncInv
<1>9. AckedInv'
  BY <1>1, DiskStep DEF ClearDir, AfterClear, Doing, Goto, Quiet, IndInv, TypeOK
<1> QED
  BY <1>2, <1>3, <1>4, <1>5, <1>6, <1>7, <1>8, <1>9 DEF IndInv

LEMMA MakeDirKeeps ==
  ASSUME IndInv, MakeDir
  PROVE  IndInv'
<1>1. /\ op \in Operation /\ op.k \in SkillIds /\ op.c \in Trees
      /\ disk[op.k] \in AllDirs /\ vers[op.k] \in SUBSET Version
  BY OpType DEF MakeDir, Doing, IndInv
<1>2. TypeOK'
  BY <1>1, SkillStoreAssumption, TreeFacts DEF MakeDir, Doing, Goto, Quiet, IndInv, TypeOK, Operation, Kinds, Pcs, AllDirs, FilesInv
<1>3. WriteInv'
  BY <1>1 DEF MakeDir, Doing, Goto, Quiet, IndInv, TypeOK, Operation, Kinds, Pcs, AllDirs, WriteInv, SafeInv, AckedInv, Kept
<1>4. SafeInv'
  BY <1>1 DEF MakeDir, Doing, Goto, Quiet, IndInv, TypeOK, Operation, Kinds, Pcs, AllDirs, SafeInv, WriteInv, AckedInv, Kept
<1>5. RoomInv'
  BY <1>1 DEF MakeDir, Doing, Goto, Quiet, IndInv, TypeOK, Operation, Kinds, Pcs, AllDirs, RoomInv, WriteInv, SafeInv, AckedInv, Kept
<1>6. FilesInv'
  BY <1>1 DEF MakeDir, Doing, Goto, Quiet, IndInv, TypeOK, Operation, Kinds, Pcs, AllDirs, FilesInv
<1>7. DeleteInv'
  BY <1>1 DEF MakeDir, Doing, Goto, Quiet, IndInv, TypeOK, Operation, Kinds, Pcs, AllDirs, DeleteInv
<1>8. SyncInv'
  BY <1>1 DEF MakeDir, Doing, Goto, Quiet, IndInv, TypeOK, Operation, Kinds, Pcs, AllDirs, SyncInv
<1>9. AckedInv'
  BY <1>1, DiskStep DEF MakeDir, Doing, Goto, Quiet, IndInv, TypeOK
<1> QED
  BY <1>2, <1>3, <1>4, <1>5, <1>6, <1>7, <1>8, <1>9 DEF IndInv

LEMMA WriteFileKeeps ==
  ASSUME IndInv, WriteFile
  PROVE  IndInv'
<1>1. /\ op \in Operation /\ op.k \in SkillIds /\ op.c \in Trees
      /\ disk[op.k] \in AllDirs /\ vers[op.k] \in SUBSET Version
  BY OpType DEF WriteFile, Doing, IndInv
<1>2. TypeOK'
  BY <1>1, SkillStoreAssumption, TreeFacts DEF WriteFile, Doing, Quiet, IndInv, TypeOK, Operation, Kinds, Pcs, AllDirs, FilesInv
<1>3. WriteInv'
  BY <1>1 DEF WriteFile, Doing, Quiet, IndInv, TypeOK, Operation, Kinds, Pcs, AllDirs, WriteInv, SafeInv, AckedInv, Kept
<1>4. SafeInv'
  BY <1>1 DEF WriteFile, Doing, Quiet, IndInv, TypeOK, Operation, Kinds, Pcs, AllDirs, SafeInv, WriteInv, AckedInv, Kept
<1>5. RoomInv'
  BY <1>1 DEF WriteFile, Doing, Quiet, IndInv, TypeOK, Operation, Kinds, Pcs, AllDirs, RoomInv, WriteInv, SafeInv, AckedInv, Kept
<1>6. FilesInv'
  BY <1>1, CutTree DEF WriteFile, Doing, Quiet, IndInv, TypeOK, Operation, Kinds, Pcs, AllDirs, FilesInv
<1>7. DeleteInv'
  BY <1>1 DEF WriteFile, Doing, Quiet, IndInv, TypeOK, Operation, Kinds, Pcs, AllDirs, DeleteInv
<1>8. SyncInv'
  BY <1>1 DEF WriteFile, Doing, Quiet, IndInv, TypeOK, Operation, Kinds, Pcs, AllDirs, SyncInv
<1>9. AckedInv'
  BY <1>1, DiskStep DEF WriteFile, Doing, Quiet, IndInv, TypeOK
<1> QED
  BY <1>2, <1>3, <1>4, <1>5, <1>6, <1>7, <1>8, <1>9 DEF IndInv

LEMMA WriteOverKeeps ==
  ASSUME IndInv, WriteOver
  PROVE  IndInv'
<1>1. TypeOK'
  BY SkillStoreAssumption, TreeFacts DEF WriteOver, Doing, Goto, Quiet, IndInv, TypeOK, Operation, Kinds, Pcs, AllDirs, FilesInv
<1>2. WriteInv'
  BY DEF WriteOver, Doing, Goto, Quiet, IndInv, TypeOK, Operation, Kinds, Pcs, AllDirs, WriteInv, SafeInv, AckedInv, Kept
<1>3. SafeInv'
  BY DEF WriteOver, Doing, Goto, Quiet, IndInv, TypeOK, Operation, Kinds, Pcs, AllDirs, SafeInv, WriteInv, AckedInv, Kept
<1>4. RoomInv'
  BY DEF WriteOver, Doing, Goto, Quiet, IndInv, TypeOK, Operation, Kinds, Pcs, AllDirs, RoomInv, WriteInv, SafeInv, AckedInv, Kept
<1>5. FilesInv'
  BY DEF WriteOver, Doing, Goto, Quiet, IndInv, TypeOK, Operation, Kinds, Pcs, AllDirs, FilesInv
<1>6. DeleteInv'
  BY DEF WriteOver, Doing, Goto, Quiet, IndInv, TypeOK, Operation, Kinds, Pcs, AllDirs, DeleteInv
<1>7. SyncInv'
  BY DEF WriteOver, Doing, Goto, Quiet, IndInv, TypeOK, Operation, Kinds, Pcs, AllDirs, SyncInv
<1>8. AckedInv'
  BY DEF WriteOver, Doing, Goto, Quiet, IndInv, TypeOK, Operation, Kinds, Pcs, AllDirs, AckedInv, WriteInv, SafeInv, Kept
<1> QED
  BY <1>1, <1>2, <1>3, <1>4, <1>5, <1>6, <1>7, <1>8 DEF IndInv

LEMMA SaveVersionKeeps ==
  ASSUME IndInv, SaveVersion
  PROVE  IndInv'
<1>1. /\ op \in Operation /\ op.k \in SkillIds /\ op.c \in Trees
      /\ disk[op.k] \in AllDirs /\ vers[op.k] \in SUBSET Version
  BY OpType DEF SaveVersion, Doing, IndInv
<1>2. op.kind = "write"
  BY <1>1 DEF SaveVersion, Doing, IndInv, Operation, Kinds, DeleteInv, SyncInv
<1>3. /\ vers' \in [SkillIds -> SUBSET Version]
      /\ Held(vers'[op.k]) = Held(vers[op.k]) \cup {op.c}
      /\ \A j \in SkillIds \ {op.k} : vers'[j] = vers[j]
  BY <1>1, <1>2, SaveStep DEF SaveVersion, Doing, IndInv
<1>4. /\ op' \in Operation /\ op'.pc = "reply" /\ op'.kind = "write" /\ op'.k = op.k /\ op'.c = op.c /\ op'.was = op.was /\ op'.past = op.past
  BY <1>1, <1>2 DEF SaveVersion, Goto, Operation, Pcs
<1>5. TypeOK'
  BY <1>1, <1>2, <1>3, <1>4, SkillStoreAssumption, TreeFacts DEF SaveVersion, Doing, Quiet, IndInv, TypeOK, Operation, Kinds, Pcs, AllDirs, FilesInv
<1>6. WriteInv'
  BY <1>1, <1>2, <1>3, <1>4 DEF SaveVersion, Doing, Quiet, IndInv, TypeOK, Operation, Kinds, Pcs, AllDirs, WriteInv, SafeInv, AckedInv, Kept
<1>7. SafeInv'
  BY <1>1, <1>2, <1>3, <1>4 DEF SaveVersion, Doing, Quiet, IndInv, TypeOK, Operation, Kinds, Pcs, AllDirs, SafeInv, WriteInv, AckedInv, Kept
<1>8. RoomInv'
  BY <1>1, <1>2, <1>3, <1>4 DEF SaveVersion, Doing, Quiet, IndInv, TypeOK, Operation, Kinds, Pcs, AllDirs, RoomInv, WriteInv, SafeInv, AckedInv, Kept
<1>9. FilesInv'
  BY <1>1, <1>2, <1>3, <1>4 DEF SaveVersion, Doing, Goto, Quiet, IndInv, TypeOK, Operation, Kinds, Pcs, AllDirs, FilesInv
<1>10. DeleteInv'
  BY <1>1, <1>2, <1>3, <1>4 DEF SaveVersion, Doing, Quiet, IndInv, TypeOK, Operation, Kinds, Pcs, AllDirs, DeleteInv
<1>11. SyncInv'
  BY <1>1, <1>2, <1>3, <1>4 DEF SaveVersion, Doing, Quiet, IndInv, TypeOK, Operation, Kinds, Pcs, AllDirs, SyncInv
<1>12. AckedInv'
  BY <1>1, <1>2, <1>3, <1>4 DEF SaveVersion, Doing, Quiet, IndInv, TypeOK, Operation, Kinds, Pcs, AllDirs, AckedInv, WriteInv, SafeInv, Kept
<1> QED
  BY <1>5, <1>6, <1>7, <1>8, <1>9, <1>10, <1>11, <1>12 DEF IndInv

LEMMA ReplyKeeps ==
  ASSUME IndInv, Reply
  PROVE  IndInv'
<1>1. /\ op \in Operation /\ op.k \in SkillIds /\ op.c \in Trees
      /\ disk[op.k] \in AllDirs /\ vers[op.k] \in SUBSET Version
  BY OpType DEF Reply, Doing, IndInv
<1>2. TypeOK'
  BY <1>1, SkillStoreAssumption, TreeFacts DEF Reply, Doing, IndInv, TypeOK, Operation, Kinds, Pcs, AllDirs, FilesInv
<1>3. WriteInv'
  BY <1>1 DEF Reply, Doing, IndInv, TypeOK, Operation, Kinds, Pcs, AllDirs, WriteInv, SafeInv, AckedInv, Kept
<1>4. SafeInv'
  BY <1>1 DEF Reply, Doing, IndInv, TypeOK, Operation, Kinds, Pcs, AllDirs, SafeInv, WriteInv, AckedInv, Kept
<1>5. RoomInv'
  BY <1>1 DEF Reply, Doing, IndInv, TypeOK, Operation, Kinds, Pcs, AllDirs, RoomInv, WriteInv, SafeInv, AckedInv, Kept
<1>6. FilesInv'
  BY <1>1 DEF Reply, Doing, IndInv, TypeOK, Operation, Kinds, Pcs, AllDirs, FilesInv
<1>7. DeleteInv'
  BY <1>1 DEF Reply, Doing, IndInv, TypeOK, Operation, Kinds, Pcs, AllDirs, DeleteInv
<1>8. SyncInv'
  BY <1>1 DEF Reply, Doing, IndInv, TypeOK, Operation, Kinds, Pcs, AllDirs, SyncInv
<1>9. AckedInv'
  BY <1>1 DEF Reply, Doing, IndInv, TypeOK, Operation, Kinds, Pcs, AllDirs, AckedInv, WriteInv, SafeInv, Kept, DeleteInv, SyncInv, FilesInv
<1> QED
  BY <1>2, <1>3, <1>4, <1>5, <1>6, <1>7, <1>8, <1>9 DEF IndInv

LEMMA DropVersionKeeps ==
  ASSUME IndInv, DropVersion
  PROVE  IndInv'
<1>1. /\ op \in Operation /\ op.k \in SkillIds /\ op.c \in Trees
      /\ disk[op.k] \in AllDirs /\ vers[op.k] \in SUBSET Version
  BY OpType DEF DropVersion, Doing, IndInv
<1>2. Held(vers'[op.k]) \subseteq Held(vers[op.k])
  BY <1>1, HeldType DEF DropVersion, IndInv, TypeOK
<1>3. TypeOK'
  BY <1>1, <1>2, SkillStoreAssumption, TreeFacts DEF DropVersion, Doing, Quiet, IndInv, TypeOK, Operation, Kinds, Pcs, AllDirs, FilesInv
<1>4. WriteInv'
  BY <1>1, <1>2 DEF DropVersion, Doing, Quiet, IndInv, TypeOK, Operation, Kinds, Pcs, AllDirs, WriteInv, SafeInv, AckedInv, Kept
<1>5. SafeInv'
  BY <1>1, <1>2 DEF DropVersion, Doing, Quiet, IndInv, TypeOK, Operation, Kinds, Pcs, AllDirs, SafeInv, WriteInv, AckedInv, Kept
<1>6. RoomInv'
  BY <1>1, <1>2 DEF DropVersion, Doing, Quiet, IndInv, TypeOK, Operation, Kinds, Pcs, AllDirs, RoomInv, WriteInv, SafeInv, AckedInv, Kept
<1>7. FilesInv'
  BY <1>1, <1>2 DEF DropVersion, Doing, Quiet, IndInv, TypeOK, Operation, Kinds, Pcs, AllDirs, FilesInv
<1>8. DeleteInv'
  BY <1>1, <1>2 DEF DropVersion, Doing, Quiet, IndInv, TypeOK, Operation, Kinds, Pcs, AllDirs, DeleteInv
<1>9. SyncInv'
  BY <1>1, <1>2 DEF DropVersion, Doing, Quiet, IndInv, TypeOK, Operation, Kinds, Pcs, AllDirs, SyncInv
<1>10. AckedInv'
  BY <1>1, <1>2 DEF DropVersion, Doing, Quiet, IndInv, TypeOK, Operation, Kinds, Pcs, AllDirs, AckedInv, WriteInv, SafeInv, Kept, DeleteInv, SyncInv, FilesInv
<1> QED
  BY <1>3, <1>4, <1>5, <1>6, <1>7, <1>8, <1>9, <1>10 DEF IndInv

LEMMA DropOverKeeps ==
  ASSUME IndInv, DropOver
  PROVE  IndInv'
<1>1. TypeOK'
  BY SkillStoreAssumption, TreeFacts DEF DropOver, Doing, IndInv, TypeOK, Operation, Kinds, Pcs, AllDirs, FilesInv
<1>2. WriteInv'
  BY DEF DropOver, Doing, IndInv, TypeOK, Operation, Kinds, Pcs, AllDirs, WriteInv, SafeInv, AckedInv, Kept
<1>3. SafeInv'
  BY DEF DropOver, Doing, IndInv, TypeOK, Operation, Kinds, Pcs, AllDirs, SafeInv, WriteInv, AckedInv, Kept
<1>4. RoomInv'
  BY DEF DropOver, Doing, IndInv, TypeOK, Operation, Kinds, Pcs, AllDirs, RoomInv, WriteInv, SafeInv, AckedInv, Kept
<1>5. FilesInv'
  BY DEF DropOver, Doing, IndInv, TypeOK, Operation, Kinds, Pcs, AllDirs, FilesInv
<1>6. DeleteInv'
  BY DEF DropOver, Doing, IndInv, TypeOK, Operation, Kinds, Pcs, AllDirs, DeleteInv
<1>7. SyncInv'
  BY DEF DropOver, Doing, IndInv, TypeOK, Operation, Kinds, Pcs, AllDirs, SyncInv
<1>8. AckedInv'
  BY DEF DropOver, Doing, IndInv, TypeOK, Operation, Kinds, Pcs, AllDirs, AckedInv, WriteInv, SafeInv, Kept
<1> QED
  BY <1>1, <1>2, <1>3, <1>4, <1>5, <1>6, <1>7, <1>8 DEF IndInv

LEMMA ServeKeeps ==
  ASSUME IndInv, Serve
  PROVE  IndInv'
<1>1. TypeOK'
  BY SkillStoreAssumption, TreeFacts DEF Serve, IndInv, TypeOK, Operation, Kinds, Pcs, AllDirs, FilesInv
<1>2. WriteInv'
  BY DEF Serve, IndInv, TypeOK, Operation, Kinds, Pcs, AllDirs, WriteInv, SafeInv, AckedInv, Kept
<1>3. SafeInv'
  BY DEF Serve, IndInv, TypeOK, Operation, Kinds, Pcs, AllDirs, SafeInv, WriteInv, AckedInv, Kept
<1>4. RoomInv'
  BY DEF Serve, IndInv, TypeOK, Operation, Kinds, Pcs, AllDirs, RoomInv, WriteInv, SafeInv, AckedInv, Kept
<1>5. FilesInv'
  BY DEF Serve, IndInv, TypeOK, Operation, Kinds, Pcs, AllDirs, FilesInv
<1>6. DeleteInv'
  BY DEF Serve, IndInv, TypeOK, Operation, Kinds, Pcs, AllDirs, DeleteInv
<1>7. SyncInv'
  BY DEF Serve, IndInv, TypeOK, Operation, Kinds, Pcs, AllDirs, SyncInv
<1>8. AckedInv'
  BY DEF Serve, IndInv, TypeOK, Operation, Kinds, Pcs, AllDirs, AckedInv, WriteInv, SafeInv, Kept
<1> QED
  BY <1>1, <1>2, <1>3, <1>4, <1>5, <1>6, <1>7, <1>8 DEF IndInv

LEMMA FailKeeps ==
  ASSUME IndInv, Fail
  PROVE  IndInv'
<1>1. /\ disk' \in [SkillIds -> AllDirs]
      /\ vers' \in [SkillIds -> SUBSET Version] /\ AckedInv'
  BY CutShortKeeps DEF Fail
<1>2. TypeOK'
  BY <1>1, SkillStoreAssumption, TreeFacts DEF Fail, IndInv, TypeOK
<1>3. WriteInv'
  BY <1>1 DEF Fail, IndInv, TypeOK, Operation, Kinds, Pcs, AllDirs, WriteInv, SafeInv, AckedInv, Kept
<1>4. SafeInv'
  BY <1>1 DEF Fail, IndInv, TypeOK, Operation, Kinds, Pcs, AllDirs, SafeInv, WriteInv, AckedInv, Kept
<1>5. RoomInv'
  BY <1>1 DEF Fail, IndInv, TypeOK, Operation, Kinds, Pcs, AllDirs, RoomInv, WriteInv, SafeInv, AckedInv, Kept
<1>6. FilesInv'
  BY <1>1 DEF Fail, IndInv, TypeOK, Operation, Kinds, Pcs, AllDirs, FilesInv
<1>7. DeleteInv'
  BY <1>1 DEF Fail, IndInv, TypeOK, Operation, Kinds, Pcs, AllDirs, DeleteInv
<1>8. SyncInv'
  BY <1>1 DEF Fail, IndInv, TypeOK, Operation, Kinds, Pcs, AllDirs, SyncInv
<1>9. AckedInv'
  BY <1>1
<1> QED
  BY <1>2, <1>3, <1>4, <1>5, <1>6, <1>7, <1>8, <1>9 DEF IndInv

LEMMA CrashKeeps ==
  ASSUME IndInv, Crash
  PROVE  IndInv'
<1>1. /\ disk' \in [SkillIds -> AllDirs]
      /\ vers' \in [SkillIds -> SUBSET Version] /\ AckedInv'
  BY CutShortKeeps DEF Crash
<1>2. TypeOK'
  <2>1. serving' \in BOOLEAN
    BY Zenon DEF Crash
  <2>2. image' \subseteq SkillIds /\ builtin' \subseteq SkillIds /\ faults' \in 0..MaxFaults
    BY SkillStoreAssumption DEF Crash, IndInv, TypeOK
  <2> QED
    BY <1>1, <2>1, <2>2 DEF Crash, IndInv, TypeOK
<1>3. WriteInv'
  BY <1>1 DEF Crash, IndInv, TypeOK, Operation, Kinds, Pcs, AllDirs, WriteInv, SafeInv, AckedInv, Kept
<1>4. SafeInv'
  BY <1>1 DEF Crash, IndInv, TypeOK, Operation, Kinds, Pcs, AllDirs, SafeInv, WriteInv, AckedInv, Kept
<1>5. RoomInv'
  BY <1>1 DEF Crash, IndInv, TypeOK, Operation, Kinds, Pcs, AllDirs, RoomInv, WriteInv, SafeInv, AckedInv, Kept
<1>6. FilesInv'
  BY <1>1 DEF Crash, IndInv, TypeOK, Operation, Kinds, Pcs, AllDirs, FilesInv
<1>7. DeleteInv'
  BY <1>1 DEF Crash, IndInv, TypeOK, Operation, Kinds, Pcs, AllDirs, DeleteInv
<1>8. SyncInv'
  BY <1>1 DEF Crash, IndInv, TypeOK, Operation, Kinds, Pcs, AllDirs, SyncInv
<1>9. AckedInv'
  BY <1>1
<1> QED
  BY <1>2, <1>3, <1>4, <1>5, <1>6, <1>7, <1>8, <1>9 DEF IndInv
----------------------------------------------------------------------------
(* The invariant holds in every reachable state.                           *)

LEMMA InitIndInv == Init => IndInv
<1> SUFFICES ASSUME Init PROVE IndInv
  OBVIOUS
<1>1. TypeOK
  <2>1. serving \in BOOLEAN
    BY Zenon DEF Init
  <2>2. disk \in [SkillIds -> AllDirs] /\ image \subseteq SkillIds
    BY SkillStoreAssumption DEF Init, AllDirs
  <2>3. vers \in [SkillIds -> SUBSET Version] /\ faults \in 0..MaxFaults
    BY SkillStoreAssumption DEF Init
  <2> QED
    BY <2>1, <2>2, <2>3 DEF Init, TypeOK
<1>2. op = NoOp
  BY DEF Init
<1>3. AckedInv
  BY DEF Init, AckedInv
<1> QED
  BY <1>1, <1>2, <1>3
     DEF IndInv, WriteInv, SafeInv, RoomInv, FilesInv, DeleteInv, SyncInv

LEMMA StepIndInv == IndInv /\ [Next]_vars => IndInv'
<1> SUFFICES ASSUME IndInv, [Next]_vars PROVE IndInv'
  OBVIOUS
<1>1. CASE Routes
  <2>1. PICK k \in SkillIds :
          \/ \E c \in Sources : create_skill(k, c) \/ update_skill(k, c)
          \/ rollback_skill_version(k) \/ delete_skill(k)
    BY <1>1 DEF Routes
  <2>2. CASE \E c \in Sources : create_skill(k, c)
    BY <2>2, create_skillKeeps
  <2>3. CASE \E c \in Sources : update_skill(k, c)
    BY <2>3, update_skillKeeps, SkillStoreAssumption
  <2>4. CASE rollback_skill_version(k)
    <3>1. PICK v \in vers[k] : v[2] # Torn /\ update_skill(k, v[2])
      BY <2>4 DEF rollback_skill_version
    <3>2. v[2] \in Trees
      BY <3>1 DEF IndInv, TypeOK, Version
    <3> QED
      BY <3>1, <3>2, update_skillKeeps
  <2>5. CASE delete_skill(k)
    BY <2>5, delete_skillKeeps
  <2> QED
    BY <2>1, <2>2, <2>3, <2>4, <2>5
<1>2. CASE Steps
  BY <1>2, BaselineKeeps, ClearFileKeeps, ClearDirKeeps, MakeDirKeeps, WriteFileKeeps,
     WriteOverKeeps, SaveVersionKeeps, ReplyKeeps, DropVersionKeeps, DropOverKeeps DEF Steps
<1>3. CASE Startup
  BY <1>3, ServeKeeps, sync_builtin_skillsKeeps DEF Startup
<1>4. CASE Fail
  BY <1>4, FailKeeps
<1>5. CASE Crash
  BY <1>5, CrashKeeps
<1>6. CASE UNCHANGED vars
  <2>1. /\ disk' = disk /\ vers' = vers /\ image' = image /\ builtin' = builtin
        /\ serving' = serving /\ op' = op /\ acked' = acked /\ faults' = faults
    BY <1>6 DEF vars
  <2> QED
    BY <2>1 DEF IndInv, TypeOK, WriteInv, SafeInv, RoomInv, FilesInv, DeleteInv, SyncInv,
                AckedInv, Kept
<1> QED
  BY <1>1, <1>2, <1>3, <1>4, <1>5, <1>6 DEF Next

LEMMA Invariance == Spec => []IndInv
<1>1. Init => IndInv
  BY InitIndInv
<1>2. IndInv /\ [Next]_vars => IndInv'
  BY StepIndInv
<1> QED
  BY <1>1, <1>2, PTL DEF Spec

(* Every variable keeps its type: in particular version numbers stay within *)
(* the bound, and a directory never holds two files of one path.            *)
THEOREM StoreTypeCorrect == Spec => []TypeOK
<1>1. IndInv => TypeOK
  BY DEF IndInv
<1> QED
  BY <1>1, Invariance, PTL

(* What create_skill or update_skill acknowledged is on disk or in the      *)
(* version history, whichever call to the file system fails and wherever    *)
(* the process ends, for any number of skills, files and faults.            *)
THEOREM AcknowledgedIsRecoverable == Spec => []AckedRecoverable
<1>1. IndInv => AckedRecoverable
  BY DEF IndInv, AckedInv, AckedRecoverable
<1> QED
  BY <1>1, Invariance, PTL

----------------------------------------------------------------------------
(* The refinement: between the steps that end an operation SkillHost sees  *)
(* the skill as the operation found it.                                    *)

\* a step that changes at most the skill it works on, and does not end
LEMMA HiddenStep ==
  ASSUME op # NoOp, op' # NoOp, op'.k = op.k, op'.was = op.was, op'.past = op.past,
         \A j \in SkillIds \ {op.k} : disk'[j] = disk[j] /\ vers'[j] = vers[j]
  PROVE  ShelfSeen' = ShelfSeen /\ PastSeen' = PastSeen
BY DEF ShelfSeen, PastSeen

\* an operation begins
LEMMA BeginStep ==
  ASSUME op = NoOp, op' # NoOp, NEW k \in SkillIds, op'.k = k,
         op'.was = disk[k], op'.past = Held(vers[k]),
         \A j \in SkillIds \ {k} : disk'[j] = disk[j] /\ vers'[j] = vers[j]
  PROVE  ShelfSeen' = ShelfSeen /\ PastSeen' = PastSeen
BY DEF ShelfSeen, PastSeen

\* an operation ends: the skill becomes what is on disk
LEMMA EndStep ==
  ASSUME TypeOK, op # NoOp, op' = NoOp,
         \A j \in SkillIds \ {op.k} : disk'[j] = disk[j] /\ vers'[j] = vers[j]
  PROVE  /\ ShelfSeen' = [ShelfSeen EXCEPT ![op.k] = disk'[op.k]]
         /\ PastSeen' = [PastSeen EXCEPT ![op.k] = Held(vers'[op.k])]
         /\ op.k \in SkillIds /\ ShelfSeen[op.k] = op.was /\ PastSeen[op.k] = op.past
BY OpType DEF ShelfSeen, PastSeen

LEMMA PromisedEntries == Promised!Entries = Trees \cup {Torn}
BY TreeFacts DEF Promised!Entries, AllDirs

\* a write that answers is a Create or an Update
LEMMA ReplyRefines ==
  ASSUME IndInv, Reply
  PROVE  Promised!HostNext
<1>1. /\ op # NoOp /\ op' = NoOp /\ op.pc = "reply" /\ disk' = disk /\ vers' = vers
  BY DEF Reply, Doing
<1>2. /\ op.k \in SkillIds /\ op.c \in Trees /\ op.kind \in Kinds
  BY <1>1, OpType DEF IndInv, Operation
<1>3. op.kind = "write"
  BY <1>1, <1>2 DEF IndInv, Kinds, DeleteInv, SyncInv
<1>4. /\ disk[op.k] = op.c /\ Held(vers[op.k]) = Kept \cup {op.c}
      /\ op.was # NoDir => Torn \notin op.past
  BY <1>1, <1>3 DEF IndInv, WriteInv, FilesInv
<1>5. /\ ShelfSeen' = [ShelfSeen EXCEPT ![op.k] = op.c]
      /\ PastSeen' = [PastSeen EXCEPT ![op.k] = Kept \cup {op.c}]
      /\ ShelfSeen[op.k] = op.was /\ PastSeen[op.k] = op.past
  BY <1>1, <1>4, EndStep DEF IndInv
<1>6. op.c \in AllDirs \ {NoDir}
  BY <1>2, TreeFacts DEF AllDirs
<1>7. CASE op.was = NoDir
  <2>1. Kept \cup {op.c} = op.past \cup {op.c}
    BY <1>7 DEF Kept
  <2>2. Promised!Create(op.k, op.c)
    BY <1>5, <1>7, <2>1 DEF Promised!Create, Promised!Become
  <2> QED
    BY <1>2, <1>6, <2>2 DEF Promised!HostNext
<1>8. CASE op.was # NoDir
  <2>1. Kept \cup {op.c} = op.past \cup {op.c} \cup (IF op.past = {} THEN {op.was} ELSE {})
    BY <1>8 DEF Kept
  <2>2. Promised!Update(op.k, op.c)
    BY <1>4, <1>5, <1>8, <2>1 DEF Promised!Update, Promised!Updatable, Promised!Become
  <2> QED
    BY <1>2, <1>6, <2>2 DEF Promised!HostNext
<1> QED
  BY <1>7, <1>8

\* a delete that answers, or a builtin that is in place
LEMMA DropOverRefines ==
  ASSUME IndInv, DropOver
  PROVE  Promised!HostNext
<1>1. /\ op # NoOp /\ op' = NoOp /\ op.pc = "drop" /\ disk' = disk /\ vers' = vers
      /\ vers[op.k] = {}
  BY DEF DropOver, Doing
<1>2. /\ op.k \in SkillIds /\ op.kind \in Kinds /\ disk[op.k] \in AllDirs
  BY <1>1, OpType DEF IndInv, Operation
<1>3. Held(vers[op.k]) = {}
  BY <1>1 DEF Held
<1>4. /\ ShelfSeen' = [ShelfSeen EXCEPT ![op.k] = disk[op.k]]
      /\ PastSeen' = [PastSeen EXCEPT ![op.k] = {}]
      /\ ShelfSeen[op.k] = op.was /\ PastSeen[op.k] = op.past
  BY <1>1, <1>3, EndStep DEF IndInv
<1>5. CASE op.kind = "delete"
  <2>1. disk[op.k] = NoDir /\ op.was # NoDir
    BY <1>1, <1>5 DEF IndInv, DeleteInv
  <2>2. Promised!Delete(op.k)
    BY <1>4, <2>1 DEF Promised!Delete, Promised!Become
  <2> QED
    BY <1>2, <2>2 DEF Promised!HostNext
<1>6. CASE op.kind = "sync"
  <2>1. Promised!Replace(op.k)
    BY <1>2, <1>4 DEF Promised!Replace, Promised!Become
  <2> QED
    BY <1>2, <2>1 DEF Promised!HostNext
<1> QED
  BY <1>1, <1>2, <1>5, <1>6 DEF Kinds, IndInv, WriteInv

\* where a call that is cut short leaves the store
LEMMA CutShortFacts ==
  ASSUME IndInv, CutShort, op # NoOp
  PROVE  /\ \A j \in SkillIds \ {op.k} : disk'[j] = disk[j] /\ vers'[j] = vers[j]
         /\ \/ disk'[op.k] = disk[op.k] /\ vers'[op.k] = vers[op.k]
            \/ /\ op.kind = "write" /\ op.pc \in {"baseline", "save"} /\ disk'[op.k] = disk[op.k]
               /\ Held(vers'[op.k]) = Held(vers[op.k]) \cup {Torn}
            \/ op.pc = "write" /\ vers'[op.k] = vers[op.k]
<1>1. CASE UNCHANGED <<disk, vers>>
  BY <1>1
<1>2. CASE op.pc \in {"baseline", "save"} /\ save_skill_version(op.k, Torn) /\ UNCHANGED disk
  <2>1. op.kind = "write"
    BY <1>2, OpType DEF IndInv, Operation, Kinds, DeleteInv, SyncInv
  <2>2. /\ Held(vers'[op.k]) = Held(vers[op.k]) \cup {Torn}
        /\ \A j \in SkillIds \ {op.k} : vers'[j] = vers[j]
    BY <1>2, <2>1, SaveStep
  <2> QED
    BY <1>2, <2>1, <2>2
<1>3. CASE /\ op.pc = "write" /\ UNCHANGED vers
           /\ \E f \in op.todo : disk' = [disk EXCEPT ![op.k] = @ \cup {<<f[1], Torn>>}]
  BY <1>3 DEF IndInv, TypeOK
<1> QED
  BY <1>1, <1>2, <1>3 DEF CutShort

\* an operation that is cut short, by a failed call or the end of the process
LEMMA CutRefines ==
  ASSUME IndInv, CutShort, op # NoOp, op' = NoOp, acked' = acked
  PROVE  Promised!HostNext
<1> DEFINE left == disk'[op.k]
           kept == Held(vers'[op.k])
<1>1. /\ op.k \in SkillIds /\ op.kind \in Kinds /\ op.was \in AllDirs /\ op.c \in Trees
      /\ op.past \subseteq {Torn} \cup Trees /\ vers[op.k] \in SUBSET Version
  BY OpType DEF IndInv, Operation
<1>2. left \in AllDirs
  BY <1>1, CutShortKeeps
<1>3. /\ ShelfSeen' = [ShelfSeen EXCEPT ![op.k] = left]
      /\ PastSeen' = [PastSeen EXCEPT ![op.k] = kept]
      /\ ShelfSeen[op.k] = op.was /\ PastSeen[op.k] = op.past
  BY CutShortFacts, EndStep DEF IndInv
<1>4. CASE op.kind = "write"
  <2> DEFINE first == IF op.past = {} /\ op.was # NoDir THEN {op.was} ELSE {}
             New == {{}} \cup {{x, y} : x, y \in Trees \cup {Torn}}
  <2>0. {} \in New /\ \A x, y \in Trees \cup {Torn} : {x, y} \in New
    OBVIOUS
  <2> HIDE DEF New
  <2>1. \E new \in New :
          /\ (left # op.was /\ op.was # NoDir) => (op.past # {} \/ op.was \in new)
          /\ kept = op.past \cup new
    <3>1. CASE op.pc = "baseline"
      <4>1. Held(vers[op.k]) = {} /\ op.past = {} /\ disk[op.k] = op.was
        BY <1>1, <1>4, <3>1, HeldType DEF IndInv, WriteInv
      <4>2. left = op.was /\ (kept = {} \/ kept = {Torn, Torn})
        BY <3>1, <4>1, CutShortFacts
      <4> HIDE DEF kept, left
      <4> QED
        BY <2>0, <4>1, <4>2
    <3>2. CASE op.pc \in {"clear", "mkdir", "write", "save"}
      <4>1. Held(vers[op.k]) = op.past \cup first
        BY <1>4, <3>2 DEF IndInv, WriteInv, Kept
      <4>2. kept = op.past \cup first \/ kept = op.past \cup first \cup {Torn}
        BY <4>1, CutShortFacts
      <4>3. CASE op.past = {} /\ op.was # NoDir
        <5>1. op.was \in Trees
          BY <1>1, <4>3 DEF AllDirs
        <5>2. kept = op.past \cup {op.was, op.was} \/ kept = op.past \cup {op.was, Torn}
          BY <4>2, <4>3
        <5> HIDE DEF kept, left
        <5> QED
          BY <2>0, <5>1, <5>2
      <4>4. CASE ~ (op.past = {} /\ op.was # NoDir)
        <5>1. kept = op.past \cup {} \/ kept = op.past \cup {Torn, Torn}
          BY <4>2, <4>4
        <5> HIDE DEF kept, left
        <5> QED
          BY <2>0, <4>4, <5>1
      <4> QED
        BY <4>3, <4>4
    <3>3. CASE op.pc = "reply"
      <4>1. Held(vers[op.k]) = op.past \cup first \cup {op.c}
        BY <1>4, <3>3 DEF IndInv, WriteInv, Kept
      <4>2. kept = op.past \cup first \cup {op.c}
        BY <3>3, <4>1, CutShortFacts
      <4>3. CASE op.past = {} /\ op.was # NoDir
        <5>1. op.was \in Trees
          BY <1>1, <4>3 DEF AllDirs
        <5>2. kept = op.past \cup {op.was, op.c}
          BY <4>2, <4>3
        <5> HIDE DEF kept, left
        <5> QED
          BY <2>0, <1>1, <5>1, <5>2
      <4>4. CASE ~ (op.past = {} /\ op.was # NoDir)
        <5>1. kept = op.past \cup {op.c, op.c}
          BY <4>2, <4>4
        <5> HIDE DEF kept, left
        <5> QED
          BY <2>0, <1>1, <4>4, <5>1
      <4> QED
        BY <4>3, <4>4
    <3>4. op.pc \in {"baseline", "clear", "mkdir", "write", "save", "reply"}
      BY <1>4 DEF IndInv, WriteInv
    <3> HIDE DEF left, kept
    <3> QED
      BY <3>1, <3>2, <3>3, <3>4
  <2>2. Promised!FailWrite(op.k)
    <3>1. PICK more \in New :
            /\ (left # op.was /\ op.was # NoDir) => (op.past # {} \/ op.was \in more)
            /\ kept = op.past \cup more
      BY <2>1
    <3>2. PICK k \in SkillIds, dir \in AllDirs : k = op.k /\ dir = left
      BY <1>1, <1>2
    <3>3. ShelfSeen' = [ShelfSeen EXCEPT ![k] = dir] /\ Promised!FailKeeps(k, dir, more)
      BY <1>3, <3>1, <3>2 DEF Promised!FailKeeps
    <3>4. more \in Promised!AtMostTwo
      BY <3>1, PromisedEntries DEF New, Promised!AtMostTwo
    <3> HIDE DEF left, kept
    <3>5. Promised!FailWrite(k)
      BY <3>3, <3>4, Zenon DEF Promised!FailWrite
    <3> QED
      BY <3>2, <3>5
  <2> QED
    BY <1>1, <2>2 DEF Promised!HostNext
<1>5. CASE op.kind = "delete"
  <2>1. /\ op.was # NoDir /\ kept \in SUBSET op.past
        /\ left # NoDir => kept = op.past
    <3>1. disk'[op.k] = disk[op.k] /\ vers'[op.k] = vers[op.k]
      BY <1>5, CutShortFacts DEF IndInv, DeleteInv
    <3> QED
      BY <1>5, <3>1 DEF IndInv, DeleteInv
  <2>2. Promised!FailDelete(op.k)
    <3> HIDE DEF left, kept
    <3> QED BY <1>2, <1>3, <2>1 DEF Promised!FailDelete
  <2> QED
    BY <1>1, <2>2 DEF Promised!HostNext
<1>6. CASE op.kind = "sync"
  <2>1. kept \in SUBSET op.past
    BY <1>6, CutShortFacts DEF IndInv, SyncInv
  <2>2. Promised!Replace(op.k)
    <3> HIDE DEF left, kept
    <3> QED BY <1>2, <1>3, <2>1 DEF Promised!Replace, Promised!Become
  <2> QED
    BY <1>1, <2>2 DEF Promised!HostNext
<1> QED
  BY <1>1, <1>4, <1>5, <1>6 DEF Kinds

\* the steps between the beginning and the end of an operation
LEMMA InsideStep ==
  ASSUME IndInv, IndInv',
         \/ Baseline \/ ClearFile \/ ClearDir \/ MakeDir \/ WriteFile \/ WriteOver
         \/ SaveVersion \/ DropVersion
  PROVE  ShelfSeen' = ShelfSeen /\ PastSeen' = PastSeen
<1>1. op # NoOp /\ op \in Operation /\ op.k \in SkillIds
  BY OpType DEF IndInv, Doing, Baseline, ClearFile, ClearDir, MakeDir, WriteFile, WriteOver,
                SaveVersion, DropVersion
<1>2. /\ op'.k = op.k /\ op'.was = op.was /\ op'.past = op.past /\ op' \in Operation
  <2>1. CASE UNCHANGED op
    BY <1>1, <2>1
  <2>2. CASE \E pc \in Pcs : op' = [op EXCEPT !.pc = pc]
    BY <1>1, <2>2 DEF Operation
  <2>3. CASE \E f \in op.todo : op' = [op EXCEPT !.todo = @ \ {f}]
    BY <1>1, <2>3, TreeFacts DEF Operation
  <2> QED
    BY <2>1, <2>2, <2>3 DEF Goto, AfterClear, Pcs, Baseline, ClearFile, ClearDir, MakeDir,
                            WriteFile, WriteOver, SaveVersion, DropVersion
<1>3. \A j \in SkillIds \ {op.k} : disk'[j] = disk[j]
  BY <1>1 DEF IndInv, TypeOK, Baseline, ClearFile, ClearDir, MakeDir, WriteFile, WriteOver,
              SaveVersion, DropVersion
<1>4. \A j \in SkillIds \ {op.k} : vers'[j] = vers[j]
  BY <1>1 DEF IndInv, TypeOK, save_skill_version, Baseline, ClearFile, ClearDir, MakeDir,
              WriteFile, WriteOver, SaveVersion, DropVersion
<1>5. op' # NoOp
  BY <1>2, SkillStoreAssumption
<1> QED
  BY <1>1, <1>2, <1>3, <1>4, <1>5, HiddenStep

LEMMA BeginHidden ==
  ASSUME IndInv, NEW kind \in Kinds, NEW k \in SkillIds, NEW c \in Trees, NEW pc \in Pcs,
         op = NoOp, Begin(kind, k, c, pc), vers' = vers,
         \A j \in SkillIds \ {k} : disk'[j] = disk[j]
  PROVE  ShelfSeen' = ShelfSeen /\ PastSeen' = PastSeen
<1>1. op' # NoOp /\ op'.k = k /\ op'.was = disk[k] /\ op'.past = Held(vers[k])
  BY BeginType DEF IndInv
<1> QED
  BY <1>1, BeginStep

LEMMA RequestHidden ==
  ASSUME IndInv, Routes
  PROVE  ShelfSeen' = ShelfSeen /\ PastSeen' = PastSeen
<1>1. PICK k \in SkillIds :
        \/ \E c \in Sources : create_skill(k, c) \/ update_skill(k, c)
        \/ rollback_skill_version(k) \/ delete_skill(k)
  BY DEF Routes
<1>2. ASSUME NEW c \in Sources, create_skill(k, c)
      PROVE  ShelfSeen' = ShelfSeen /\ PastSeen' = PastSeen
  BY <1>2, BeginHidden, SkillStoreAssumption DEF create_skill, Kinds, Pcs, IndInv, TypeOK
<1>3. ASSUME NEW c \in Trees, update_skill(k, c)
      PROVE  ShelfSeen' = ShelfSeen /\ PastSeen' = PastSeen
  <2>1. PICK pc \in Pcs : Begin("write", k, c, pc)
    BY <1>3 DEF update_skill, Pcs
  <2>2. op = NoOp /\ vers' = vers /\ disk' = disk
    BY <1>3 DEF update_skill
  <2> QED
    BY <2>1, <2>2, BeginHidden DEF Kinds
<1>4. ASSUME rollback_skill_version(k)
      PROVE  ShelfSeen' = ShelfSeen /\ PastSeen' = PastSeen
  <2>1. PICK v \in vers[k] : v[2] # Torn /\ update_skill(k, v[2])
    BY <1>4 DEF rollback_skill_version
  <2>2. v[2] \in Trees
    BY <2>1 DEF IndInv, TypeOK, Version
  <2> QED
    BY <1>3, <2>1, <2>2
<1>5. ASSUME delete_skill(k)
      PROVE  ShelfSeen' = ShelfSeen /\ PastSeen' = PastSeen
  BY <1>5, BeginHidden, TreeFacts DEF delete_skill, Kinds, Pcs
<1> QED
  BY <1>1, <1>2, <1>3, <1>4, <1>5, SkillStoreAssumption

LEMMA InitRefines == Init => Promised!HostInit
<1> SUFFICES ASSUME Init PROVE Promised!HostInit
  OBVIOUS
<1>1. op = NoOp /\ disk \in [SkillIds -> AllDirs] /\ vers = [k \in SkillIds |-> {}]
  BY SkillStoreAssumption DEF Init, AllDirs
<1>2. ShelfSeen \in [SkillIds -> AllDirs]
  BY <1>1 DEF ShelfSeen
<1>3. PastSeen = [k \in SkillIds |-> {}]
  BY <1>1 DEF PastSeen, Held
<1> QED
  BY <1>2, <1>3 DEF Promised!HostInit

LEMMA StepRefines ==
  IndInv /\ IndInv' /\ [Next]_vars => [Promised!HostNext]_(Promised!hostVars)
<1> SUFFICES ASSUME IndInv, IndInv', [Next]_vars
             PROVE  Promised!HostNext \/ (ShelfSeen' = ShelfSeen /\ PastSeen' = PastSeen)
  BY DEF Promised!hostVars
<1>1. CASE Routes
  BY <1>1, RequestHidden
<1>2. CASE Steps
  BY <1>2, InsideStep, ReplyRefines, DropOverRefines DEF Steps
<1>3. CASE Startup
  <2>1. CASE Serve
    BY <2>1 DEF Serve, ShelfSeen, PastSeen
  <2>2. ASSUME NEW k \in SkillIds, sync_builtin_skills(k)
        PROVE  ShelfSeen' = ShelfSeen /\ PastSeen' = PastSeen
    BY <2>2, BeginHidden, SkillStoreAssumption DEF sync_builtin_skills, Kinds, Pcs
  <2> QED
    BY <1>3, <2>1, <2>2 DEF Startup
<1>4. CASE Fail
  BY <1>4, CutRefines DEF Fail
<1>5. CASE Crash
  <2>1. CASE op = NoOp
    BY <1>5, <2>1 DEF Crash, CutShort, ShelfSeen, PastSeen
  <2>2. CASE op # NoOp
    BY <1>5, <2>2, CutRefines DEF Crash
  <2> QED
    BY <2>1, <2>2
<1>6. CASE UNCHANGED vars
  BY <1>6 DEF vars, ShelfSeen, PastSeen
<1> QED
  BY <1>1, <1>2, <1>3, <1>4, <1>5, <1>6 DEF Next

(* SkillsService implements the routes of SkillHost, which ConfigApply is   *)
(* built on: an operation happens when it answers, or fails the way the     *)
(* promise allows, however many calls to the file system it takes.          *)
THEOREM StoreImplementsHost == Spec => ImplementsSkillHost
<1>1. Init => Promised!HostInit
  BY InitRefines
<1>2. IndInv /\ IndInv' /\ [Next]_vars => [Promised!HostNext]_(Promised!hostVars)
  BY StepRefines
<1> QED
  BY <1>1, <1>2, Invariance, PTL DEF Spec, ImplementsSkillHost, Promised!HostSpec
=============================================================================

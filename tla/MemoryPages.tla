---------------------------- MODULE MemoryPages ----------------------------
(***************************************************************************)
(* The page store of the memory service: MemoryService over                *)
(* FilesystemMemoryStore.  Clients are the requests of the server and the  *)
(* processes of the command-line client that share one root directory.     *)
(* Operations that write hold an flock on it; readers do not.  Every call  *)
(* to the file system is a step, and may fail; a process may end at any.   *)
(*                                                                         *)
(* A page is its raw links and a stamp (updated_at): the revision, a hash  *)
(* of the bytes, is the page itself.                                       *)
(***************************************************************************)
EXTENDS FiniteSets, Naturals, Sequences, SequencesExt

CONSTANTS
  Clients,      \* each serves one request
  Nobody,
  Paths,        \* a page path is the sequence of its segments
  Up,           \* the part ".." of a link
  NoFile,
  Garbled,      \* a file whose frontmatter does not parse
  MaxParts,     \* of a link
  Bodies,       \* the links a request may give a page
  First,        \* the files the store may start from
  Routes,       \* the operations that are called
  FaultKinds,
  MaxFaults

Segments == UNION {ToSet(p) : p \in Paths}
Targets == {t \in UNION {[1..n -> Segments \cup {Up}] : n \in 1..MaxParts} : Last(t) # Up}
Stamps == Clients \cup {Nobody}
Pages == [links : SUBSET Targets, stamp : Stamps]
Files == Pages \cup {Garbled}

ASSUME MemoryAssumption ==
  /\ Nobody \notin Clients /\ Up \notin Segments /\ <<>> \notin Paths /\ Paths # {}
  /\ NoFile \notin Files /\ Garbled \notin Pages
  /\ Bodies \subseteq SUBSET Targets
  /\ First \subseteq [Paths -> Files \cup {NoFile}]
  /\ MaxFaults \in Nat

Hidden == [kind : {"stage", "backup"}, by : Clients, p : Paths, file : Files]
Pcs == {"idle", "lock", "decide", "stage", "rename", "unlink", "backup", "install", "clean",
        "takeout", "restore", "unstage", "unlock", "page", "links", "scan", "each", "over"}
Ops == {"write", "move", "remove", "read", "query"}

VARIABLES
  files,     \* the page files
  hidden,    \* temporary files: no scan shows them
  lock,      \* the holder of .memory.lock
  req,
  pages,     \* what the operations that took effect amount to
  cut,       \* a move was left in the middle
  faults

vars == <<files, hidden, lock, req, pages, cut, faults>>

\* plan: the files a move installs, the destination and the rewritten referrers
Requested == [op : Ops, pc : Pcs, p : Paths, q : Paths, exp : Files \cup {NoFile},
              new : Pages, over : BOOLEAN, plan : SUBSET (Paths \X Files), left : SUBSET Paths,
              out : {"none", "ok", "missing", "error"}]

TypeOK ==
  /\ files \in [Paths -> Files \cup {NoFile}]
  /\ hidden \subseteq Hidden
  /\ lock \in Clients \cup {Nobody}
  /\ req \in [Clients -> Requested]
  /\ pages \in [Paths -> Files \cup {NoFile}]
  /\ cut \in BOOLEAN /\ faults \in 0..MaxFaults

Blank ==
  LET p == CHOOSE x \in Paths : TRUE
  IN [op |-> "read", pc |-> "idle", p |-> p, q |-> p, exp |-> NoFile,
      new |-> [links |-> {}, stamp |-> Nobody], over |-> FALSE, plan |-> {}, left |-> {}, out |-> "none"]

Init ==
  /\ files \in First /\ pages = files
  /\ hidden = {} /\ lock = Nobody
  /\ req = [c \in Clients |-> Blank]
  /\ cut = FALSE /\ faults = 0

----------------------------------------------------------------------------
(* Links.                                                                   *)

\* a part ".." takes the last segment away, where there is one
Walk(dir, part) == IF part # Up THEN Append(dir, part) ELSE IF dir = <<>> THEN dir ELSE Front(dir)
resolve_relative_target(p, t) == FoldLeft(Walk, Front(p), t)

relative_target(p, q) ==
  LET common == LongestCommonPrefix({Front(p), Front(q)})
  IN [i \in 1..(Len(p) - 1 - Len(common)) |-> Up] \o SubSeq(q, Len(common) + 1, Len(q))

\* MaxParts leaves room for the links a move writes
ASSUME LinkAssumption == \A p, q \in Paths : relative_target(p, q) \in Targets

\* the relative target of a page resolves to the page: a fact about sequences
ASSUME ResolveAssumption ==
  \A p, q \in Paths : resolve_relative_target(p, relative_target(p, q)) = q

\* Mutant: the new target is relative to the page that moves, not to the page that has it.
rewrite_links_from_source(p, ls, s, d) ==
  {IF resolve_relative_target(p, t) = s THEN relative_target(s, d) ELSE t : t \in ls}
rewrite_links(p, ls, s, d) ==
  {IF resolve_relative_target(p, t) = s THEN relative_target(p, d) ELSE t : t \in ls}

LinksTo(p, f) == IF f \in Pages THEN {resolve_relative_target(p, t) : t \in f.links} ELSE {}

----------------------------------------------------------------------------
(* Requests.                                                                *)

At(c, pc) == req[c].pc = pc
Put(c, r) == req' = [req EXCEPT ![c] = r]
Goto(c, pc) == Put(c, [req[c] EXCEPT !.pc = pc])
Quit(c, pc, out) == Put(c, [req[c] EXCEPT !.pc = pc, !.out = out, !.plan = {}])
Fault(kind) == kind \in FaultKinds /\ faults < MaxFaults /\ faults' = faults + 1
NoFault == UNCHANGED faults

\* the revision a client quotes is one it has read, now or some time ago
Ask(c) ==
  /\ At(c, "idle")
  /\ \E op \in Routes, p \in Paths, e \in {NoFile} \cup {files[x] : x \in Paths} :
       \/ /\ op = "write"
          /\ \E ls \in Bodies, o \in BOOLEAN :
               Put(c, [Blank EXCEPT !.op = op, !.pc = "lock", !.p = p, !.exp = e, !.over = o,
                                    !.new = [links |-> ls, stamp |-> c]])
       \/ /\ op = "move"
          /\ \E q \in Paths \ {p} :
               Put(c, [Blank EXCEPT !.op = op, !.pc = "lock", !.p = p, !.q = q, !.exp = e])
       \/ op = "remove" /\ Put(c, [Blank EXCEPT !.op = op, !.pc = "lock", !.p = p, !.exp = e])
       \/ /\ op = "read" /\ e = NoFile
          /\ Put(c, [Blank EXCEPT !.p = p, !.pc = "page", !.exp = pages[p]])
       \/ /\ op = "query" /\ e = NoFile /\ p = Blank.p
          /\ Put(c, [Blank EXCEPT !.op = op, !.pc = "scan"])
  /\ UNCHANGED <<files, hidden, lock, pages, cut, faults>>

with_lock(c) ==
  /\ At(c, "lock") /\ lock = Nobody
  /\ lock' = c /\ Goto(c, "decide")
  /\ UNCHANGED <<files, hidden, pages, cut, faults>>

Unlock(c) ==
  /\ At(c, "unlock")
  /\ lock' = Nobody
  /\ Goto(c, IF req[c].op = "write" /\ req[c].out = "ok" THEN "links" ELSE "over")
  /\ UNCHANGED <<files, hidden, pages, cut, faults>>

read_page(c) ==
  LET f == files[req[c].p]
  IN /\ At(c, "page")
     /\ \/ f \in Pages /\ Goto(c, "links")
        \/ f = NoFile /\ Quit(c, "over", "missing")
        \/ f = Garbled /\ Quit(c, "over", "error")
     /\ UNCHANGED <<files, hidden, lock, pages, cut, faults>>

\* the handlers of read_page and write_page read the page again for its links
links(c) ==
  /\ At(c, "links")
  /\ Quit(c, "over", IF files[req[c].p] = NoFile THEN "missing"
                     ELSE IF files[req[c].p] = Garbled THEN "error" ELSE "ok")
  /\ UNCHANGED <<files, hidden, lock, pages, cut, faults>>

\* hidden files do not end in .md
Scanned == {p \in Paths : files[p] # NoFile}

list_pages(c) ==
  /\ At(c, "scan")
  /\ Put(c, [req[c] EXCEPT !.pc = "each", !.left = Scanned])
  /\ UNCHANGED <<files, hidden, lock, pages, cut, faults>>

\* query_pages, like list_tags and the backlinks of links, fails when a page of the scan is gone
query_pages(c) ==
  /\ At(c, "each") /\ req[c].op = "query"
  /\ \/ req[c].left = {} /\ Quit(c, "over", "ok")
     \/ \E p \in req[c].left :
          IF files[p] = NoFile
          THEN Put(c, [req[c] EXCEPT !.pc = "over", !.out = "missing", !.p = p, !.left = {}])
          ELSE Put(c, [req[c] EXCEPT !.left = @ \ {p}])
  /\ UNCHANGED <<files, hidden, lock, pages, cut, faults>>

----------------------------------------------------------------------------
(* Writing and removing one page.                                           *)

Matches(r, f) == r.exp = NoFile \/ r.exp = f
KeepStore == UNCHANGED <<files, hidden, lock, pages, cut>>

WriteRefused(r, f) ==
  \/ r.exp # NoFile /\ f # r.exp
  \/ r.exp = NoFile /\ f # NoFile /\ ~r.over
  \/ f = Garbled

write_page(c) ==
  LET r == req[c]
  IN /\ At(c, "decide") /\ r.op = "write"
     /\ IF WriteRefused(r, files[r.p]) THEN Quit(c, "unlock", "error") ELSE Goto(c, "rename")
     /\ KeepStore /\ NoFault

\* the new bytes go to a temporary file, which replaces the page
write_atomically(c) ==
  LET r == req[c]
  IN /\ At(c, "rename")
     /\ \/ /\ files' = [files EXCEPT ![r.p] = r.new]
           /\ pages' = [pages EXCEPT ![r.p] = r.new]
           /\ Quit(c, "unlock", "ok") /\ NoFault
        \/ Fault("io") /\ Quit(c, "unlock", "error") /\ UNCHANGED <<files, pages>>
     /\ UNCHANGED <<hidden, lock, cut>>

remove_page(c) ==
  LET r == req[c]
  IN /\ At(c, "decide") /\ r.op = "remove"
     /\ IF files[r.p] = NoFile \/ ~Matches(r, files[r.p])
        THEN Quit(c, "unlock", "error") ELSE Goto(c, "unlink")
     /\ KeepStore /\ NoFault

remove_file(c) ==
  LET r == req[c]
  IN /\ At(c, "unlink")
     /\ \/ /\ files' = [files EXCEPT ![r.p] = NoFile]
           /\ pages' = [pages EXCEPT ![r.p] = NoFile]
           /\ Quit(c, "unlock", "ok") /\ NoFault
        \/ Fault("io") /\ Quit(c, "unlock", "error") /\ UNCHANGED <<files, pages>>
     /\ UNCHANGED <<hidden, lock, cut>>

----------------------------------------------------------------------------
(* Moving a page: commit_move stages every new file, renames every old one  *)
(* to a backup, and renames the staged ones into place.                     *)

Rewritten(r) ==
  {<<p, [files[p] EXCEPT !.links = rewrite_links(p, @, r.p, r.q)]>> :
     p \in {x \in Paths \ {r.p} : r.p \in LinksTo(x, files[x])}}

move_page(c) ==
  LET r == req[c]
  IN /\ At(c, "decide") /\ r.op = "move"
     /\ IF files[r.p] = NoFile \/ ~Matches(r, files[r.p]) \/ files[r.q] # NoFile
        THEN Quit(c, "unlock", "error")
        ELSE Put(c, [r EXCEPT !.pc = "stage", !.plan = {<<r.q, files[r.p]>>} \cup Rewritten(r)])
     /\ KeepStore /\ NoFault

Aside(kind, c, p, f) == [kind |-> kind, by |-> c, p |-> p, file |-> f]
Mine(kind, c) == {h \in hidden : h.kind = kind /\ h.by = c}
PathsOf(hs) == {h.p : h \in hs}

\* the destination comes first
FirstOf(r, todo) == {x \in todo : r.q \in {y[1] : y \in todo} => x[1] = r.q}

\* the first failure leaves nothing staged and needs no clean-up
stage_change(c) ==
  LET r == req[c]
      todo == {x \in r.plan : x[1] \notin PathsOf(Mine("stage", c))}
  IN /\ At(c, "stage")
     /\ \/ /\ todo = {} /\ Goto(c, "backup") /\ UNCHANGED hidden /\ NoFault
        \/ \E x \in FirstOf(r, todo) :
             \/ hidden' = hidden \cup {Aside("stage", c, x[1], x[2])} /\ UNCHANGED req /\ NoFault
             \/ /\ Fault("io") /\ UNCHANGED hidden
                /\ IF x[1] = r.q THEN Quit(c, "unlock", "error") ELSE Goto(c, "unstage")
             \/ Fault("resolve") /\ x[1] # r.q /\ Quit(c, "unlock", "error") /\ UNCHANGED hidden
     /\ UNCHANGED <<files, lock, pages, cut>>

Originals(r) == {r.p} \cup ({x[1] : x \in r.plan} \ {r.q})

\* a failure to resolve the path of a referrer returns without restoring the backups
BackUp(c, after) ==
  LET r == req[c]
      todo == {p \in Originals(r) : p \notin PathsOf(Mine("backup", c))}
      next == IF r.p \in todo THEN {r.p} ELSE todo
  IN /\ At(c, "backup")
     /\ \/ todo = {} /\ Goto(c, after) /\ UNCHANGED <<files, hidden, cut>> /\ NoFault
        \/ \E p \in next :
             \/ /\ hidden' = hidden \cup {Aside("backup", c, p, files[p])}
                /\ files' = [files EXCEPT ![p] = NoFile]
                /\ UNCHANGED <<req, cut>> /\ NoFault
             \/ /\ Fault("io") /\ Goto(c, IF p = r.p THEN "unstage" ELSE "restore")
                /\ UNCHANGED <<files, hidden, cut>>
             \/ /\ Fault("resolve") /\ p # r.p /\ Quit(c, "unlock", "error")
                /\ cut' = TRUE /\ UNCHANGED <<files, hidden>>
     /\ UNCHANGED <<lock, pages>>

backup_file(c) == BackUp(c, "install")

Moved(r) == [p \in Paths |-> IF p = r.p THEN NoFile
                             ELSE IF \E x \in r.plan : x[1] = p
                                  THEN (CHOOSE x \in r.plan : x[1] = p)[2]
                             ELSE pages[p]]

Install(c, next) ==
  LET r == req[c]
      todo == Mine("stage", c)
  IN /\ At(c, "install")
     /\ \/ /\ todo = {} /\ Goto(c, "clean")
           /\ pages' = Moved(r) /\ UNCHANGED <<files, hidden>> /\ NoFault
        \/ \E h \in {h \in todo : r.q \in PathsOf(todo) => h.p = r.q} :
             \/ /\ files' = [files EXCEPT ![h.p] = h.file] /\ hidden' = hidden \ {h}
                /\ UNCHANGED <<req, pages>> /\ NoFault
             \/ Fault("io") /\ Goto(c, next) /\ UNCHANGED <<files, hidden, pages>>
     /\ UNCHANGED <<lock, cut>>

install_without_restore(c) == Install(c, "unstage")
install(c) == Install(c, "takeout")

remove_backups(c) ==
  LET r == req[c]
  IN /\ At(c, "clean")
     /\ \/ Mine("backup", c) = {} /\ Quit(c, "unlock", "ok") /\ UNCHANGED hidden /\ NoFault
        \/ \E h \in Mine("backup", c) :
             hidden' = hidden \ {h} /\ UNCHANGED req /\ NoFault
        \/ Fault("io") /\ Quit(c, "unlock", "ok") /\ UNCHANGED hidden
     /\ UNCHANGED <<files, lock, pages, cut>>

----------------------------------------------------------------------------
(* Taking a failed move back: every step is tried once.                     *)

\* what was installed is at a path that is no longer staged
remove_installed(c) ==
  LET r == req[c]
      done == {x[1] : x \in r.plan} \ PathsOf(Mine("stage", c))
      todo == {p \in done : files[p] # NoFile}
  IN /\ At(c, "takeout")
     /\ \/ todo = {} /\ Goto(c, "restore") /\ UNCHANGED files
        \/ \E p \in todo : files' = [files EXCEPT ![p] = NoFile] /\ UNCHANGED req
     /\ UNCHANGED <<hidden, lock, pages, cut, faults>>

restore_backups(c) ==
  /\ At(c, "restore")
  /\ \/ Mine("backup", c) = {} /\ Goto(c, "unstage") /\ UNCHANGED <<files, hidden>>
     \/ \E h \in Mine("backup", c) :
          files' = [files EXCEPT ![h.p] = h.file] /\ hidden' = hidden \ {h} /\ UNCHANGED req
  /\ UNCHANGED <<lock, pages, cut, faults>>

cleanup_staged(c) ==
  /\ At(c, "unstage")
  /\ \/ Mine("stage", c) = {} /\ Quit(c, "unlock", "error") /\ UNCHANGED hidden
     \/ \E h \in Mine("stage", c) : hidden' = hidden \ {h} /\ UNCHANGED req
  /\ UNCHANGED <<files, lock, pages, cut, faults>>

\* the system drops the lock of a process that ends; nobody looks for its hidden files
Crash(c) ==
  /\ Fault("crash") /\ ~At(c, "idle") /\ ~At(c, "over")
  /\ Quit(c, "over", "error")
  /\ lock' = IF lock = c THEN Nobody ELSE lock
  /\ cut' = (cut \/ req[c].pc \in {"backup", "install", "takeout", "restore"})
  /\ UNCHANGED <<files, hidden, pages>>

----------------------------------------------------------------------------
Next ==
  \E c \in Clients :
    \/ Ask(c) \/ with_lock(c) \/ Unlock(c) \/ read_page(c) \/ links(c)
    \/ list_pages(c) \/ query_pages(c)
    \/ write_page(c) \/ write_atomically(c) \/ remove_page(c) \/ remove_file(c)
    \/ move_page(c) \/ stage_change(c) \/ backup_file(c) \/ install(c) \/ remove_backups(c)
    \/ remove_installed(c) \/ restore_backups(c) \/ cleanup_staged(c) \/ Crash(c)

Spec == Init /\ [][Next]_vars

----------------------------------------------------------------------------
\* When nobody holds the lock, every operation has happened as a whole or not at all,
\* although a call to the file system failed: commit_move takes back what it did.
AllOrNothing == lock = Nobody /\ ~cut => files = pages

\* No operation loses a page it was not asked to remove or replace, not even when the
\* process ends in the middle of a move: its bytes are in the page file or in a hidden
\* file next to it.
NothingLost ==
  \A p \in Paths : pages[p] # NoFile =>
    \/ files[p] # NoFile
    \/ \E h \in hidden : h.file = pages[p]

\* A write that quotes a revision replaces that revision and no other: what others wrote
\* after it was read is not lost.
NoLostUpdate ==
  \A c \in Clients :
    At(c, "rename") /\ ~cut /\ pages' # pages /\ req'[c].pc = "unlock" /\ req[c].exp # NoFile
      => pages[req[c].p] = req[c].exp

\* What concurrent operations, failing renames and a crash may not do to the pages: leave
\* an operation half done, lose a page, or overwrite a revision nobody quoted.
PagesSurvive == [][AllOrNothing' /\ NothingLost' /\ NoLostUpdate]_vars

\* A move leaves no dangling link behind: every page that referred to the source refers to
\* the destination, and no other reference changes.
MoveKeepsLinks ==
  [][\A c \in Clients : install(c) /\ ~cut /\ pages' # pages =>
       \A p \in Paths \ {req[c].p, req[c].q} :
         LinksTo(p, pages'[p]) =
           {IF t = req[c].p THEN req[c].q ELSE t : t \in LinksTo(p, pages[p])}]_vars

\* "must appear atomic to every other local or remote caller" (store.rs, with_lock): a page
\* that is there before and after a move is there for a reader who asks during it.  No run
\* checks it: it fails, for readers take no lock and a move first renames every page it
\* touches to a hidden file.
ReadersSeePages ==
  \A c \in Clients :
    req[c].op = "read" /\ req[c].out = "missing" /\ req[c].exp # NoFile
      => pages[req[c].p] = NoFile
=============================================================================

---------------------------- MODULE CarrierTrees ----------------------------
(***************************************************************************)
(* The files of a carrier tree through backups, migrations, placements and *)
(* restores: manifest.py, migration.py and the filesystem transport.  Here *)
(* one command at a time works on the device, as the lock intends;         *)
(* CarrierTransactions has the commands that overlap and die, and takes a  *)
(* whole tree for a value.                                                 *)
(*                                                                         *)
(* A tree maps paths, sequences of names, to entries.  The data of a file  *)
(* stands for its size, hash and mode, that of a link for its target: the  *)
(* name of a file next to it, which may not exist.                         *)
(*                                                                         *)
(* Meanwhile a report of the installed bundles (state.py) may be under     *)
(* way.  It takes no lock, and exports the device, name by name, into a    *)
(* directory that all reports of a device share.  Here reports do not      *)
(* overlap each other, only the placements.                                *)
(***************************************************************************)
EXTENDS Sequences, Integers

CONSTANTS
  Initial,      \* the trees the device may hold at first
  Asset,        \* the CarrierLab bundle to install: a tree with one top name
  Lab,          \* that name, CarrierLab.bundle
  Preserved,    \* CarrierLab-preserved-<stamp>.bundle, for each second
  BundleName,   \* the names that end in .bundle
  AllowedName,  \* those that begin like Lab, or with CarrierLab-preserved-
  MaxInstalls   \* bound: placements of a desired tree

Strategy == {"replace", "preserve-and-replace", "abort"}

Name == STRING

Entry == [kind : {"file", "dir", "link"}, data : Name]

\* A tree: every path is below directories of the tree, and a bundle is a
\* directory.
IsTree(t) ==
  /\ t \in [DOMAIN t -> Entry]
  /\ \A p \in DOMAIN t :
       /\ p \in Seq(Name) /\ Len(p) > 0
       /\ \A n \in 1 .. Len(p) - 1 :
            SubSeq(p, 1, n) \in DOMAIN t /\ t[SubSeq(p, 1, n)].kind = "dir"
  /\ \A n \in BundleName : <<n>> \in DOMAIN t => t[<<n>>].kind = "dir"

ASSUME ConstantAssumption ==
  /\ Lab \notin Preserved
  /\ {Lab} \cup Preserved \subseteq BundleName \cap AllowedName
  /\ BundleName \cup AllowedName \subseteq Name
  /\ MaxInstalls \in Nat
  /\ \A t \in Initial \cup {Asset} : IsTree(t)
  /\ <<Lab>> \in DOMAIN Asset
  /\ \A p \in DOMAIN Asset : p[1] = Lab

VARIABLES
  device,     \* the tree on the device
  before,     \* history: what it was when the backup was taken
  original,   \* the last verified backup
  desired,    \* the tree that has been built from it
  strategy,   \* the strategy it was built with
  whole,      \* the last placement copied everything it was given
  installs,   \* how many placements there were
  pc,
  reader,     \* a report under way: the names left to copy, whether a copy
              \* failed; history: the names seen on the device, and those
              \* always there, since it began
  export      \* state-export: the names it holds

placed  == <<device, whole, installs>>
planned == <<before, original, desired, strategy>>
reading == <<reader, export>>
vars    == <<placed, planned, reading, pc>>

\* No report is under way.
Idle == [on |-> FALSE, todo |-> {}, failed |-> FALSE, seen |-> {}, stayed |-> {}]

\* The names at the top of a tree.
Top(t) == {p[1] : p \in DOMAIN t}

\* The device changes: a report under way may see it before and after.
Becomes(t) ==
  /\ device' = t
  /\ reader' = IF reader.on
                 THEN [reader EXCEPT !.seen = @ \cup Top(t), !.stayed = @ \cap Top(t)]
                 ELSE reader

Init ==
  /\ device \in Initial
  /\ before = device
  /\ original = device
  /\ desired = device
  /\ strategy = "preserve-and-replace"
  /\ whole = TRUE
  /\ installs = 0
  /\ pc = "idle"
  /\ reader = Idle
  /\ export = {}

(***************************************************************************)
(* Manifests: build_manifest has an entry for every path; the comparison   *)
(* looks at links by their target.                                         *)
(***************************************************************************)
AnyLink(e, f) == "link" \in {e.kind, f.kind}

Target(e) == IF e.kind = "link" THEN e.data ELSE "none"

compare_manifests(left, right) ==
  LET both == DOMAIN left \cap DOMAIN right IN
  [ added    |-> DOMAIN right \ DOMAIN left,
    removed  |-> DOMAIN left \ DOMAIN right,
    modified |-> {p \in both : left[p] # right[p] /\
                    (AnyLink(left[p], right[p])
                       => Target(left[p]) = Target(right[p]))},
    symlink_target_changed |->
      {p \in both : AnyLink(left[p], right[p]) /\
                    Target(left[p]) # Target(right[p])} ]

Changed(diff) ==
  diff.added \cup diff.removed \cup diff.modified \cup diff.symlink_target_changed

SameButForLinks(left, right) ==
  LET diff == compare_manifests(left, right) IN
  diff.added \cup diff.removed \cup diff.modified = {}

Same(left, right) == Changed(compare_manifests(left, right)) = {}

(***************************************************************************)
(* build_desired_tree                                                      *)
(***************************************************************************)

\* The paths a migration may change: a test of how the path begins, which some
\* names pass that are of no CarrierLab bundle.
IsAllowedPath(p) == p[1] \in AllowedName

\* Path p, at or below src, when src has become dst.
Rebased(p, src, dst) == dst \o SubSeq(p, Len(src) + 1, Len(p))

\* Path p is src or a path under it.
Below(p, src) == Len(p) >= Len(src) /\ SubSeq(p, 1, Len(src)) = src

\* Tree t with src moved to dst, where there is nothing.
Moved(t, src, dst) ==
  LET old == {p \in DOMAIN t : Below(p, src)} IN
  [q \in (DOMAIN t \ old) \cup {Rebased(p, src, dst) : p \in old} |->
     IF q \in DOMAIN t \ old THEN t[q] ELSE t[Rebased(q, dst, src)]]

\* shutil.move: into the destination if that is a directory already.
MoveTarget(t, src, name) ==
  IF <<name>> \in DOMAIN t THEN <<name>> \o src ELSE <<name>>

DroppedAway(t, name) == [p \in {q \in DOMAIN t : ~Below(q, <<Lab>>)} |-> t[p]]

\* The CarrierLab bundle of t, if it has one, under its preserved name.
MovedAway(t, name) ==
  IF <<Lab>> \in DOMAIN t THEN Moved(t, <<Lab>>, MoveTarget(t, <<Lab>>, name))
                          ELSE t

\* The CarrierLab bundle of t is replaced by the asset.
WithAsset(t) ==
  [p \in {q \in DOMAIN t : ~Below(q, <<Lab>>)} \cup DOMAIN Asset |->
     IF p \in DOMAIN Asset THEN Asset[p] ELSE t[p]]

(***************************************************************************)
(* Placement: the filesystem transport follows links, where exports and    *)
(* migrations keep them.                                                   *)
(***************************************************************************)

\* The path a link at p leads to.
NextTo(p, name) == SubSeq(p, 1, Len(p) - 1) \o <<name>>

\* A link that leads nowhere, or to itself.
Dangling(t, p) ==
  t[p].kind = "link" /\ NextTo(p, t[p].data) \notin DOMAIN t \ {p}

FilesOnly(t) == [p \in {q \in DOMAIN t : t[q].kind = "file"} |-> t[p]]

\* What copytree makes of t without symlinks=True: the file for the link, and
\* nothing for a link that leads nowhere.
Followed(t) ==
  [p \in {q \in DOMAIN t : ~Dangling(t, q)} |->
     IF t[p].kind = "link" THEN t[NextTo(p, t[p].data)] ELSE t[p]]

ExportedFollowing(t) == Followed(t)

\* What an export makes of t.
Exported(t) == t

\* A partial placement answers ok with one file at most: the first thing the
\* source lists, if that is a file or a link that leads to one.
FirstOnly(t) ==
  LET f == Followed(t) IN
  { [q \in {r \in {p} \cap DOMAIN f : f[r].kind = "file"} |-> f[q]] :
      p \in {r \in DOMAIN t : Len(r) = 1} }

\* install_tree first removes the tree that is there.
Wipe(to) ==
  /\ Becomes(<<>>)
  /\ pc' = to
  /\ UNCHANGED <<planned, whole, export>>

\* Then it copies all of t, with an error at the end if a link leads nowhere,
\* or a part of it.
install_tree(t, done, raised) ==
  /\ \/ /\ Becomes(Followed(t))
        /\ whole' = TRUE
        /\ pc' = IF \E p \in DOMAIN t : Dangling(t, p) THEN raised ELSE done
     \/ /\ \E part \in FirstOnly(t) : Becomes(part)
        /\ whole' = FALSE
        /\ pc' = done
  /\ UNCHANGED <<planned, installs, export>>

(***************************************************************************)
(* The operations on the device                                            *)
(***************************************************************************)
Backup ==
  /\ pc \in {"idle", "waiting", "lost"}
  /\ before' = device
  /\ original' = Exported(device)
  /\ pc' = "backed"
  /\ UNCHANGED <<placed, desired, strategy, reading>>

\* The tree with CarrierLab's bundle out of the asset's way.
Cleared(t, s, name) ==
  IF s = "preserve-and-replace" THEN MovedAway(t, name) ELSE t

\* The CarrierLab bundle that is there must stay, or cannot be preserved.
Stuck(t, s, name) ==
  /\ <<Lab>> \in DOMAIN t
  /\ \/ s = "abort"
     \/ s = "preserve-and-replace" /\ MoveTarget(t, <<Lab>>, name) \in DOMAIN t

\* The desired tree, when the second of the build gives the name for a bundle
\* that has to be preserved; it may be the second of an earlier build.
BuildDesired ==
  /\ pc = "backed"
  /\ \E s \in Strategy, name \in Preserved :
       LET tree == WithAsset(Cleared(original, s, name)) IN
       IF \/ Stuck(original, s, name)
          \/ \E p \in Changed(compare_manifests(original, tree)) : ~IsAllowedPath(p)
         THEN pc' = "idle" /\ UNCHANGED <<desired, strategy>>
         ELSE pc' = "built" /\ desired' = tree /\ strategy' = s
  /\ UNCHANGED <<placed, before, original, reading>>

Install ==
  /\ pc = "built" /\ installs < MaxInstalls
  /\ Wipe("placing")
  /\ installs' = installs + 1

InstallCopy ==
  /\ pc = "placing"
  /\ install_tree(desired, "installed", "failed")

\* verify_tree: what is there now, against the manifest of the desired tree.
\* The transaction then waits for its binding, and may still be recovered.
VerifyInstall ==
  /\ pc = "installed"
  /\ pc' = IF Same(desired, device) THEN "waiting" ELSE "failed"
  /\ UNCHANGED <<placed, planned, reading>>

Restore ==
  /\ pc \in {"backed", "failed", "waiting"}
  /\ Wipe("restoring")
  /\ UNCHANGED installs

\* A copy that raises leaves the restore in RESTORE_STARTED, for good.
RestoreCopy ==
  /\ pc = "restoring"
  /\ install_tree(original, "restored", "wedged")

VerifyRestore ==
  /\ pc = "restored"
  /\ pc' = IF Same(original, device) THEN "idle" ELSE "lost"
  /\ UNCHANGED <<placed, planned, reading>>

(***************************************************************************)
(* read_installed_bundles                                                  *)
(***************************************************************************)
BeginReportMerging ==
  /\ ~reader.on
  /\ reader' = [Idle EXCEPT !.on = TRUE, !.todo = Top(device),
                            !.seen = Top(device), !.stayed = Top(device)]
  /\ UNCHANGED <<placed, planned, export, pc>>

\* What an earlier report has exported is removed, and copytree lists the tree.
BeginReport ==
  /\ ~reader.on
  /\ reader' = [Idle EXCEPT !.on = TRUE, !.todo = Top(device),
                            !.seen = Top(device), !.stayed = Top(device)]
  /\ export' = {}
  /\ UNCHANGED <<placed, planned, pc>>

\* One name is copied.  If it is gone, copytree raises once it is through.
CopyName ==
  /\ \E n \in reader.todo :
       /\ reader' = [reader EXCEPT !.todo = @ \ {n}, !.failed = @ \/ n \notin Top(device)]
       /\ export' = export \cup ({n} \cap Top(device))
  /\ UNCHANGED <<placed, planned, pc>>

\* The bundles of the export, or none if it has raised.
Listed == IF reader.failed THEN {} ELSE export \cap BundleName

\* The report is printed.
Report ==
  /\ reader.on /\ reader.todo = {}
  /\ reader' = Idle
  /\ UNCHANGED <<placed, planned, export, pc>>

Next ==
  \/ Backup \/ BuildDesired \/ Install \/ InstallCopy \/ VerifyInstall
  \/ Restore \/ RestoreCopy \/ VerifyRestore
  \/ BeginReport \/ CopyName \/ Report

Spec == Init /\ [][Next]_vars

-----------------------------------------------------------------------------
(***************************************************************************)
(* Properties                                                              *)
(***************************************************************************)

\* The values the variables range over.
TypeOK ==
  /\ \A t \in {device, before, original, desired} : IsTree(t)
  /\ whole \in BOOLEAN
  /\ installs \in 0 .. MaxInstalls
  /\ strategy \in Strategy
  /\ pc \in { "idle", "backed", "built", "placing", "installed", "failed",
              "waiting", "restoring", "restored", "lost", "wedged" }
  /\ reader.todo \cup reader.stayed \subseteq reader.seen

HasLink(t) == \E p \in DOMAIN t : t[p].kind = "link"

\* Path p is of the bundle CarrierLab.bundle, or of one preserved from it.
OfLabBundle(p) == p[1] \in {Lab} \cup Preserved

\* A verified install has changed nothing but CarrierLab's bundles: every other
\* file is what it was before the backup was taken, one with a name that the
\* migration's own test of the scope would let through included.
ScopeRespected ==
  [][pc = "installed" /\ pc' = "waiting" =>
       \A p \in DOMAIN before \cup DOMAIN device : ~OfLabBundle(p) =>
         /\ p \in DOMAIN before \cap DOMAIN device
         /\ device[p] = before[p]]_vars

\* Unless it was asked to replace it, a verified install keeps the CarrierLab
\* bundle it finds, and those that were preserved before: each of their files
\* is still under a preserved name, even when two builds fall into one second.
NothingLost ==
  [][pc = "installed" /\ pc' = "waiting" /\ strategy # "replace" =>
       \A p \in DOMAIN before : OfLabBundle(p) =>
         \E q \in DOMAIN device :
           /\ q[1] \in Preserved
           /\ device[q] = before[p]
           /\ IF p[1] = Lab THEN \E k \in 1 .. Len(q) : SubSeq(q, k + 1, Len(q)) = Tail(p)
                             ELSE q = p]_vars

\* A verified restore has put back the tree that was on the device when the
\* backup was taken, links included.
RestoreExact ==
  [][pc = "restored" /\ pc' = "idle" => device = before]_vars

\* Restoring fails after a partial copy, or over a tree with links, which the
\* placement does not keep: a tree of plain files always comes back.
PlainTreesReturn ==
  [][pc # pc' /\ pc' \in {"lost", "wedged"} => ~whole' \/ HasLink(original)]_vars

\* A link of the desired tree that the placement has replaced by a file does
\* not get past the readback.
ReadbackSeesLinks ==
  [][pc = "installed" /\ pc' = "waiting" => ~HasLink(desired)]_vars

\* A report lists only bundles that were on the device while it was made, not
\* what an earlier report had found; and it lists all that were there all the
\* time, or none, whatever was placed in between.
ReportIsCurrent ==
  [][reader.on /\ ~reader'.on =>
       /\ Listed \subseteq reader.seen
       /\ Listed # {} => reader.stayed \cap BundleName \subseteq Listed]_vars
=============================================================================

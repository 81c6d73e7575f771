------------------------------ MODULE Updater ------------------------------
(***************************************************************************)
(* The signed updater (apps/gta-claw-updater/src/lib.rs): execute() checks *)
(* a manifest against the persisted anti-rollback floor, downloads the     *)
(* artifact into the staging directory beside the installation and swaps   *)
(* it in under a journal.  The daemon's update monitor runs check() alone  *)
(* against the same floor.  Each operation on the installation, its        *)
(* backup, the journal, the binding and the floor is a step of its own, so *)
(* a process may be killed between any two of them, and a later run meets  *)
(* what it left: recover_interrupted_swap() is the first thing download()  *)
(* and the swap do.                                                        *)
(*                                                                         *)
(* Abstracted: signatures, clocks and URLs (a manifest is a record that    *)
(* was verified), bytes and digests (an object is the release it holds;    *)
(* equal digests are equal releases), and the removal of a retired backup, *)
(* which is garbage once it has been renamed away.                         *)
(*                                                                         *)
(* Nothing makes updaters exclusive: install() holds release-floor.lock,   *)
(* download() does not, although its recovery moves the installation and   *)
(* it shares the staging files.  disturbed records that it met another     *)
(* run; what two downloads then leave of each other's part is coarse here. *)
(***************************************************************************)
EXTENDS Naturals, FiniteSets

CONSTANTS Updaters,     \* processes that run execute()
          Checkers,     \* daemons that run check() alone
          Manifests,    \* verified release manifests
          None,         \* no such file, nobody
          Old,          \* the installation found by the first run
          Partial,      \* a target whose copy has not finished
          Mixed         \* bytes that are not those of one release

Procs == Updaters \cup Checkers

ASSUME ProcsAssumption == Updaters \cap Checkers = {} /\ None \notin Procs

ASSUME ManifestsAssumption ==
    /\ \A m \in Manifests : /\ m.sequence \in Nat \ {0}
                            /\ m.version \in Nat
                            /\ m.revokes \in SUBSET Nat
    /\ {None, Old, Partial, Mixed} \cap Manifests = {}
    /\ None \notin {Old, Partial, Mixed} /\ Old # Partial

VARIABLES
    windows,    \* cfg!(windows): the replacement is copied, not renamed
    target,     \* the live installation
    backup,     \* .<target>.gta-claw.rollback
    journal,    \* swap-journal.json: the release being swapped in
    verified,   \* artifact.verified
    part,       \* artifact.part
    binding,    \* artifact.resume.json: the release the part belongs to
    floors,     \* release-floor-<sequence>.json files
    lock,       \* holder of release-floor.lock
    pc,         \* what each process does next
    phase,      \* which caller runs recover_interrupted_swap()
    auth,       \* the release a process was authorised for
    had,        \* had_target of atomic_swap_verified()
    plan,       \* file operations left of a recovery or a roll-back
    outcome,    \* what the last run of a process reported
    prior,      \* (history) the installation a swap started from
    disturbed   \* (history) a download ran beside another download or an install

swapVars == <<target, backup, journal>>
stageVars == <<verified, part, binding>>
procVars == <<phase, auth, had, plan, outcome, prior>>
still == <<windows, disturbed>>
vars == <<still, swapVars, stageVars, floors, lock, pc, procVars>>

Releases == Manifests \cup {Old}
Objects == Releases \cup {Partial}
RepairOps == {"remove", "restore", "discard", "drop"}
NoFloor == [sequence |-> 0, version |-> 0, manifest |-> None, revoked |-> {}]
Floors == [sequence : Nat, version : Nat, manifest : Manifests, revoked : SUBSET Nat]
PCs == {"idle", "prune", "recover", "repair", "bind", "rebind", "fetch", "verify",
        "mismatch", "authorize", "journal", "aside", "place", "copy", "placed",
        "unstage", "unbind", "finish", "rollback"}
Outcomes == {"none", "error", "restart", "installed", "rolled_back", "rollback_failed"}

\* load_rollback_state(): the highest of the files found.
IsHighest(f) == f \in floors /\ \A g \in floors : g.sequence <= f.sequence
LoadFloor == IF floors = {} THEN NoFloor ELSE CHOOSE f \in floors : IsHighest(f)

Init ==
    /\ windows \in BOOLEAN
    /\ target \in {Old, None}
    /\ backup = None /\ journal = None
    /\ verified = None /\ part = None /\ binding = None
    /\ floors = {} /\ lock = None
    /\ pc = [p \in Procs |-> "idle"]
    /\ phase = [p \in Procs |-> "download"]
    /\ auth = [p \in Procs |-> None]
    /\ had = [p \in Procs |-> FALSE]
    /\ plan = [p \in Procs |-> {}]
    /\ outcome = [p \in Procs |-> "none"]
    /\ prior = [p \in Procs |-> None]
    /\ disturbed = FALSE

Swapping == {"journal", "aside", "place", "copy", "placed", "unstage", "unbind",
             "finish", "rollback"}

\* download() works on the files without a lock, install() under it.
Recovering(p, f) == pc[p] \in {"recover", "repair"} /\ phase[p] = f
Downloading(p) ==
    Recovering(p, "download") \/ pc[p] \in {"bind", "rebind", "fetch", "verify", "mismatch"}
Installing(p) == Recovering(p, "install") \/ pc[p] \in Swapping

\* p begins to work on the files, where those are at work already.
Meets(p, others) == disturbed' = (disturbed \/ others \ {p} # {})

Goto(p, l) == pc' = [pc EXCEPT ![p] = l]

\* The run of p returns; the guard of release-floor.lock is dropped.
Return(p, o) ==
    /\ Goto(p, "idle")
    /\ outcome' = [outcome EXCEPT ![p] = o]
    /\ plan' = [plan EXCEPT ![p] = {}]
    /\ lock' = IF lock = p THEN None ELSE lock

-----------------------------------------------------------------------------
(* check(): accept a manifest into the anti-rollback floor.                 *)

\* Mutant: the revocations of earlier manifests are forgotten.
AcceptManifestForgets(p, m) ==
    LET floor == LoadFloor
        next == [sequence |-> m.sequence, version |-> m.version, manifest |-> m,
                 revoked |-> m.revokes]
    IN  /\ pc[p] = "idle" /\ lock = None
        /\ m.sequence >= floor.sequence
        /\ m.sequence = floor.sequence => m = floor.manifest
        /\ m.version >= floor.version
        /\ floors' = {f \in floors : f.sequence # m.sequence} \cup {next}
        /\ lock' = p
        /\ auth' = [auth EXCEPT ![p] = m]
        /\ Goto(p, "prune")
        /\ UNCHANGED <<still, swapVars, stageVars, phase, had, plan, outcome, prior>>

\* accept_manifest_locked_with_digest(), up to the write of the new floor: an
\* older sequence, another manifest of the same sequence and an older version
\* are refused.
AcceptManifest(p, m) ==
    LET floor == LoadFloor
        next == [sequence |-> m.sequence, version |-> m.version, manifest |-> m,
                 revoked |-> floor.revoked \cup m.revokes]
    IN  /\ pc[p] = "idle" /\ lock = None
        /\ m.sequence >= floor.sequence
        /\ m.sequence = floor.sequence => m = floor.manifest
        /\ m.version >= floor.version
        /\ floors' = {f \in floors : f.sequence # m.sequence} \cup {next}
        /\ lock' = p
        /\ auth' = [auth EXCEPT ![p] = m]
        /\ Goto(p, "prune")
        /\ UNCHANGED <<still, swapVars, stageVars, phase, had, plan, outcome, prior>>

\* prune_rollback_states(): one obsolete file is removed.
PruneFloor(p) ==
    /\ pc[p] = "prune"
    /\ \E f \in floors : f.sequence # auth[p].sequence /\ floors' = floors \ {f}
    /\ UNCHANGED <<still, swapVars, stageVars, lock, pc, procVars>>

\* The rest of check_manifest_bytes(): nothing newer (--current is what the
\* operator says), a revoked release, or an update to download.
FinishCheck(p) ==
    /\ pc[p] = "prune"
    /\ \A f \in floors : f.sequence = auth[p].sequence
    /\ \/ Return(p, "none") /\ UNCHANGED <<phase, disturbed>>
       \/ /\ p \in Updaters
          /\ auth[p].version \notin LoadFloor.revoked
          /\ lock' = None
          /\ Goto(p, "recover")
          /\ phase' = [phase EXCEPT ![p] = "download"]
          /\ Meets(p, {q \in Updaters : Downloading(q) \/ Installing(q)})
          /\ UNCHANGED <<plan, outcome>>
    /\ UNCHANGED <<windows, swapVars, stageVars, floors, auth, had, prior>>

-----------------------------------------------------------------------------
(* recover_interrupted_swap() and rollback_secure_swap().                   *)

\* The combinations of journal, target and backup recovery refuses.
RecoveryConflict ==
    \/ journal = None /\ target # None /\ backup # None
    \/ journal # None /\ target = None /\ backup = None

\* What recovery does about the combination it finds.  The operations are
\* taken in the order remove, restore, discard, drop.
RecoveryPlan ==
    IF journal = None
    THEN IF backup = None THEN {} ELSE {"restore"}
    ELSE {"drop"} \cup
         (IF target = None THEN {"restore"}
          ELSE IF target # journal
          THEN IF backup = None THEN {"remove"} ELSE {"remove", "restore"}
          ELSE IF backup = None THEN {} ELSE {"discard"})

\* The three reads and the decision; download() calls it without the lock.
RecoverSwap(p) ==
    /\ pc[p] = "recover"
    /\ \/ RecoveryConflict /\ Return(p, "error")
       \/ /\ ~RecoveryConflict
          /\ plan' = [plan EXCEPT ![p] = RecoveryPlan]
          /\ Goto(p, "repair")
          /\ UNCHANGED <<lock, outcome>>
    /\ UNCHANGED <<still, swapVars, stageVars, floors, phase, auth, had, prior>>

Repairing(p, op) == pc[p] \in {"repair", "rollback"} /\ op \in plan[p]
Done(p, op) == plan' = [plan EXCEPT ![p] = @ \ {op}]

RemoveTarget(p) ==
    /\ Repairing(p, "remove")
    /\ target' = None
    /\ Done(p, "remove")
    /\ UNCHANGED <<still, backup, journal, stageVars, floors, lock, pc,
                   phase, auth, had, outcome, prior>>

RestoreBackup(p) ==
    /\ Repairing(p, "restore") /\ "remove" \notin plan[p]
    /\ backup # None
    /\ target' = backup /\ backup' = None
    /\ Done(p, "restore")
    /\ UNCHANGED <<still, journal, stageVars, floors, lock, pc,
                   phase, auth, had, outcome, prior>>

\* discard_backup() of a swap found complete.
DiscardFound(p) ==
    /\ Repairing(p, "discard")
    /\ backup # None
    /\ backup' = None
    /\ Done(p, "discard")
    /\ UNCHANGED <<still, target, journal, stageVars, floors, lock, pc,
                   phase, auth, had, outcome, prior>>

\* Mutant: the journal goes before the files it describes are settled.
DropJournalFirst(p) ==
    /\ Repairing(p, "drop")
    /\ journal' = None
    /\ Done(p, "drop")
    /\ UNCHANGED <<still, target, backup, stageVars, floors, lock, pc,
                   phase, auth, had, outcome, prior>>

DropJournal(p) ==
    /\ Repairing(p, "drop") /\ plan[p] = {"drop"}
    /\ journal' = None
    /\ Done(p, "drop")
    /\ UNCHANGED <<still, target, backup, stageVars, floors, lock, pc,
                   phase, auth, had, outcome, prior>>

\* Recovery is over: download() goes on to its staging, the swap to its journal.
Repaired(p) ==
    /\ pc[p] = "repair" /\ plan[p] = {}
    /\ Goto(p, IF phase[p] = "download" THEN "bind" ELSE "journal")
    /\ UNCHANGED <<still, swapVars, stageVars, floors, lock, procVars>>

\* The roll-back is over and reports what it was entered with.
RolledBack(p) ==
    /\ pc[p] = "rollback" /\ plan[p] = {}
    /\ Return(p, outcome[p])
    /\ UNCHANGED <<still, swapVars, stageVars, floors, phase, auth, had, prior>>

\* Mutant: a restore that failed is reported as a roll-back.
RestoreFailsQuietly(p) ==
    /\ pc[p] = "rollback" /\ "restore" \in plan[p] /\ "remove" \notin plan[p]
    /\ Return(p, outcome[p])
    /\ UNCHANGED <<still, swapVars, stageVars, floors, phase, auth, had, prior>>

\* The backup cannot be renamed back: RollbackFailed, with the journal kept.
RestoreFails(p) ==
    /\ pc[p] = "rollback" /\ "restore" \in plan[p] /\ "remove" \notin plan[p]
    /\ Return(p, "rollback_failed")
    /\ UNCHANGED <<still, swapVars, stageVars, floors, phase, auth, had, prior>>

-----------------------------------------------------------------------------
(* download(): a part that may be resumed only for the release it is of.    *)

\* Mutant: a part of another release is kept for the resume.
BindKeepsPart(p) ==
    /\ pc[p] = "bind"
    /\ \/ /\ binding = auth[p] /\ verified = auth[p]
          /\ Goto(p, "authorize")
          /\ UNCHANGED verified
       \/ /\ binding = auth[p] /\ verified # auth[p]
          /\ verified' = None
          /\ Goto(p, "fetch")
       \/ /\ binding # auth[p]
          /\ verified' = None
          /\ Goto(p, "rebind")
    /\ UNCHANGED <<still, swapVars, part, binding, floors, lock, procVars>>

\* A matching binding reuses a verified artifact or resumes the part; any
\* other staging is dropped, its files before its binding.
Bind(p) ==
    /\ pc[p] = "bind"
    /\ \/ /\ binding = auth[p] /\ verified = auth[p]
          /\ Goto(p, "authorize")
          /\ UNCHANGED <<verified, part>>
       \/ /\ binding = auth[p] /\ verified # auth[p]
          /\ verified' = None
          /\ Goto(p, "fetch")
          /\ UNCHANGED part
       \/ /\ binding # auth[p]
          /\ verified' = None /\ part' = None
          /\ Goto(p, "rebind")
    /\ UNCHANGED <<still, swapVars, binding, floors, lock, procVars>>

\* The binding is removed; after a mismatch it may stay, and the run is over.
DropBinding(p) ==
    /\ \/ /\ pc[p] = "mismatch"
          /\ binding' \in {None, binding}
          /\ Return(p, "error")
       \/ /\ pc[p] = "rebind" /\ binding # None
          /\ binding' = None
          /\ UNCHANGED <<pc, lock, plan, outcome>>
    /\ UNCHANGED <<still, swapVars, verified, part, floors, phase, auth, had, prior>>

WriteBinding(p) ==
    /\ pc[p] = "rebind" /\ binding = None
    /\ binding' = auth[p]
    /\ Goto(p, "fetch")
    /\ UNCHANGED <<still, swapVars, verified, part, floors, lock, procVars>>

\* A complete part is not fetched again; a part is resumed, or started afresh
\* when the server ignores the range; the mirror may serve other bytes.
Fetched(bytes, resume) ==
    IF ~resume \/ part = None \/ part.of = bytes THEN bytes ELSE Mixed

Fetch(p) ==
    /\ pc[p] = "fetch"
    /\ \/ /\ part # None /\ part.full
          /\ Goto(p, "verify")
          /\ UNCHANGED <<part, lock, plan, outcome>>
       \/ \E bytes \in {auth[p], Mixed}, resume, full \in BOOLEAN :
             /\ part # None => ~part.full
             /\ part' = [of |-> Fetched(bytes, resume), full |-> full]
             /\ IF full THEN Goto(p, "verify") /\ UNCHANGED <<lock, plan, outcome>>
                        ELSE Return(p, "error")
    /\ UNCHANGED <<still, swapVars, verified, binding, floors, phase, auth, had, prior>>

\* The digest of the whole part decides; a mismatch drops part, then binding,
\* and does not mind when it cannot.
Verify(p) ==
    /\ pc[p] = "verify" /\ part # None
    /\ \/ /\ part.of = auth[p]
          /\ verified' = auth[p] /\ part' = None
          /\ Goto(p, "authorize")
       \/ /\ part.of # auth[p]
          /\ part' \in {None, part}
          /\ Goto(p, "mismatch")
          /\ UNCHANGED verified
    /\ UNCHANGED <<still, swapVars, binding, floors, lock, procVars>>

-----------------------------------------------------------------------------
(* install(): authorise under the lock, then atomic_swap_verified().        *)

\* Elsewhere than on Windows the staged entry is used, and must be the artifact
\* that was verified; on Windows the open handle is copied whatever the entry is.
Staged(p) == windows \/ verified = auth[p]

\* authorize_install(): the floor must still be the very manifest that
\* authorised this artifact.
Authorized(p) ==
    /\ Staged(p)
    /\ LoadFloor.manifest = auth[p]
    /\ auth[p].version \notin LoadFloor.revoked

\* Mutant: the lock is dropped once the floor has been read.
AuthorizeUnlocked(p) ==
    /\ pc[p] = "authorize" /\ lock = None
    /\ \/ /\ Authorized(p)
          /\ phase' = [phase EXCEPT ![p] = "install"]
          /\ Goto(p, "recover")
          /\ Meets(p, {q \in Updaters : Downloading(q)})
          /\ UNCHANGED <<lock, plan, outcome>>
       \/ ~Authorized(p) /\ Return(p, "error") /\ UNCHANGED <<phase, disturbed>>
    /\ UNCHANGED <<windows, swapVars, stageVars, floors, auth, had, prior>>

Authorize(p) ==
    /\ pc[p] = "authorize" /\ lock = None
    /\ \/ /\ Authorized(p)
          /\ lock' = p
          /\ phase' = [phase EXCEPT ![p] = "install"]
          /\ Goto(p, "recover")
          /\ Meets(p, {q \in Updaters : Downloading(q)})
          /\ UNCHANGED <<plan, outcome>>
       \/ ~Authorized(p) /\ Return(p, "error") /\ UNCHANGED <<phase, disturbed>>
    /\ UNCHANGED <<windows, swapVars, stageVars, floors, auth, had, prior>>

WriteJournal(p) ==
    /\ pc[p] = "journal" /\ Staged(p)
    /\ journal' = auth[p]
    /\ prior' = [prior EXCEPT ![p] = target]
    /\ Goto(p, "aside")
    /\ UNCHANGED <<still, target, backup, stageVars, floors, lock,
                   phase, auth, had, plan, outcome>>

\* The roll-back of a failed replacement.
Rollback(p) ==
    /\ Goto(p, "rollback")
    /\ plan' = [plan EXCEPT ![p] = IF had[p] THEN {"remove", "restore", "drop"} ELSE {"drop"}]
    /\ outcome' = [outcome EXCEPT ![p] = IF had[p] THEN "rolled_back" ELSE "error"]

MoveAside(p) ==
    /\ pc[p] = "aside"
    /\ had' = [had EXCEPT ![p] = target # None]
    /\ IF target = None THEN UNCHANGED swapVars
                        ELSE backup' = target /\ target' = None /\ UNCHANGED journal
    /\ Goto(p, "place")
    /\ UNCHANGED <<still, stageVars, floors, lock, phase, auth, plan, outcome, prior>>

\* The first rename fails (a Windows sharing lock asks for a restart).
MoveAsideFails(p) ==
    /\ pc[p] = "aside" /\ target # None
    /\ had' = [had EXCEPT ![p] = TRUE]
    /\ plan' = [plan EXCEPT ![p] = {"drop"}]
    /\ \E o \in {"error"} \cup (IF windows THEN {"restart"} ELSE {}) :
          outcome' = [outcome EXCEPT ![p] = o]
    /\ Goto(p, "rollback")
    /\ UNCHANGED <<still, swapVars, stageVars, floors, lock, phase, auth, prior>>

\* Elsewhere than on Windows the staged object is renamed into place.
RenameIntoPlace(p) ==
    /\ pc[p] = "place" /\ ~windows /\ verified # None
    /\ target' = verified /\ verified' = None
    /\ Goto(p, "placed")
    /\ UNCHANGED <<still, backup, journal, part, binding, floors, lock, procVars>>

\* On Windows create_exclusive_regular() and copy_verified_handle().
CreateTarget(p) ==
    /\ pc[p] = "place" /\ windows /\ target = None
    /\ target' = Partial
    /\ Goto(p, "copy")
    /\ UNCHANGED <<still, backup, journal, stageVars, floors, lock, procVars>>

CopyTarget(p) ==
    /\ pc[p] = "copy"
    /\ target' = auth[p]
    /\ Goto(p, "placed")
    /\ UNCHANGED <<still, backup, journal, stageVars, floors, lock, procVars>>

\* The rename, the copy, or (not on Windows) the identity check fails.
PlaceFails(p) ==
    /\ \/ pc[p] \in {"place", "copy"}
       \/ pc[p] = "placed" /\ ~windows /\ target # auth[p]
    /\ Rollback(p)
    /\ UNCHANGED <<still, swapVars, stageVars, floors, lock, phase, auth, had, prior>>

DiscardBackup(p) ==
    /\ pc[p] = "placed"
    /\ windows \/ target = auth[p]
    /\ had[p] => backup # None
    /\ backup' = IF had[p] THEN None ELSE backup
    /\ Goto(p, "unstage")
    /\ UNCHANGED <<still, target, journal, stageVars, floors, lock, procVars>>

Unstage(p) ==
    /\ pc[p] = "unstage"
    /\ verified' = None /\ part' = None
    /\ Goto(p, "unbind")
    /\ UNCHANGED <<still, swapVars, binding, floors, lock, procVars>>

Unbind(p) ==
    /\ pc[p] = "unbind"
    /\ binding' = None
    /\ Goto(p, "finish")
    /\ UNCHANGED <<still, swapVars, verified, part, floors, lock, procVars>>

FinishSwap(p) ==
    /\ pc[p] = "finish"
    /\ journal' = None
    /\ Return(p, "installed")
    /\ UNCHANGED <<still, target, backup, stageVars, floors, phase, auth, had, prior>>

-----------------------------------------------------------------------------
\* A process is killed, or one of its file operations fails and the error is
\* returned at once: the files stay as they are, the lock is released.
Stop(p) ==
    /\ pc[p] # "idle"
    /\ Return(p, "error")
    /\ UNCHANGED <<still, swapVars, stageVars, floors, phase, auth, had, prior>>

Check(p) ==
    \/ \E m \in Manifests : AcceptManifest(p, m)
    \/ PruneFloor(p) \/ FinishCheck(p)

Recover(p) ==
    \/ RecoverSwap(p) \/ RemoveTarget(p) \/ RestoreBackup(p) \/ DiscardFound(p)
    \/ DropJournal(p) \/ Repaired(p) \/ RolledBack(p) \/ RestoreFails(p)

Download(p) ==
    Bind(p) \/ DropBinding(p) \/ WriteBinding(p) \/ Fetch(p) \/ Verify(p)

Install(p) ==
    \/ Authorize(p) \/ WriteJournal(p) \/ MoveAside(p) \/ MoveAsideFails(p)
    \/ RenameIntoPlace(p) \/ CreateTarget(p) \/ CopyTarget(p) \/ PlaceFails(p)
    \/ DiscardBackup(p) \/ Unstage(p) \/ Unbind(p) \/ FinishSwap(p)

Next ==
    \/ \E p \in Procs : Check(p) \/ Stop(p)
    \/ \E p \in Updaters : Recover(p) \/ Download(p) \/ Install(p)

Spec == Init /\ [][Next]_vars

-----------------------------------------------------------------------------
(* Properties.                                                              *)

\* Every variable keeps its type.
TypeOK ==
    /\ windows \in BOOLEAN
    /\ target \in Objects \cup {None}
    /\ backup \in Objects \cup {None}
    /\ journal \in Manifests \cup {None}
    /\ verified \in Manifests \cup {None}
    /\ part \in [of : Manifests \cup {Mixed}, full : BOOLEAN] \cup {None}
    /\ binding \in Manifests \cup {None}
    /\ floors \in SUBSET Floors
    /\ lock \in Procs \cup {None}
    /\ pc \in [Procs -> PCs]
    /\ phase \in [Procs -> {"download", "install"}]
    /\ auth \in [Procs -> Manifests \cup {None}]
    /\ had \in [Procs -> BOOLEAN]
    /\ plan \in [Procs -> SUBSET RepairOps]
    /\ outcome \in [Procs -> Outcomes]
    /\ prior \in [Procs -> Objects \cup {None}]
    /\ disturbed \in BOOLEAN

\* As long as no download has met another run, the previous installation never
\* lies aside unless a journal says what is replacing it, and the target is then
\* missing, unfinished or that very release: whatever operation whichever run died
\* in, the recovery of the next one can tell whether to restore the backup or to
\* discard it (lib.rs:2112).
BackupIsRecoverable ==
    ~disturbed /\ backup # None => journal # None /\ target \in {None, Partial, journal}

\* A release is swapped in only while the persisted floor is the manifest that
\* authorised it and has not revoked it, whatever the daemon's check or another
\* run accepts meanwhile (authorize_install() and the swap share one lock,
\* lib.rs:894).
SwapIsAuthorized ==
    \A p \in Updaters : pc[p] \in Swapping =>
        /\ LoadFloor.manifest = auth[p]
        /\ auth[p].version \notin LoadFloor.revoked

\* As long as no download has met another run, a partial download is only ever
\* kept under the binding of its own release, so that a download resumed by any
\* later run never joins the bytes of two releases (lib.rs:684).
PartIsBound ==
    ~disturbed /\ part # None /\ part.of # Mixed => binding = part.of

\* As long as no download has met another run, what install() reports is true of
\* the files it leaves: installed means the authorised release is live and nothing
\* is left to recover, rolled back means the installation the swap started from is
\* live again, and a failed roll-back leaves that installation in the backup with
\* its journal (lib.rs:849).
Truthful(p) ==
    /\ outcome[p] = "installed" => target = auth[p] /\ backup = None /\ journal = None
    /\ outcome[p] = "rolled_back" => target = prior[p]
    /\ outcome[p] = "rollback_failed" => backup = prior[p] /\ journal # None

OutcomeIsTrue ==
    [][\A p \in Updaters :
          ~disturbed /\ pc[p] # "idle" /\ pc'[p] = "idle" => Truthful(p)']_vars

\* The anti-rollback floor never falls and forgets no revocation, although a
\* process may die between writing the new floor file and removing the old
\* ones (lib.rs:1146).
FloorNeverFalls ==
    [][/\ LoadFloor'.sequence >= LoadFloor.sequence
       /\ LoadFloor.revoked \subseteq LoadFloor'.revoked]_vars

\* Violated.  lib.rs:833 "The previous installation is moved aside, not
\* deleted, until the new one is in place": once a swap has started from a
\* working installation, a complete release is live or aside.
InstallationSurvives ==
    \A p \in Updaters : prior[p] \in Releases => target \in Releases \/ backup \in Releases

\* Violated.  lib.rs:849 "The installation itself is fail-safe" and lib.rs:853 "the
\* previous version is in the sibling `.gta-claw.rollback` object": a roll-back that
\* has removed the target still has the installation it is to restore.
RollbackHasPrevious ==
    \A p \in Updaters : pc[p] = "rollback" /\ plan[p] = {"restore", "drop"}
                           => backup = prior[p]

\* Violated.  A journal without target or backup is refused for ever, although
\* lib.rs:656 reserves the refusal for a swap that "cannot be resolved without
\* overwriting an unknown object".
RecoveryIsPossible ==
    RecoveryConflict => \E p \in Updaters : pc[p] # "idle"
=============================================================================

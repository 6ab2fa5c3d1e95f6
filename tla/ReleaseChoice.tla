----------------------------- MODULE ReleaseChoice -----------------------------
(***************************************************************************)
(* `gws update' around the installation (Updater): the highest stable      *)
(* release of GitHub's list, whether it is newer than what runs, the two   *)
(* flags, the checksum and the archive (cmd/update.go and                  *)
(* internal/update/update.go); and the notice of a new version the UI      *)
(* shows.  The list may be another one every time.                         *)
(***************************************************************************)
EXTENDS Naturals

CONSTANTS Release,  \* what may be published: [version, kind, archive, sums]
          Version,  \* the numbers of versions
          Dev       \* the version of a build that is not a release

(* A release is stable, or a draft, a prerelease or a tag of another form. *)
(* It has an archive for this platform, with or without the binary, or     *)
(* none, and a list of checksums, which may lack the archive's, or none.   *)
ASSUME ReleaseAssumption ==
    /\ Version \subseteq Nat /\ Dev \notin Nat
    /\ \A r \in Release : /\ r.version \in Version
                          /\ r.kind \in {"stable", "draft", "prerelease", "other"}
                          /\ r.archive \in {"none", "binary", "empty"}
                          /\ r.sums \in {"none", "without", "with"}

VARIABLES version,   \* of the installed binary; a snapshot counts as its base
          phase,     \* where the command is, or how it ended
          check,     \* --check
          force,     \* --force
          notice,    \* it is the UI that asks
          releases,  \* GitHub's list
          best,      \* the release that was chosen
          intact     \* is the archive that was fetched the one that was published

release == <<version, phase, check, force, notice, releases, best, intact>>

NoRelease == [version |-> 0, kind |-> "other", archive |-> "none", sums |-> "none"]

Over == {"idle", "failed", "refused", "up to date", "available", "updated", "noticed", "silent"}

ReleaseOK ==
    /\ version \in Version \cup {Dev}
    /\ phase \in {"list", "compare", "apply", "fetched", "verified"} \cup Over
    /\ {check, force, notice} \subseteq BOOLEAN
    /\ releases \subseteq Release /\ best \in Release \cup {NoRelease}
    /\ intact \in BOOLEAN

ReleaseInit ==
    /\ version \in Version \cup {Dev}
    /\ phase = "idle"
    /\ check = FALSE /\ force = FALSE /\ notice = FALSE
    /\ releases = {} /\ best = NoRelease /\ intact = FALSE

Flags == <<check, force, notice>>

Look(c, f, n) ==
    /\ phase \in Over
    /\ check' = c /\ force' = f /\ notice' = n
    /\ n => ~c /\ ~f
    /\ phase' = "list"
    /\ releases' = {} /\ best' = NoRelease /\ intact' = FALSE
    /\ UNCHANGED version

(* An error of the UI's question is shown like any other.                  *)
Fails ==
    /\ phase' = "failed"
    /\ UNCHANGED <<version, Flags, releases, best, intact>>

GetFails == phase \in {"list", "apply"} /\ Fails

Stable(list) == {r \in list : r.kind = "stable"}

(* A version is released once.                                             *)
Lists == {list \in SUBSET Release : \A r, s \in Stable(list) : r.version = s.version => r = s}

(* Mutation of Highest: prereleases count.                                 *)
HighestOfAll(list) == {r \in list : \A s \in list : s.version <= r.version}

(* The highest tag of the form vMAJOR.MINOR.PATCH, no draft, no prerelease.*)
Highest(list) == {r \in Stable(list) : \A s \in Stable(list) : s.version <= r.version}

(* Latest takes the highest release and only then looks at what it has.    *)
Latest(list) ==
    /\ phase = "list"
    /\ releases' = list
    /\ \E r \in Highest(list) :
        /\ best' = r
        /\ phase' = IF r.archive = "none" \/ r.sums = "none" THEN "failed" ELSE "compare"
    /\ UNCHANGED <<version, Flags, intact>>

NoneStable(list) ==
    /\ phase = "list"
    /\ Stable(list) = {}
    /\ releases' = list
    /\ phase' = "failed"
    /\ UNCHANGED <<version, Flags, best, intact>>

(* IsNewer, for a version that it can compare.                             *)
Newer == version \in Version /\ best.version > version

(* runUpdate and checkForNewVersion.                                       *)
Decision ==
    IF notice THEN IF Newer THEN "noticed" ELSE "silent"
    ELSE IF version = Dev /\ ~force THEN "refused"
    ELSE IF version # Dev /\ ~Newer /\ ~force THEN "up to date"
    ELSE IF check THEN "available" ELSE "apply"

Decide ==
    /\ phase = "compare"
    /\ phase' = Decision
    /\ UNCHANGED <<version, Flags, releases, best, intact>>

(* Apply: the list must have the archive's checksum.                       *)
NoChecksum == phase = "apply" /\ best.sums = "without" /\ Fails

Fetch ==
    /\ phase = "apply" /\ best.sums = "with"
    /\ intact' \in BOOLEAN
    /\ phase' = "fetched"
    /\ UNCHANGED <<version, Flags, releases, best>>

Mismatch == phase = "fetched" /\ ~intact /\ Fails

Verify ==
    /\ phase = "fetched" /\ intact
    /\ phase' = "verified"
    /\ UNCHANGED <<version, Flags, releases, best, intact>>

(* extractBinary finds no binary, or a step of the installation fails.     *)
InstallFails == phase = "verified" /\ Fails

Install ==
    /\ phase = "verified" /\ best.archive = "binary"
    /\ version' = IF intact THEN best.version ELSE Dev
    /\ phase' = "updated"
    /\ UNCHANGED <<Flags, releases, best, intact>>

ReleaseNext ==
    \/ \E c, f, n \in BOOLEAN : Look(c, f, n)
    \/ \E list \in Lists : Latest(list) \/ NoneStable(list)
    \/ GetFails \/ Decide \/ NoChecksum \/ Fetch \/ Mismatch \/ Verify \/ InstallFails \/ Install

ReleaseSpec == ReleaseInit /\ [][ReleaseNext]_release

-----------------------------------------------------------------------------
(* The binary is only ever replaced by a command without --check, by the   *)
(* archive, as it was published, of a stable release of the list, and no   *)
(* other that has an archive for the platform and checksums is higher;     *)
(* without --force, and so in an installation nobody forces, the version   *)
(* only goes up.  The UI promises no more than that.                       *)
Complete(r) == r.kind = "stable" /\ r.archive # "none" /\ r.sums # "none"

UpdatesForward ==
    [][ /\ version' # version =>
            /\ ~check /\ ~notice
            /\ version' = best.version /\ best \in releases /\ Complete(best)
            /\ \A r \in releases : Complete(r) => r.version <= version'
            /\ force \/ (version \in Version /\ version' > version)
        /\ (phase' = "noticed" /\ phase # "noticed") => version \in Version /\ best.version > version
      ]_release
=============================================================================

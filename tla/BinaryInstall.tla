---------------------------- MODULE BinaryInstall ----------------------------
(***************************************************************************)
(* install-binary.py upgrades the binary of a service in place: it keeps a *)
(* backup the first time, copies the new binary next to the target, stops  *)
(* the service, renames and starts.  If the service does not become active *)
(* it copies the backup over the target and starts that.  A file being     *)
(* copied is not whole, and stays so when the copy is cut short.  A script *)
(* that raises or is killed anywhere leaves everything as it is.           *)
(***************************************************************************)
EXTENDS Naturals

CONSTANTS
    Releases,     \* what the bundles bring
    Broken,       \* releases the host cannot start
    Original,     \* the binary of the platform before the first upgrade
    Torn,         \* the content of a file whose copy was cut short
    NoFile,       \* no such file; also a service that is down
    MaxInstalls,  \* bound: installations
    MaxFaults     \* bound: scripts that are cut short in a copy or elsewhere

ASSUME InstallAssumption ==
    /\ Broken \subseteq Releases
    /\ {Original, Torn, NoFile} \cap Releases = {}
    /\ Original # Torn /\ Original # NoFile /\ Torn # NoFile
    /\ MaxInstalls \in Nat
    /\ MaxFaults \in Nat

VARIABLES
    script,    \* the step it stands at
    bundle,    \* the release it installs
    target,    \* the binary the service is started from
    backup,    \* target.before-distill2
    pending,   \* target.distill2-new
    service,   \* the binary that is running, or NoFile
    hasRun,    \* history: the binaries that have run here
    installs,
    cuts,      \* copies that were cut short
    kills      \* scripts that raised or were killed elsewhere

installVars == <<script, bundle, target, backup, pending, service, hasRun, installs, cuts, kills>>

Binary == Releases \cup {Original}

ScriptStep == {"idle", "backup", "pending", "stop", "replace", "start", "restore", "restart"}

InstallTypeOK ==
    /\ script \in ScriptStep
    /\ bundle \in Binary
    /\ target \in Binary \cup {Torn}
    /\ backup \in Binary \cup {Torn, NoFile}
    /\ pending \in Binary \cup {Torn, NoFile}
    /\ service \in Binary \cup {NoFile}
    /\ hasRun \subseteq Binary
    /\ installs \in 0..MaxInstalls
    /\ cuts \in Nat
    /\ kills \in Nat
    /\ cuts + kills <= MaxFaults

InstallInit ==
    /\ script = "idle"
    /\ bundle = Original
    /\ target = Original
    /\ backup = NoFile
    /\ pending = NoFile
    /\ service = Original
    /\ hasRun = {Original}
    /\ installs = 0
    /\ cuts = 0
    /\ kills = 0

-----------------------------------------------------------------------------
Starts(b) == b \in Binary \ Broken

(* The checksum holds; a backup that exists is kept, whatever is in it.    *)
BeginAlwaysBackup(v) ==
    /\ script = "idle" /\ installs < MaxInstalls
    /\ bundle' = v
    /\ script' = "backup"
    /\ installs' = installs + 1
    /\ UNCHANGED <<target, backup, pending, service, hasRun, cuts, kills>>

Begin(v) ==
    /\ script = "idle" /\ installs < MaxInstalls
    /\ bundle' = v
    /\ script' = IF backup = NoFile THEN "backup" ELSE "pending"
    /\ installs' = installs + 1
    /\ UNCHANGED <<target, backup, pending, service, hasRun, cuts, kills>>

(* A copy ends or is cut short, which ends the script.                     *)
Copied(next) == script' = next /\ UNCHANGED cuts

CutShort == cuts + kills < MaxFaults /\ cuts' = cuts + 1 /\ script' = "idle"

CopyBackup ==
    /\ script = "backup"
    /\ \/ backup' = target /\ Copied("pending")
       \/ backup' = Torn /\ CutShort
    /\ UNCHANGED <<bundle, target, pending, service, hasRun, installs, kills>>

(* Two bugs kept for the mutation runs: nothing is copied; the new binary  *)
(* is copied over the old one, without the file next to it.                *)
CopyForgotten ==
    /\ script = "pending"
    /\ script' = "stop"
    /\ UNCHANGED <<bundle, target, backup, pending, service, hasRun, installs, cuts, kills>>

CopyInPlace ==
    /\ script = "pending"
    /\ \/ target' = bundle /\ pending' = bundle /\ Copied("stop")
       \/ target' = Torn /\ UNCHANGED pending /\ CutShort
    /\ UNCHANGED <<bundle, backup, service, hasRun, installs, kills>>

CopyPending ==
    /\ script = "pending"
    /\ \/ pending' = bundle /\ Copied("stop")
       \/ pending' = Torn /\ CutShort
    /\ UNCHANGED <<bundle, target, backup, service, hasRun, installs, kills>>

StopService ==
    /\ script = "stop"
    /\ service' = NoFile
    /\ script' = "replace"
    /\ UNCHANGED <<bundle, target, backup, pending, hasRun, installs, cuts, kills>>

Replace ==
    /\ script = "replace"
    /\ target' = pending
    /\ pending' = NoFile
    /\ script' = "start"
    /\ UNCHANGED <<bundle, backup, service, hasRun, installs, cuts, kills>>

(* systemctl start: a service that is up stays as it is.                   *)
Started ==
    /\ service' = IF service = NoFile /\ Starts(target) THEN target ELSE service
    /\ hasRun' = hasRun \cup ({service'} \ {NoFile})

(* A bug kept for the mutation runs: no rollback.                          *)
StartAndLeave ==
    /\ script = "start"
    /\ Started
    /\ script' = "idle"
    /\ UNCHANGED <<bundle, target, backup, pending, installs, cuts, kills>>

(* start and is-active                                                     *)
StartAndCheck ==
    /\ script = "start"
    /\ Started
    /\ script' = IF service' = NoFile THEN "restore" ELSE "idle"
    /\ UNCHANGED <<bundle, target, backup, pending, installs, cuts, kills>>

Restore ==
    /\ script = "restore"
    /\ \/ target' = backup /\ Copied("restart")
       \/ target' = Torn /\ CutShort
    /\ UNCHANGED <<bundle, backup, pending, service, hasRun, installs, kills>>

Restart ==
    /\ script = "restart"
    /\ Started
    /\ script' = "idle"
    /\ UNCHANGED <<bundle, target, backup, pending, installs, cuts, kills>>

Killed ==
    /\ script # "idle" /\ cuts + kills < MaxFaults
    /\ kills' = kills + 1
    /\ script' = "idle"
    /\ UNCHANGED <<bundle, target, backup, pending, service, hasRun, installs, cuts>>

(* The host is booted, or somebody starts the service.                     *)
Boot ==
    /\ script = "idle" /\ service = NoFile
    /\ Started
    /\ UNCHANGED <<script, bundle, target, backup, pending, installs, cuts, kills>>

(* The steps of the script that leave requests to the service alone.       *)
OtherStep ==
    \/ CopyBackup \/ CopyPending \/ Replace \/ StartAndCheck \/ Restore \/ Restart
=============================================================================

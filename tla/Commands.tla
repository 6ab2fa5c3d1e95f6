------------------------------- MODULE Commands -------------------------------
(***************************************************************************)
(* The commands that share nothing while they run: the root command        *)
(* dispatches one of them, in a process of its own (cmd/root.go).  What    *)
(* tunnels do to the known_hosts file is one of them here, and `gws        *)
(* update' is two: the choice of a release, and what Apply does to the     *)
(* executable.                                                             *)
(***************************************************************************)
EXTENDS Listing, States, Transfer, KnownHosts, ReleaseChoice, Updater, Wizard

VARIABLE command  \* the command that runs

Command == {"list", "status", "up and down", "tunnel", "update", "apply", "setup"}

all == <<command, listing, states, transfer, hostsFile, release, updater, wizard>>

CommandsOK ==
    /\ command \in Command
    /\ ListingOK /\ StatesOK /\ TransferOK /\ KnownHostsOK /\ ReleaseOK
    /\ UpdaterOK /\ WizardOK

(* What the other commands would find is left at its simplest.             *)
Untouched ==
    /\ command # "status" => named = CHOOSE c \in Context : TRUE
    /\ command # "up and down" =>
        /\ made = {}
        /\ \A i \in Upped : remote[i].is = "none"
        /\ \A i \in Downed : local[i].is = "none"
    /\ command # "tunnel" => knownHosts = {}
    /\ command # "update" => version = Dev
    /\ command # "setup" => form = CHOOSE f \in FirstForm : TRUE

Init ==
    /\ command \in Command
    /\ ListInit /\ StatesInit /\ TransferInit /\ KnownHostsInit /\ ReleaseInit
    /\ UpdaterInit /\ WizardInit
    /\ Untouched

List ==
    /\ command = "list" /\ ListNext
    /\ UNCHANGED <<command, states, transfer, hostsFile, release, updater, wizard>>

Status ==
    /\ command = "status" /\ StatesNext
    /\ UNCHANGED <<command, listing, transfer, hostsFile, release, updater, wizard>>

UpAndDown ==
    /\ command = "up and down" /\ TransferNext
    /\ UNCHANGED <<command, listing, states, hostsFile, release, updater, wizard>>

OpenTunnels ==
    /\ command = "tunnel" /\ KnownHostsNext
    /\ UNCHANGED <<command, listing, states, transfer, release, updater, wizard>>

Update ==
    /\ command = "update" /\ ReleaseNext
    /\ UNCHANGED <<command, listing, states, transfer, hostsFile, updater, wizard>>

Apply ==
    /\ command = "apply" /\ UpdaterNext
    /\ UNCHANGED <<command, listing, states, transfer, hostsFile, release, wizard>>

InSetup(A) ==
    /\ command = "setup" /\ A
    /\ UNCHANGED <<command, listing, states, transfer, hostsFile, release, updater>>

Next == List \/ Status \/ UpAndDown \/ OpenTunnels \/ Update \/ Apply \/ InSetup(WizardNext)

Spec == Init /\ [][Next]_all

(* The loop of the setup delivers the quit message.  The user, and the     *)
(* calls, may do nothing for ever; one who wants out presses Esc again and *)
(* again, also when it has closed the file picker.                         *)
FairSpec ==
    /\ Spec
    /\ WF_all(InSetup(Quit)) /\ WF_all(InSetup(Escape)) /\ SF_all(InSetup(~picker /\ Escape))

-----------------------------------------------------------------------------
(* Esc gets out of every state of the setup, a failed call that nothing    *)
(* retries and the file picker included.                                   *)
EscapeEnds == command = "setup" => <>(ended # "no")
=============================================================================

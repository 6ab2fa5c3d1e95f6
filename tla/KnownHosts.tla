------------------------------ MODULE KnownHosts ------------------------------
(***************************************************************************)
(* What every tunnel does to the known_hosts file once it listens: it      *)
(* fetches the key of its host (ssh.GetHostKey), reads the file, replaces  *)
(* the lines of its addresses, and writes the file back in place           *)
(* (updateKnownHosts in internal/gcloud/tunnel.go), without a lock.        *)
(*                                                                         *)
(* Empty lines, order and repetitions, which the code removes, are left    *)
(* out: a file is a set of lines, a line a set of addresses and a key.  An *)
(* address is recognised in clear and hashed alike.                        *)
(***************************************************************************)
EXTENDS FiniteSets

CONSTANTS Tunnel,     \* tunnels that may be open at once
          Address,    \* addresses in the file
          AddressOf,  \* each tunnel's: its numeric host and its name, with its port
          Key,        \* host keys; the workstation has a new one whenever it starts
          OldFile     \* what the file may hold at first

(* A line: its addresses and its key; comments and the like have none.     *)
Line == [hosts : SUBSET Address, key : Key]

ASSUME KnownHostsAssumption ==
    /\ Key # {}
    /\ AddressOf \in [Tunnel -> SUBSET Address]
    /\ \A t, u \in Tunnel : t # u => AddressOf[t] \cap AddressOf[u] = {}
    /\ OldFile \subseteq SUBSET Line

VARIABLES knownHosts,  \* the file
          where,       \* where each tunnel is
          hostKey,     \* the key each tunnel was shown
          copy,        \* the file as each tunnel has read it
          calm         \* history: no tunnel died or wrote while another was at it

hostsFile == <<knownHosts, where, hostKey, copy, calm>>

KnownHostsOK ==
    /\ knownHosts \subseteq Line
    /\ where \in [Tunnel -> {"idle", "fetched", "read", "truncated", "written", "failed"}]
    /\ hostKey \in [Tunnel -> Key]
    /\ copy \in [Tunnel -> SUBSET Line]
    /\ calm \in BOOLEAN

KnownHostsInit ==
    /\ knownHosts \in OldFile
    /\ where = [t \in Tunnel |-> "idle"]
    /\ hostKey = [t \in Tunnel |-> CHOOSE k \in Key : TRUE]
    /\ copy = [t \in Tunnel |-> {}]
    /\ calm = TRUE

Moves(t, w) == where' = [where EXCEPT ![t] = w]

Busy == {t \in Tunnel : where[t] \in {"read", "truncated"}}

-----------------------------------------------------------------------------
(* GetHostKey: the host's key, or no connection.  The tunnel may have been *)
(* open before.                                                            *)
GetHostKey(t) ==
    /\ where[t] \in {"idle", "written", "failed"}
    /\ \/ \E k \in Key : hostKey' = [hostKey EXCEPT ![t] = k] /\ Moves(t, "fetched")
       \/ Moves(t, "failed") /\ UNCHANGED hostKey
    /\ UNCHANGED <<knownHosts, copy, calm>>

Read(t) ==
    /\ where[t] = "fetched"
    /\ \/ /\ copy' = [copy EXCEPT ![t] = knownHosts]
          /\ calm' = (calm /\ Busy = {})
          /\ Moves(t, "read")
       \/ Moves(t, "failed") /\ UNCHANGED <<copy, calm>>
    /\ UNCHANGED <<knownHosts, hostKey>>

(* A line that matches an address of t stays if it has the new key.        *)
Keeps(t, l) == l.hosts \cap AddressOf[t] = {} \/ l.key = hostKey[t]

Satisfied(t, a) == \E l \in copy[t] : a \in l.hosts /\ l.key = hostKey[t]

(* Mutation of NewLines: one line for both addresses is enough.            *)
NewLinesOnce(t) ==
    IF \E a \in AddressOf[t] : Satisfied(t, a) THEN {}
    ELSE {[hosts |-> {a}, key |-> hostKey[t]] : a \in AddressOf[t]}

(* An address without the new key gets a line, hashed.                      *)
NewLines(t) ==
    {[hosts |-> {a}, key |-> hostKey[t]] : a \in {b \in AddressOf[t] : ~Satisfied(t, b)}}

Updated(t) == {l \in copy[t] : Keeps(t, l)} \cup NewLines(t)

(* Nothing is written if nothing would change.                             *)
LeaveAsIs(t) ==
    /\ where[t] = "read" /\ Updated(t) = copy[t]
    /\ Moves(t, "written")
    /\ UNCHANGED <<knownHosts, hostKey, copy, calm>>

(* os.WriteFile truncates the file, which may fail, and then writes.       *)
Truncate(t) ==
    /\ where[t] = "read" /\ Updated(t) # copy[t]
    /\ \/ knownHosts' = {} /\ Moves(t, "truncated")
       \/ Moves(t, "failed") /\ UNCHANGED knownHosts
    /\ UNCHANGED <<hostKey, copy, calm>>

Write(t) ==
    /\ where[t] = "truncated"
    /\ knownHosts' = Updated(t)
    /\ Moves(t, "written")
    /\ UNCHANGED <<hostKey, copy, calm>>

(* The tunnel is closed, or its write fails, before all is written.        *)
Cut(t) ==
    /\ where[t] = "truncated"
    /\ knownHosts' \in {{}, {l \in copy[t] : Keeps(t, l)}}
    /\ Moves(t, "failed")
    /\ calm' = FALSE
    /\ UNCHANGED <<hostKey, copy>>

KnownHostsNext ==
    \E t \in Tunnel : GetHostKey(t) \/ Read(t) \/ LeaveAsIs(t) \/ Truncate(t) \/ Write(t) \/ Cut(t)

KnownHostsSpec == KnownHostsInit /\ [][KnownHostsNext]_hostsFile

-----------------------------------------------------------------------------
Foreign(t) == UNION {AddressOf[u] : u \in Tunnel \ {t}}

(* On a line with an address of another tunnel: such a line goes when the  *)
(* other one's key has changed.                                            *)
Shared(t, a) == \E l \in copy[t] : a \in l.hosts /\ l.hosts \cap Foreign(t) # {}

(* As long as tunnels do their updates one after the other and none is cut *)
(* off, every tunnel that has done its own finds each of its addresses     *)
(* with the key it was shown and with no other, whatever the others have   *)
(* written since, unless the address shared a line with one of theirs; and *)
(* lines that name no tunnel's address stay.                               *)
KnownHostsCurrent ==
    calm /\ Busy = {} => \A t \in Tunnel :
        where[t] = "written" =>
            /\ \A a \in AddressOf[t] :
                Shared(t, a) \/ \E l \in knownHosts : a \in l.hosts /\ l.key = hostKey[t]
            /\ \A l \in knownHosts : l.hosts \cap AddressOf[t] # {} => l.key = hostKey[t]
            /\ \A l \in copy[t] : l.hosts \cap UNION {AddressOf[u] : u \in Tunnel} = {} => l \in knownHosts
=============================================================================

---------------------------- MODULE CommandsProofs ----------------------------
(***************************************************************************)
(* Proofs about the commands that end by themselves: ReleaseChoice,        *)
(* KnownHosts, Transfer, Listing and States, and the composition of these  *)
(* with Updater and Wizard.                                                *)
(***************************************************************************)
EXTENDS Commands, UpdaterProofs, WizardProofs, FiniteSetTheorems, WellFoundedInduction,
        SequenceTheorems, TLAPS

-----------------------------------------------------------------------------
(* ReleaseChoice.  From the comparison on the best release is the highest  *)
(* stable one of the list, and has an archive and checksums; what goes on  *)
(* to install was asked for and is newer or forced; what is verified is    *)
(* intact.                                                                 *)
Chosen ==
    phase \in {"compare", "apply", "fetched", "verified"} =>
        best \in Highest(releases) /\ Complete(best)

Wished ==
    phase \in {"apply", "fetched", "verified"} => ~check /\ ~notice /\ (force \/ Newer)

Intact == phase = "verified" => intact

ReleaseInv == ReleaseOK /\ Chosen /\ Wished /\ Intact

LEMMA ReleaseInvInit == ReleaseInit => ReleaseInv
BY DEF ReleaseInit, ReleaseInv, ReleaseOK, Chosen, Wished, Intact, Over

LEMMA HighestIsListed ==
    ASSUME NEW given \in SUBSET Release, NEW r \in Highest(given)
    PROVE  r \in given /\ r.kind = "stable" /\ \A s \in given : s.kind = "stable" => s.version <= r.version
BY DEF Highest, Stable

LEMMA ReleaseInvStep == ReleaseInv /\ [ReleaseNext]_release => ReleaseInv'
<1> SUFFICES ASSUME ReleaseInv, [ReleaseNext]_release PROVE ReleaseInv'
    OBVIOUS
<1> USE DEF ReleaseInv, ReleaseOK, Chosen, Wished, Intact, Over, Flags, Newer
<1>1. ASSUME NEW c \in BOOLEAN, NEW f \in BOOLEAN, NEW n \in BOOLEAN, Look(c, f, n) PROVE ReleaseInv'
    BY <1>1 DEF Look
<1>2. ASSUME NEW given \in Lists, Latest(given) PROVE ReleaseInv'
    BY <1>2 DEF Lists, Latest, Highest, Stable, Complete
<1>3. ASSUME NEW given \in Lists, NoneStable(given) PROVE ReleaseInv'
    BY <1>3 DEF Lists, NoneStable
<1>4. CASE GetFails \/ NoChecksum \/ Mismatch \/ InstallFails
    BY <1>4 DEF GetFails, NoChecksum, Mismatch, InstallFails, Fails
<1>5. CASE Decide
    BY <1>5 DEF Decide, Decision
<1>6. CASE Fetch
    BY <1>6 DEF Fetch
<1>7. CASE Verify
    BY <1>7 DEF Verify
<1>8. CASE Install
  <2>1. best \in Release
    BY <1>8 DEF Install, Highest, Stable
  <2>2. best.version \in Version
    BY <2>1, ReleaseAssumption
  <2> QED
    BY <1>8, <2>2 DEF Install
<1>9. CASE UNCHANGED release
    BY <1>9 DEF release, Highest, Stable, Complete
<1> QED
    BY <1>1, <1>2, <1>3, <1>4, <1>5, <1>6, <1>7, <1>8, <1>9 DEF ReleaseNext

(* Whatever is published, and whenever calls fail: only a stable release   *)
(* of which no complete one is higher is installed, after its checksum was *)
(* verified, and the version only goes down if that is forced.             *)
THEOREM ReleasesGoForward == ReleaseSpec => UpdatesForward
<1> DEFINE Forward ==
      /\ version' # version =>
            /\ ~check /\ ~notice
            /\ version' = best.version /\ best \in releases /\ Complete(best)
            /\ \A r \in releases : Complete(r) => r.version <= version'
            /\ force \/ (version \in Version /\ version' > version)
      /\ (phase' = "noticed" /\ phase # "noticed") => version \in Version /\ best.version > version
<1>1. ReleaseInv /\ [ReleaseNext]_release => [Forward]_release
  <2> SUFFICES ASSUME ReleaseInv, ReleaseNext PROVE Forward
      OBVIOUS
  <2> USE DEF ReleaseInv
  <2>1. ASSUME NEW c \in BOOLEAN, NEW f \in BOOLEAN, NEW n \in BOOLEAN, Look(c, f, n) PROVE Forward
    BY <2>1 DEF Look
  <2>2. ASSUME NEW given \in Lists, Latest(given) PROVE Forward
    BY <2>2 DEF Latest
  <2>3. ASSUME NEW given \in Lists, NoneStable(given) PROVE Forward
    BY <2>3 DEF NoneStable
  <2>4. CASE GetFails \/ NoChecksum \/ Mismatch \/ InstallFails
    BY <2>4 DEF GetFails, NoChecksum, Mismatch, InstallFails, Fails
  <2>5. CASE Decide
    BY <2>5 DEF Decide, Decision, Newer
  <2>6. CASE Fetch
    BY <2>6 DEF Fetch
  <2>7. CASE Verify
    BY <2>7 DEF Verify
  <2>8. CASE Install
    <3>1. best \in Highest(releases) /\ Complete(best) /\ releases \in SUBSET Release
      BY <2>8 DEF Install, Chosen, ReleaseOK
    <3>2. /\ best \in releases /\ best.kind = "stable"
          /\ \A s \in releases : s.kind = "stable" => s.version <= best.version
      BY <3>1, HighestIsListed
    <3>3. version' = best.version
      BY <2>8 DEF Install, Intact
    <3> QED
      BY <2>8, <3>1, <3>2, <3>3 DEF Install, Wished, Newer, Complete
  <2> QED
    BY <2>1, <2>2, <2>3, <2>4, <2>5, <2>6, <2>7, <2>8 DEF ReleaseNext
<1> QED
  BY <1>1, ReleaseInvInit, ReleaseInvStep, PTL DEF ReleaseSpec, UpdatesForward

-----------------------------------------------------------------------------
(* KnownHosts.  What KnownHostsCurrent says of the file, of any file; and  *)
(* that lines with addresses of several tunnels are old ones, because new  *)
(* lines have one address.                                                 *)
Own(t, f) ==
    /\ \A a \in AddressOf[t] : Shared(t, a) \/ \E l \in f : a \in l.hosts /\ l.key = hostKey[t]
    /\ \A l \in f : l.hosts \cap AddressOf[t] # {} => l.key = hostKey[t]
    /\ \A l \in copy[t] : l.hosts \cap UNION {AddressOf[u] : u \in Tunnel} = {} => l \in f

OldShared(t, f) ==
    \A l \in f : \A a \in AddressOf[t] : \A u \in Tunnel \ {t} :
        a \in l.hosts /\ l.hosts \cap AddressOf[u] # {} => l \in copy[t]

Good(t, f) == Own(t, f) /\ OldShared(t, f)

(* While all is calm one tunnel is busy, has read what is in the file, and *)
(* what it has read, like the file, is good for those that have written.   *)
OneBusy == calm => \A t, u \in Busy : t = u

FreshCopy == calm => \A t \in Tunnel : where[t] = "read" => copy[t] = knownHosts

AllGood ==
    calm => \A t \in Tunnel : where[t] = "written" =>
        /\ (\A u \in Tunnel : where[u] # "truncated") => Good(t, knownHosts)
        /\ \A u \in Tunnel : where[u] = "truncated" => Good(t, copy[u])

HostsInv == KnownHostsOK /\ OneBusy /\ FreshCopy /\ AllGood

LEMMA NewLinesType ==
    ASSUME KnownHostsOK, NEW t \in Tunnel
    PROVE  NewLines(t) \in SUBSET Line /\ Updated(t) \in SUBSET Line
<1>1. AddressOf[t] \in SUBSET Address /\ hostKey[t] \in Key /\ copy[t] \in SUBSET Line
  BY KnownHostsAssumption DEF KnownHostsOK
<1>2. \A a \in AddressOf[t] : [hosts |-> {a}, key |-> hostKey[t]] \in Line
  BY <1>1 DEF Line
<1> QED
  BY <1>1, <1>2 DEF NewLines, Updated

(* What a tunnel writes is good for itself.                                *)
LEMMA UpdateIsGood ==
    ASSUME KnownHostsOK, NEW t \in Tunnel
    PROVE  Good(t, Updated(t))
<1>1. ASSUME NEW a \in AddressOf[t]
      PROVE  \E l \in Updated(t) : a \in l.hosts /\ l.key = hostKey[t]
  <2>1. CASE Satisfied(t, a)
    BY <2>1 DEF Satisfied, Updated, Keeps
  <2>2. CASE ~Satisfied(t, a)
    <3> DEFINE n == [hosts |-> {a}, key |-> hostKey[t]]
    <3>1. n \in NewLines(t)
      BY <2>2 DEF NewLines
    <3>2. a \in n.hosts /\ n.key = hostKey[t]
      OBVIOUS
    <3> QED
      BY <3>1, <3>2 DEF Updated
  <2> QED
    BY <2>1, <2>2
<1>2. ASSUME NEW l \in Updated(t), l.hosts \cap AddressOf[t] # {}
      PROVE  l.key = hostKey[t]
  BY <1>2 DEF Updated, Keeps, NewLines
<1>3. ASSUME NEW l \in copy[t], l.hosts \cap UNION {AddressOf[u] : u \in Tunnel} = {}
      PROVE  l \in Updated(t)
  BY <1>3 DEF Updated, Keeps
<1>4. OldShared(t, Updated(t))
  <2> SUFFICES ASSUME NEW l \in Updated(t), NEW a \in AddressOf[t], NEW u \in Tunnel \ {t},
                      a \in l.hosts, l.hosts \cap AddressOf[u] # {}
               PROVE  l \in copy[t]
    BY DEF OldShared
  <2>1. ASSUME NEW b \in AddressOf[t], l = [hosts |-> {b}, key |-> hostKey[t]] PROVE FALSE
    <3>1. l.hosts = {b}
      BY <2>1
    <3>2. b \in AddressOf[u]
      BY <3>1
    <3> QED
      BY <3>2, KnownHostsAssumption
  <2> QED
    BY <2>1 DEF Updated, NewLines
<1> QED
  BY <1>1, <1>2, <1>3, <1>4 DEF Good, Own

(* And it keeps what is good for another one.                              *)
LEMMA UpdateKeepsGood ==
    ASSUME KnownHostsOK, NEW t \in Tunnel, NEW w \in Tunnel, w # t, Good(w, copy[t])
    PROVE  Good(w, Updated(t))
<1>0. AddressOf[w] \cap AddressOf[t] = {}
  BY KnownHostsAssumption
<1>1. ASSUME NEW l \in Updated(t)
      PROVE  l \in copy[t] \/ \E b \in AddressOf[t] : l.hosts = {b}
  <2>1. ASSUME NEW b \in AddressOf[t], l = [hosts |-> {b}, key |-> hostKey[t]] PROVE l.hosts = {b}
    BY <2>1
  <2> QED
    BY <2>1 DEF Updated, NewLines
<1>2. ASSUME NEW a \in AddressOf[w]
      PROVE  Shared(w, a) \/ \E l \in Updated(t) : a \in l.hosts /\ l.key = hostKey[w]
  <2> SUFFICES ASSUME ~Shared(w, a)
               PROVE  \E l \in Updated(t) : a \in l.hosts /\ l.key = hostKey[w]
    OBVIOUS
  <2>1. PICK l \in copy[t] : a \in l.hosts /\ l.key = hostKey[w]
    BY DEF Good, Own
  <2>2. l.hosts \cap AddressOf[t] = {}
    <3> SUFFICES ASSUME l.hosts \cap AddressOf[t] # {} PROVE FALSE
      OBVIOUS
    <3>1. l \in copy[w]
      BY <2>1 DEF Good, OldShared
    <3>2. l.hosts \cap Foreign(w) # {}
      BY DEF Foreign
    <3> QED
      BY <2>1, <3>1, <3>2 DEF Shared
  <2> QED
    BY <2>1, <2>2 DEF Updated, Keeps
<1>3. ASSUME NEW l \in Updated(t), l.hosts \cap AddressOf[w] # {}
      PROVE  l.key = hostKey[w]
  BY <1>0, <1>1, <1>3 DEF Good, Own
<1>4. ASSUME NEW l \in copy[w], l.hosts \cap UNION {AddressOf[u] : u \in Tunnel} = {}
      PROVE  l \in Updated(t)
  BY <1>4 DEF Good, Own, Updated, Keeps
<1>5. OldShared(w, Updated(t))
  BY <1>0, <1>1 DEF Good, OldShared
<1> QED
  BY <1>2, <1>3, <1>4, <1>5 DEF Good, Own

LEMMA HostsInvInit == KnownHostsInit => HostsInv
<1> SUFFICES ASSUME KnownHostsInit PROVE HostsInv
    OBVIOUS
<1>1. (CHOOSE k \in Key : TRUE) \in Key
  BY KnownHostsAssumption
<1>2. knownHosts \subseteq Line
  BY KnownHostsAssumption DEF KnownHostsInit
<1>3. KnownHostsOK
  BY <1>1, <1>2 DEF KnownHostsInit, KnownHostsOK
<1>4. \A t \in Tunnel : where[t] = "idle"
  BY DEF KnownHostsInit
<1> QED
  BY <1>3, <1>4 DEF HostsInv, OneBusy, FreshCopy, AllGood, Busy

LEMMA HostsTypeStep == KnownHostsOK /\ [KnownHostsNext]_hostsFile => KnownHostsOK'
<1> SUFFICES ASSUME KnownHostsOK, [KnownHostsNext]_hostsFile PROVE KnownHostsOK'
    OBVIOUS
<1>0. CASE UNCHANGED hostsFile
  BY <1>0 DEF KnownHostsOK, hostsFile
<1> SUFFICES ASSUME NEW t \in Tunnel,
                    GetHostKey(t) \/ Read(t) \/ LeaveAsIs(t) \/ Truncate(t) \/ Write(t) \/ Cut(t)
             PROVE  KnownHostsOK'
    BY <1>0 DEF KnownHostsNext
<1>1. CASE GetHostKey(t)
  BY <1>1 DEF GetHostKey, KnownHostsOK, Moves
<1>2. CASE Read(t)
  BY <1>2 DEF Read, KnownHostsOK, Moves
<1>3. CASE LeaveAsIs(t)
  BY <1>3 DEF LeaveAsIs, KnownHostsOK, Moves
<1>4. CASE Truncate(t)
  BY <1>4 DEF Truncate, KnownHostsOK, Moves
<1>5. CASE Write(t)
  BY <1>5, NewLinesType DEF Write, KnownHostsOK, Moves
<1>6. CASE Cut(t)
  <2>1. {l \in copy[t] : Keeps(t, l)} \in SUBSET Line
    BY DEF KnownHostsOK
  <2> QED
    BY <1>6, <2>1 DEF Cut, KnownHostsOK, Moves
<1> QED
  BY <1>1, <1>2, <1>3, <1>4, <1>5, <1>6

(* Good depends only on the key and the copy of its own tunnel.            *)
LEMMA GoodPersists ==
    ASSUME NEW w \in Tunnel, NEW f, Good(w, f), copy'[w] = copy[w], hostKey'[w] = hostKey[w]
    PROVE  Good(w, f)'
BY DEF Good, Own, OldShared, Shared, Foreign

LEMMA HostsInvStep == HostsInv /\ [KnownHostsNext]_hostsFile => HostsInv'
<1> SUFFICES ASSUME HostsInv, [KnownHostsNext]_hostsFile, calm' PROVE (OneBusy /\ FreshCopy /\ AllGood)'
    BY HostsTypeStep DEF HostsInv, OneBusy, FreshCopy, AllGood
<1>a. KnownHostsOK
  BY DEF HostsInv
<1>0. CASE UNCHANGED hostsFile
  BY <1>0 DEF hostsFile, HostsInv, OneBusy, FreshCopy, AllGood, Busy, Good, Own, OldShared, Shared, Foreign
<1> SUFFICES ASSUME NEW t \in Tunnel,
                    GetHostKey(t) \/ Read(t) \/ LeaveAsIs(t) \/ Truncate(t) \/ Write(t) \/ Cut(t)
             PROVE  (OneBusy /\ FreshCopy /\ AllGood)'
    BY <1>0 DEF KnownHostsNext
<1>b. calm
  BY DEF GetHostKey, Read, LeaveAsIs, Truncate, Write, Cut
<1>1. CASE GetHostKey(t)
  <2>1. \A w \in Tunnel \ {t} : where'[w] = where[w] /\ copy'[w] = copy[w] /\ hostKey'[w] = hostKey[w]
    BY <1>1, <1>a DEF GetHostKey, KnownHostsOK, Moves
  <2>2. where[t] \notin {"read", "truncated"} /\ where'[t] \in {"fetched", "failed"}
        /\ copy' = copy /\ knownHosts' = knownHosts
    BY <1>1, <1>a DEF GetHostKey, KnownHostsOK, Moves
  <2>3. (OneBusy /\ FreshCopy)'
    BY <1>b, <2>1, <2>2 DEF HostsInv, OneBusy, FreshCopy, Busy
  <2>4. ASSUME NEW w \in Tunnel, where'[w] = "written",
               NEW f, Good(w, f)
        PROVE  Good(w, f)'
    BY <2>1, <2>2, <2>4, GoodPersists
  <2>5. AllGood'
    BY <1>b, <2>1, <2>2, <2>4 DEF HostsInv, AllGood
  <2> QED
    BY <2>3, <2>5
<1>2. CASE Read(t)
  <2>1. \A w \in Tunnel \ {t} : where'[w] = where[w] /\ copy'[w] = copy[w]
    BY <1>2, <1>a DEF Read, KnownHostsOK, Moves
  <2>2. where[t] = "fetched" /\ hostKey' = hostKey /\ knownHosts' = knownHosts
    BY <1>2 DEF Read
  <2>3. CASE where'[t] = "read"
    <3>1. copy'[t] = knownHosts /\ Busy = {}
      BY <1>2, <1>a, <2>3 DEF Read, KnownHostsOK, Moves
    <3>2. (OneBusy /\ FreshCopy)'
      BY <2>1, <2>2, <3>1 DEF OneBusy, FreshCopy, Busy
    <3>3. ASSUME NEW w \in Tunnel, where'[w] = "written" PROVE Good(w, knownHosts)'
      <4>1. w # t /\ where[w] = "written"
        BY <2>1, <2>3, <3>3
      <4>2. Good(w, knownHosts)
        BY <1>b, <3>1, <4>1 DEF HostsInv, AllGood, Busy
      <4> QED
        BY <2>1, <2>2, <4>1, <4>2 DEF Good, Own, OldShared, Shared, Foreign
    <3>4. \A u \in Tunnel : where'[u] # "truncated"
      BY <2>1, <2>3, <3>1 DEF Busy
    <3> QED
      BY <3>2, <3>3, <3>4 DEF AllGood
  <2>4. CASE where'[t] # "read"
    <3>1. where'[t] = "failed" /\ copy' = copy
      BY <1>2, <1>a, <2>4 DEF Read, KnownHostsOK, Moves
    <3>2. (OneBusy /\ FreshCopy)'
      BY <1>b, <2>1, <2>2, <3>1 DEF HostsInv, OneBusy, FreshCopy, Busy
    <3>3. AllGood'
      BY <1>b, <2>1, <2>2, <3>1 DEF HostsInv, AllGood, Good, Own, OldShared, Shared, Foreign
    <3> QED
      BY <3>2, <3>3
  <2> QED
    BY <2>3, <2>4
<1>3. CASE LeaveAsIs(t)
  <2>1. \A w \in Tunnel \ {t} : where'[w] = where[w]
    BY <1>3, <1>a DEF LeaveAsIs, KnownHostsOK, Moves
  <2>2. where[t] = "read" /\ where'[t] = "written" /\ Updated(t) = copy[t]
        /\ UNCHANGED <<knownHosts, hostKey, copy>>
    BY <1>3, <1>a DEF LeaveAsIs, KnownHostsOK, Moves
  <2>3. (OneBusy /\ FreshCopy)'
    BY <1>b, <2>1, <2>2 DEF HostsInv, OneBusy, FreshCopy, Busy
  <2>4. Good(t, knownHosts)
    BY <1>a, <1>b, <2>2, UpdateIsGood DEF HostsInv, FreshCopy
  <2>5. \A u \in Tunnel : where[u] # "truncated"
    BY <1>b, <2>2 DEF HostsInv, OneBusy, Busy
  <2>6. \A w \in Tunnel : where'[w] = "written" => Good(w, knownHosts)
    BY <1>b, <2>1, <2>4, <2>5 DEF HostsInv, AllGood
  <2>7. AllGood'
    BY <2>1, <2>2, <2>5, <2>6 DEF AllGood, Good, Own, OldShared, Shared, Foreign
  <2> QED
    BY <2>3, <2>7
<1>4. CASE Truncate(t)
  <2>1. \A w \in Tunnel \ {t} : where'[w] = where[w]
    BY <1>4, <1>a DEF Truncate, KnownHostsOK, Moves
  <2>2. where[t] = "read" /\ UNCHANGED <<hostKey, copy>>
    BY <1>4 DEF Truncate
  <2>3. \A u \in Tunnel \ {t} : where[u] \notin {"read", "truncated"}
    BY <1>b, <2>2 DEF HostsInv, OneBusy, Busy
  <2>4. where'[t] \in {"truncated", "failed"} /\ (where'[t] = "failed" => knownHosts' = knownHosts)
    BY <1>4, <1>a DEF Truncate, KnownHostsOK, Moves
  <2>5. (OneBusy /\ FreshCopy)'
    BY <2>1, <2>3, <2>4 DEF OneBusy, FreshCopy, Busy
  <2>6. copy[t] = knownHosts
    BY <1>b, <2>2 DEF HostsInv, FreshCopy
  <2>7. ASSUME NEW w \in Tunnel, where'[w] = "written" PROVE Good(w, knownHosts)
    BY <1>b, <2>1, <2>2, <2>3, <2>4, <2>7 DEF HostsInv, AllGood
  <2>8. AllGood'
    BY <2>1, <2>2, <2>3, <2>4, <2>6, <2>7 DEF AllGood, Good, Own, OldShared, Shared, Foreign
  <2> QED
    BY <2>5, <2>8
<1>5. CASE Write(t)
  <2>1. \A w \in Tunnel \ {t} : where'[w] = where[w]
    BY <1>5, <1>a DEF Write, KnownHostsOK, Moves
  <2>2. where[t] = "truncated" /\ where'[t] = "written" /\ knownHosts' = Updated(t)
        /\ UNCHANGED <<hostKey, copy>>
    BY <1>5, <1>a DEF Write, KnownHostsOK, Moves
  <2>3. \A u \in Tunnel \ {t} : where[u] \notin {"read", "truncated"}
    BY <1>b, <2>2 DEF HostsInv, OneBusy, Busy
  <2>4. (OneBusy /\ FreshCopy)'
    BY <2>1, <2>2, <2>3 DEF OneBusy, FreshCopy, Busy
  <2>5. ASSUME NEW w \in Tunnel, where'[w] = "written" PROVE Good(w, Updated(t))
    <3>1. CASE w = t
      BY <1>a, <3>1, UpdateIsGood
    <3>2. CASE w # t
      <4>1. Good(w, copy[t])
        BY <1>b, <2>1, <2>2, <2>5, <3>2 DEF HostsInv, AllGood
      <4> QED
        BY <1>a, <3>2, <4>1, UpdateKeepsGood
    <3> QED
      BY <3>1, <3>2
  <2>6. ASSUME NEW w \in Tunnel, where'[w] = "written" PROVE Good(w, knownHosts)'
    <3>1. Good(w, Updated(t))
      BY <2>5, <2>6
    <3> DEFINE f == Updated(t)
    <3>2. Good(w, f)
      BY <3>1
    <3>3. knownHosts' = f
      BY <2>2
    <3> HIDE DEF f
    <3> QED
      BY <2>2, <3>2, <3>3 DEF Good, Own, OldShared, Shared, Foreign
  <2>7. \A u \in Tunnel : where'[u] # "truncated"
    BY <2>1, <2>2, <2>3
  <2> QED
    BY <2>4, <2>6, <2>7 DEF AllGood
<1>6. CASE Cut(t)
  BY <1>6 DEF Cut
<1> QED
  BY <1>1, <1>2, <1>3, <1>4, <1>5, <1>6

(* For any tunnels, addresses and keys: as long as the updates don't       *)
(* overlap, every tunnel that has done its own is found in the file with   *)
(* its current key and no other, but for an address that shared a line     *)
(* with another tunnel's; and lines of no tunnel stay.                     *)
THEOREM HostsStayCurrent == KnownHostsSpec => []KnownHostsCurrent
<1>1. HostsInv => KnownHostsCurrent
  <2> SUFFICES ASSUME HostsInv, calm, Busy = {}, NEW t \in Tunnel, where[t] = "written"
               PROVE  Own(t, knownHosts)
      BY DEF KnownHostsCurrent, Own
  <2>1. \A u \in Tunnel : where[u] # "truncated"
    BY DEF Busy
  <2> QED
    BY <2>1 DEF HostsInv, AllGood, Good
<1> QED
  BY <1>1, HostsInvInit, HostsInvStep, PTL DEF KnownHostsSpec

(* Keys, lines and places keep their types.                                *)
THEOREM HostsTypes == KnownHostsSpec => []KnownHostsOK
<1>1. HostsInv => KnownHostsOK
  BY DEF HostsInv
<1> QED
  BY <1>1, HostsInvInit, HostsInvStep, PTL DEF KnownHostsSpec

-----------------------------------------------------------------------------
(* Transfer.  What is before `next' has been done, what is after it not.   *)
DirsInv ==
    /\ stage = "dirs" => verb = "up" /\ \A i \in 1 .. Len(Dirs) :
                           i < next /\ Dirs[i].perm = NoPerm => Dirs[i].name \in made
    /\ stage \in {"files", "copied", "done"} /\ verb = "up" =>
        \A i \in 1 .. Len(Dirs) : Dirs[i].perm = NoPerm => Dirs[i].name \in made

UpInv ==
    stage \in {"files", "copied", "done"} /\ verb = "up" =>
        \A i \in Upped : i < next => remote[i] = [is |-> "new", perm |-> Files[i].perm]

DownInv ==
    /\ stage \in {"auth", "connect"} => next = 1 /\ links < 2 /\ \A i \in Downed : local[i].is = begun[i]
    /\ stage \in {"files", "done"} /\ verb = "down" => \A i \in Downed :
        /\ i < next => local[i].is = IF begun[i] \in {"long", "mixed"} THEN "mixed" ELSE "copy"
        /\ i >= next => local[i].is = begun[i]

EndInv ==
    /\ stage = "copied" => verb = "up" /\ next \in Upped
    /\ stage = "done" => next > Len(Files)
    /\ stage = "read-only" /\ verb = "up" => Files[next].perm # "0400"

TransferInv == TransferOK /\ DirsInv /\ UpInv /\ DownInv /\ EndInv

LEMMA TransferInvInit == TransferInit => TransferInv
<1> SUFFICES ASSUME TransferInit PROVE TransferInv
    OBVIOUS
<1>1. 1 \in 1 .. Len(Dirs) + Len(Files) + 1
  BY TransferAssumption
<1>2. TransferOK
  BY <1>1 DEF TransferInit, TransferOK, Dir
<1> QED
  BY <1>2 DEF TransferInit, TransferInv, DirsInv, UpInv, DownInv, EndInv

(* Nothing is before the first.                                            *)
LEMMA AtFirst ==
    /\ 1 \in 1 .. Len(Dirs) + Len(Files) + 1
    /\ \A i \in 1 .. Len(Dirs) : ~(i < 1)
    /\ Upped \subseteq 1 .. Len(Files) /\ Downed \subseteq 1 .. Len(Files)
    /\ \A i \in 1 .. Len(Files) : ~(i < i)
BY TransferAssumption DEF Upped, Downed

(* The first method is one of the three.                                   *)
LEMMA FirstMethod == Methods[1] \in {"agent", "key", "prompt"}
<1> DEFINE own == IF key = "plain" THEN "key" ELSE "prompt"
<1>1. CASE agent = "keys"
  <2>1. Methods = <<"agent">> \o <<own>>
    BY <1>1 DEF Methods
  <2>2. (<<"agent">> \o <<own>>)[1] = "agent"
    OBVIOUS
  <2> QED
    BY <2>1, <2>2
<1>2. CASE agent # "keys"
  <2>1. Methods = <<>> \o <<own>>
    BY <1>2 DEF Methods
  <2>2. (<<>> \o <<own>>)[1] = own
    OBVIOUS
  <2> QED
    BY <2>1, <2>2
<1> QED
  BY <1>1, <1>2

LEMMA RunStep ==
    ASSUME TransferInv, NEW v \in {"up", "down"}, NEW a \in {"none", "dead", "empty", "keys"},
           NEW k \in {"missing", "broken", "plain", "locked"}, NEW who \in SUBSET {"agent", "key"},
           Run(v, a, k, who)
    PROVE  TransferInv'
<1>1. begun' = [i \in 1 .. Len(Files) |-> local[i].is] /\ local' = local
  BY DEF Run, files
<1>2. begun' \in [1 .. Len(Files) -> {"none", "short", "long", "part", "copy", "mixed"}]
  BY <1>1 DEF TransferInv, TransferOK
<1>3. stage' = "auth" /\ verb' = v /\ agent' = a /\ key' = k /\ known' = who
      /\ next' = 1 /\ links' = 0 /\ tried' = {} /\ UNCHANGED <<made, sshPerm, remote, local>>
  BY DEF Run, files
<1>4. TransferOK'
  <2>1. 1 \in 1 .. Len(Dirs) + Len(Files) + 1
    BY AtFirst
  <2>2. next' \in 1 .. Len(Dirs) + Len(Files) + 1 /\ links' \in 0 .. 2
    BY <1>3, <2>1
  <2> QED
    BY <1>2, <1>3, <2>2 DEF TransferInv, TransferOK
<1>5. \A i \in Downed : local'[i].is = begun'[i]
  BY <1>1, AtFirst
<1> QED
  BY <1>3, <1>4, <1>5 DEF TransferInv, DirsInv, UpInv, DownInv, EndInv

LEMMA TransferInvStep == TransferInv /\ [TransferNext]_transfer => TransferInv'
<1> SUFFICES ASSUME TransferInv, [TransferNext]_transfer PROVE TransferInv'
    OBVIOUS
<1>1. ASSUME NEW v \in {"up", "down"}, NEW a \in {"none", "dead", "empty", "keys"},
             NEW k \in {"missing", "broken", "plain", "locked"}, NEW who \in SUBSET {"agent", "key"},
             Run(v, a, k, who)
      PROVE  TransferInv'
  BY <1>1, RunStep
<1> USE TransferAssumption DEF TransferInv, TransferOK, DirsInv, UpInv, DownInv, EndInv, Ends, files,
        Upped, Downed
<1>2. CASE NoMethods
  BY <1>2 DEF NoMethods, Linked
<1>3. CASE MethodsReady
  BY <1>3 DEF MethodsReady, Linked
<1>4. CASE Unreachable
  BY <1>4 DEF Unreachable, Linked
<1>5. CASE Connect
  <2>1. UNCHANGED <<verb, agent, key, known, next, begun, files>> /\ stage = "connect" /\ next = 1
        /\ stage' \in {"connect", "dirs", "files"} /\ (stage' = "dirs" => verb = "up")
        /\ (stage' = "files" => verb = "down")
    BY <1>5 DEF Connect
  <2>2. links' \in 0 .. 2 /\ (stage' = "connect" => links' < 2)
    BY <1>5 DEF Connect
  <2>3. tried' \subseteq {"agent", "key", "prompt"}
    BY <1>5, FirstMethod DEF Connect, Offered
  <2>4. TransferOK'
    BY <2>1, <2>2, <2>3
  <2>5. \A i \in 1 .. Len(Dirs) : ~(i < 1)
    BY AtFirst
  <2>6. (DirsInv /\ UpInv)'
    BY <2>1, <2>5
  <2>7. (DownInv /\ EndInv)'
    BY <2>1, <2>2
  <2> QED
    BY <2>4, <2>6, <2>7
<1>6. CASE NotAuthorized
  <2>1. UNCHANGED <<verb, agent, key, known, links, next, begun, files>> /\ stage' = "unauthorized"
    BY <1>6 DEF NotAuthorized
  <2>2. tried' \subseteq {"agent", "key", "prompt"}
    BY <1>6, FirstMethod DEF NotAuthorized, Offered
  <2> QED
    BY <2>1, <2>2
<1>7. CASE Lose
  BY <1>7 DEF Lose, Linked
<1>8. CASE MakeDir
  <2> DEFINE perm == Dirs[next].perm
             fine == IF perm = NoPerm THEN Dirs[next].name \in made' ELSE Ssh \in made'
  <2>0. stage = "dirs" /\ next <= Len(Dirs)
    BY <1>8 DEF MakeDir
  <2>1. /\ stage = "dirs" /\ verb = "up" /\ next \in 1 .. Len(Dirs)
        /\ made' \in {made, made \cup {Dirs[next].name}}
        /\ UNCHANGED <<verb, agent, key, known, tried, links, begun, remote, local>>
    <3>1. verb = "up" /\ next \in 1 .. Len(Dirs)
      BY <2>0
    <3> QED
      BY <1>8, <3>1 DEF MakeDir, Linked
  <2>2. IF fine THEN next' = next + 1 /\ UNCHANGED stage ELSE stage' = "no directory" /\ UNCHANGED next
    BY <1>8 DEF MakeDir
  <2>3. sshPerm' = IF fine /\ perm # NoPerm THEN perm ELSE sshPerm
    BY <1>8 DEF MakeDir
  <2>4. Dirs[next].name \in Dir /\ perm \in Perm
    BY <2>1 DEF Dir, Perm
  <2>5. made' \subseteq Dir /\ made \subseteq made'
    BY <2>1, <2>4
  <2>6. sshPerm' \in Perm \cup {"0700"}
    BY <2>3, <2>4
  <2>7. CASE fine
    <3>1. next' = next + 1 /\ stage' = stage /\ (perm = NoPerm => Dirs[next].name \in made')
      BY <2>2, <2>7
    <3>2. next' \in 1 .. Len(Dirs) + Len(Files) + 1
      BY <2>1, <3>1
    <3> QED
      BY <2>1, <2>5, <2>6, <3>1, <3>2
  <2>8. CASE ~fine
    <3>1. next' = next /\ stage' = "no directory"
      BY <2>2, <2>8
    <3> QED
      BY <2>1, <2>5, <2>6, <3>1
  <2> QED
    BY <2>7, <2>8
<1>9. CASE DirsMade
  BY <1>9 DEF DirsMade, Linked
<1>10. CASE SkipFile
  BY <1>10 DEF SkipFile, Linked
<1>11. CASE Chmod
  <2> DEFINE r == [is |-> "new", perm |-> Files[next].perm]
  <2>1. /\ stage = "copied" /\ verb = "up" /\ next \in Upped /\ stage' = "files" /\ next' = next + 1
        /\ remote' = [remote EXCEPT ![next] = r]
        /\ UNCHANGED <<verb, agent, key, known, tried, links, begun, made, sshPerm, local>>
    BY <1>11 DEF Chmod, Arrives, Linked
  <2>2. next \in 1 .. Len(Files) /\ next' \in 1 .. Len(Dirs) + Len(Files) + 1
    BY <2>1
  <2>3. r \in [is : {"none", "old", "part", "new"}, perm : Perm \cup {"0600"}]
    BY <2>2 DEF Perm
  <2>4. remote'[next] = r /\ \A i \in Upped \ {next} : remote'[i] = remote[i]
    BY <2>1, <2>2
  <2>5. TransferOK'
    <3> HIDE DEF r
    <3> QED
      BY <2>1, <2>2, <2>3
  <2>6. \A i \in Upped : i < next' => i < next \/ i = next
    BY <2>1, <2>2
  <2>7. UpInv'
    BY <2>1, <2>4, <2>6
  <2>8. (DirsInv /\ DownInv /\ EndInv)'
    BY <2>1
  <2> QED
    BY <2>5, <2>7, <2>8
<1>12. CASE Finish
  BY <1>12 DEF Finish, Linked
<1>13. ASSUME NEW f, UploadFails(f) PROVE TransferInv'
  BY <1>13 DEF UploadFails, UpTurn, CanUpload, Linked
<1>14. ASSUME NEW f, UploadBreaks(f) PROVE TransferInv'
  <2>1. /\ stage = "files" /\ verb = "up" /\ next \in Upped /\ f = Files[next] /\ stage' = "lost"
        /\ remote' = [remote EXCEPT ![next] = [is |-> "part", perm |-> CopyPerm(f)]]
        /\ UNCHANGED <<verb, agent, key, known, tried, links, next, begun, made, sshPerm, local>>
    BY <1>14 DEF UploadBreaks, UpTurn, Arrives, Linked
  <2>2. next \in 1 .. Len(Files) /\ CopyPerm(f) \in Perm \cup {"0600"}
    BY <2>1 DEF CopyPerm, Perm
  <2> DEFINE r == [is |-> "part", perm |-> CopyPerm(f)]
  <2>3. r \in [is : {"none", "old", "part", "new"}, perm : Perm \cup {"0600"}]
    BY <2>2
  <2>4. remote' = [remote EXCEPT ![next] = r]
    BY <2>1
  <2> HIDE DEF r
  <2>5. TransferOK'
    BY <2>1, <2>2, <2>3, <2>4
  <2>6. \A i \in Upped : i < next => remote'[i] = remote[i]
    <3>2. ~(next < next)
      BY <2>2, AtFirst
    <3> QED
      BY <2>4, <3>2
  <2> QED
    BY <2>1, <2>5, <2>6
<1>15. ASSUME NEW f, Upload(f) PROVE TransferInv'
  <2>1. /\ stage = "files" /\ verb = "up" /\ next \in Upped /\ f = Files[next] /\ stage' = "copied"
        /\ remote' = [remote EXCEPT ![next] = [is |-> "new", perm |-> CopyPerm(f)]]
        /\ UNCHANGED <<verb, agent, key, known, tried, links, next, begun, made, sshPerm, local>>
    BY <1>15 DEF Upload, UpTurn, Arrives, Linked
  <2>2. next \in 1 .. Len(Files) /\ CopyPerm(f) \in Perm \cup {"0600"}
    BY <2>1 DEF CopyPerm, Perm
  <2> DEFINE r == [is |-> "new", perm |-> CopyPerm(f)]
  <2>3. r \in [is : {"none", "old", "part", "new"}, perm : Perm \cup {"0600"}]
    BY <2>2
  <2>4. remote' = [remote EXCEPT ![next] = r]
    BY <2>1
  <2> HIDE DEF r
  <2>5. TransferOK'
    BY <2>1, <2>2, <2>3, <2>4
  <2>6. \A i \in Upped : i < next => remote'[i] = remote[i]
    <3>2. ~(next < next)
      BY <2>2, AtFirst
    <3> QED
      BY <2>4, <3>2
  <2> QED
    BY <2>1, <2>5, <2>6
<1>16. ASSUME NEW f, DownloadFails(f) PROVE TransferInv'
  BY <1>16 DEF DownloadFails, DownTurn, Linked
<1>17. ASSUME NEW f, DownloadBreaks(f) PROVE TransferInv'
  <2> DEFINE is == IF local[next].is \in {"long", "mixed"} THEN "mixed" ELSE "part"
             r == [is |-> is, perm |-> IF local[next].is = "none" THEN f.perm ELSE local[next].perm]
  <2>1. /\ stage = "files" /\ verb = "down" /\ next \in Downed /\ f = Files[next]
        /\ stage' = "lost" /\ next' = next /\ local' = [local EXCEPT ![next] = r]
        /\ UNCHANGED <<verb, agent, key, known, tried, links, begun, made, sshPerm, remote>>
    BY <1>17 DEF DownloadBreaks, DownTurn, Saved, Linked
  <2>2. next \in 1 .. Len(Files) /\ f.perm \in Perm
    BY <2>1 DEF Perm
  <2>3. r \in [is : {"none", "short", "long", "part", "copy", "mixed"}, perm : Perm \cup {"0600"}]
    BY <2>2
  <2>4. r.is = is
    OBVIOUS
  <2> HIDE DEF r
  <2>5. TransferOK'
    BY <2>1, <2>2, <2>3
  <2>6. local'[next].is = is /\ \A i \in Downed \ {next} : local'[i] = local[i]
    BY <2>1, <2>2, <2>4
  <2> QED
    BY <2>1, <2>2, <2>5, <2>6
<1>18. ASSUME NEW f, Download(f) PROVE TransferInv'
  <2> DEFINE is == IF local[next].is \in {"long", "mixed"} THEN "mixed" ELSE "copy"
             r == [is |-> is, perm |-> IF local[next].is = "none" THEN f.perm ELSE local[next].perm]
  <2>1. /\ stage = "files" /\ verb = "down" /\ next \in Downed /\ f = Files[next]
        /\ stage' = stage /\ next' = next + 1 /\ local' = [local EXCEPT ![next] = r]
        /\ UNCHANGED <<verb, agent, key, known, tried, links, begun, made, sshPerm, remote>>
    BY <1>18 DEF Download, DownTurn, Saved, Linked
  <2>2. next \in 1 .. Len(Files) /\ f.perm \in Perm
    BY <2>1 DEF Perm
  <2>3. r \in [is : {"none", "short", "long", "part", "copy", "mixed"}, perm : Perm \cup {"0600"}]
    BY <2>2
  <2>4. r.is = is
    OBVIOUS
  <2> HIDE DEF r
  <2>5. TransferOK'
    BY <2>1, <2>2, <2>3
  <2>6. local'[next].is = is /\ \A i \in Downed \ {next} : local'[i] = local[i]
    BY <2>1, <2>2, <2>4
  <2> QED
    BY <2>1, <2>2, <2>5, <2>6
<1>19. CASE UNCHANGED transfer
  <2>1. TransferOK'
    BY <1>19 DEF transfer
  <2>2. UNCHANGED <<stage, verb, links, next, made, remote, local, begun>>
    BY <1>19 DEF transfer
  <2> QED
    BY <2>1, <2>2
<1> HIDE DEF TransferInv, TransferOK, DirsInv, UpInv, DownInv, EndInv, Ends, files, Upped, Downed
<1>20. ASSUME NEW i \in 1 .. Len(Files),
              \/ UploadFails(Files[i]) \/ UploadBreaks(Files[i]) \/ Upload(Files[i])
              \/ DownloadFails(Files[i]) \/ DownloadBreaks(Files[i]) \/ Download(Files[i])
       PROVE  TransferInv'
  BY <1>13, <1>14, <1>15, <1>16, <1>17, <1>18, <1>20
<1> QED
  BY <1>1, <1>2, <1>3, <1>4, <1>5, <1>6, <1>7, <1>8, <1>9, <1>10, <1>11, <1>12, <1>19, <1>20
     DEF TransferNext

(* For any directories and files, however often commands are repeated and  *)
(* wherever they break off: an `up' that reports success has made and sent *)
(* everything, a `down' has copied the files that had no longer ones in    *)
(* their way.                                                              *)
THEOREM TransfersAreFaithful == TransferSpec => []TransferIsFaithful
<1>1. TransferInv => TransferIsFaithful
  <2> SUFFICES ASSUME TransferInv PROVE TransferIsFaithful
      OBVIOUS
  <2>1. stage = "done" => \A i \in Upped \cup Downed : i < next
    <3> SUFFICES ASSUME stage = "done", NEW i \in 1 .. Len(Files) PROVE i < next
        BY AtFirst
    <3>1. next > Len(Files) /\ next \in 1 .. Len(Dirs) + Len(Files) + 1
      BY DEF TransferInv, EndInv, TransferOK
    <3> QED
      BY <3>1, TransferAssumption
  <2> QED
    BY <2>1 DEF TransferInv, DirsInv, UpInv, DownInv, EndInv, TransferIsFaithful
<1> QED
  BY <1>1, TransferInvInit, TransferInvStep, PTL DEF TransferSpec

-----------------------------------------------------------------------------
(* Numbers, orders and sequences, for the listings.                        *)

(* A set of numbers has a least one.                                       *)
LEMMA Least == ASSUME NEW T \in SUBSET Nat, T # {} PROVE \E n \in T : \A m \in T : n <= m
<1>1. IsWellFoundedOn(OpToRel(<, Nat), Nat)
  BY NatLessThanWellFounded
<1> DEFINE R == OpToRel(<, Nat)
<1>2. \A x, y \in Nat : x < y => <<x, y>> \in R
  BY DEF OpToRel
<1>3. IsWellFoundedOn(R, Nat)
  BY <1>1
<1> HIDE DEF R
<1>4. \E x \in T : \A y \in T : ~ (<<y, x>> \in R)
  BY <1>3, WFMin
<1>5. PICK x \in T : \A y \in T : ~ (<<y, x>> \in R)
  BY <1>4
<1>6. \A m \in T : x <= m
  <2> SUFFICES ASSUME NEW m \in T PROVE x <= m
      OBVIOUS
  <2>1. ~(m < x)
    BY <1>2, <1>5
  <2>2. m \in Nat /\ x \in Nat
    OBVIOUS
  <2> QED
    BY <2>1, <2>2
<1> QED
  BY <1>6

(* Neighbours in order are enough if the order is transitive.              *)
LEMMA NeighboursSuffice ==
    ASSUME NEW n \in Nat, NEW R,
           \A i \in 1 .. n - 1 : <<i, i + 1>> \in R,
           \A i, j, k \in 1 .. n : <<i, j>> \in R /\ <<j, k>> \in R => <<i, k>> \in R
    PROVE  \A i, j \in 1 .. n : i < j => <<i, j>> \in R
<1> SUFFICES ASSUME NEW i \in 1 .. n, NEW j \in 1 .. n, i < j, <<i, j>> \notin R PROVE FALSE
    OBVIOUS
<1> DEFINE Off == {k \in 1 .. n : i < k /\ <<i, k>> \notin R}
<1>1. Off \in SUBSET Nat /\ j \in Off
  <2>1. \A k \in 1 .. n : k \in Nat
    OBVIOUS
  <2>2. Off \subseteq Nat
    BY <2>1
  <2> QED
    BY <2>2
<1>2. PICK k \in Off : \A m \in Off : k <= m
  BY <1>1, Least
<1>3. k # i + 1
  BY <1>2
<1>4. k - 1 \in 1 .. n /\ i < k - 1 /\ k - 1 \notin Off
  BY <1>2, <1>3
<1>5. <<i, k - 1>> \in R /\ <<k - 1, k>> \in R
  <2>1. <<i, k - 1>> \in R
    BY <1>4
  <2>2. k - 1 \in 1 .. n - 1 /\ (k - 1) + 1 = k
    BY <1>2, <1>4
  <2> QED
    BY <2>1, <2>2
<1> QED
  BY <1>2, <1>4, <1>5

LEMMA IntervalSize == ASSUME NEW n \in Nat PROVE IsFiniteSet(1 .. n) /\ Cardinality(1 .. n) = n
<1>1. n \in Int /\ 1 \in Int
  OBVIOUS
<1>2. IsFiniteSet(1 .. n) /\ Cardinality(1 .. n) = IF 1 > n THEN 0 ELSE n - 1 + 1
  BY <1>1, FS_Interval
<1> QED
  BY <1>2

(* Sequences that have everything once have as many elements.              *)
LEMMA OnceIfDistinct ==
    ASSUME NEW S, NEW seq \in Seq(S), \A i, j \in 1 .. Len(seq) : seq[i] = seq[j] => i = j
    PROVE  Once(seq, ToSet(seq)) /\ IsFiniteSet(ToSet(seq))
<1> DEFINE D == 1 .. Len(seq)
           T == ToSet(seq)
<1>1. DOMAIN seq = D /\ Len(seq) \in Nat /\ seq = [i \in D |-> seq[i]]
  OBVIOUS
<1>2. seq \in Bijection(D, T)
  BY <1>1 DEF Bijection, Injection, Surjection, IsInjective, ToSet
<1>3. IsFiniteSet(D) /\ Cardinality(D) = Len(seq)
  BY <1>1, IntervalSize
<1>4. IsFiniteSet(T) /\ Cardinality(T) = Cardinality(D)
  BY <1>2, <1>3, FS_Bijection DEF ExistsBijection
<1> QED
  BY <1>3, <1>4 DEF Once

(* An order in which all of a finite set are is onto it.                   *)
LEMMA OrdersAreOnto ==
    ASSUME NEW S, IsFiniteSet(S), NEW p \in SetToSeqs(S)
    PROVE  /\ Cardinality(S) \in Nat
           /\ p \in [1 .. Cardinality(S) -> S]
           /\ \A i, j \in 1 .. Cardinality(S) : p[i] = p[j] => i = j
           /\ \A s \in S : \E i \in 1 .. Cardinality(S) : p[i] = s
<1> DEFINE D == 1 .. Cardinality(S)
<1>1. Cardinality(S) \in Nat
  BY FS_CardinalityType
<1>2. p \in [D -> S] /\ \A i, j \in D : p[i] = p[j] => i = j
  BY DEF SetToSeqs
<1>3. p \in Injection(D, S)
  BY <1>2 DEF Injection, IsInjective
<1>4. Cardinality(D) = Cardinality(S)
  BY <1>1, IntervalSize
<1>5. p \in Surjection(D, S)
  BY <1>3, <1>4, FS_Injection
<1> QED
  BY <1>1, <1>2, <1>5 DEF Surjection

(* A function on an initial interval is a sequence.                        *)
LEMMA IntervalsAreSequences ==
    ASSUME NEW S, NEW n \in Nat, NEW f \in [1 .. n -> S]
    PROVE  f \in Seq(S) /\ Len(f) = n
<1>1. f = [i \in 1 .. n |-> f[i]] /\ \A i \in 1 .. n : f[i] \in S
  OBVIOUS
<1>2. [i \in 1 .. n |-> f[i]] \in Seq(S)
  BY <1>1
<1>3. f \in Seq(S)
  BY <1>1, <1>2
<1>4. DOMAIN f = 1 .. n /\ Len(f) \in Nat /\ DOMAIN f = 1 .. Len(f)
  BY <1>3
<1> QED
  BY <1>3, <1>4

(* A sequence with an element before it.                                   *)
LEMMA AfterFirst ==
    ASSUME NEW S, NEW h \in S, NEW n \in Nat, NEW f \in [1 .. n -> S]
    PROVE  /\ <<h>> \o f \in [1 .. n + 1 -> S]
           /\ (<<h>> \o f)[1] = h /\ \A i \in 1 .. n : (<<h>> \o f)[i + 1] = f[i]
<1> DEFINE s == <<h>> \o f
<1>1. f \in Seq(S) /\ Len(f) = n
  BY IntervalsAreSequences
<1>2. <<h>> \in Seq(S) /\ Len(<<h>>) = 1 /\ <<h>>[1] = h
  OBVIOUS
<1>3. /\ s \in Seq(S) /\ Len(s) = 1 + n
      /\ \A i \in 1 .. 1 + n : s[i] = IF i <= 1 THEN <<h>>[i] ELSE f[i - 1]
  BY <1>1, <1>2, ConcatProperties
<1> HIDE DEF s
<1>4. s \in [1 .. n + 1 -> S]
  BY <1>3
<1>5. s[1] = h
  <2>1. 1 \in 1 .. 1 + n /\ 1 <= 1
    OBVIOUS
  <2> QED
    BY <1>2, <1>3, <2>1
<1>6. ASSUME NEW i \in 1 .. n PROVE s[i + 1] = f[i]
  <2>1. i + 1 \in 1 .. 1 + n /\ ~(i + 1 <= 1) /\ (i + 1) - 1 = i
    OBVIOUS
  <2> QED
    BY <1>3, <2>1
<1> QED
  BY <1>4, <1>5, <1>6 DEF s

LEMMA FiveCells ==
    ASSUME NEW a, NEW b, NEW c, NEW d, NEW e, NEW S, NEW s \in [1 .. 5 -> S],
           s[1] = a, s[2] = b, s[3] = c, s[4] = d, s[5] = e
    PROVE  s = <<a, b, c, d, e>>
<1>1. DOMAIN s = 1 .. 5 /\ DOMAIN <<a, b, c, d, e>> = 1 .. 5
  OBVIOUS
<1>2. \A i \in 1 .. 5 : s[i] = <<a, b, c, d, e>>[i]
  OBVIOUS
<1>3. <<a, b, c, d, e>> = [i \in 1 .. 5 |-> <<a, b, c, d, e>>[i]] /\ s = [i \in 1 .. 5 |-> s[i]]
  OBVIOUS
<1> QED
  BY <1>1, <1>2, <1>3

LEMMA TailOfFive ==
    ASSUME NEW a, NEW b, NEW c, NEW d, NEW e
    PROVE  /\ Tail(<<a, b, c, d, e>>)[1] = b /\ Tail(<<a, b, c, d, e>>)[2] = c
           /\ Tail(<<a, b, c, d, e>>)[3] = d /\ Tail(<<a, b, c, d, e>>)[4] = e
           /\ Len(Tail(<<a, b, c, d, e>>)) = 4
OBVIOUS

-----------------------------------------------------------------------------
(* Listing.                                                                *)
LEMMA DayType == ASSUME NEW t \in Nat PROVE Day(t) \in Int
BY ListingAssumption DEF Day

(* What a comparison of rows looks at.                                     *)
LEMMA RowTypes ==
    ASSUME NEW m \in Machine
    PROVE  /\ m.name \in Nat /\ m.user \in Nat /\ m.state \in 0 .. 4
           /\ m.config \in Config /\ m.config[1] \in Cluster /\ m.config[2] \in Nat
           /\ m.started # Never => m.started \in Nat /\ Day(m.started) \in Int
           /\ m.created # Never => m.created \in Nat /\ Day(m.created) \in Int
<1>1. m.config \in Cluster \X Nat
  BY ListingAssumption
<1> QED
  BY <1>1, DayType, ListingAssumption

Date(t) == t = Never \/ Day(t) \in Int

LEMMA CompareDates ==
    ASSUME NEW a, NEW b, Date(a), Date(b)
    PROVE  /\ CompareDate(a, b) \in {-1, 0, 1}
           /\ CompareDate(a, b) = -1 <=> Later(a, b)
           /\ CompareDate(a, b) = 1 <=> Later(b, a)
BY DEF CompareDate, Later, Date

LEMMA CompareSays ==
    ASSUME query.sort \in Sort, NEW a \in Machine, NEW b \in Machine
    PROVE  /\ Compare(a, b) \in Int
           /\ Compare(a, b) <= 0 <=> NotBelow(a, b)
<1>1. /\ a.name \in Nat /\ a.user \in Nat /\ a.state \in 0 .. 4 /\ a.config[2] \in Nat
      /\ b.name \in Nat /\ b.user \in Nat /\ b.state \in 0 .. 4 /\ b.config[2] \in Nat
      /\ Date(a.started) /\ Date(a.created) /\ Date(b.started) /\ Date(b.created)
  BY RowTypes DEF Date
<1>2. CASE query.sort \in {"name", "user", "config", "state"}
  BY <1>1, <1>2 DEF Compare, NotBelow
<1>3. CASE query.sort = "last-started"
  <2> DEFINE s == CompareDate(a.started, b.started)
             c == CompareDate(a.created, b.created)
  <2>1. Compare(a, b) = IF s # 0 THEN s ELSE IF c # 0 THEN c ELSE a.name - b.name
    BY <1>3 DEF Compare
  <2>2. NotBelow(a, b) <=>
          \/ Later(a.started, b.started)
          \/ /\ ~Later(b.started, a.started)
             /\ \/ Later(a.created, b.created)
                \/ ~Later(b.created, a.created) /\ a.name <= b.name
    BY <1>3 DEF NotBelow
  <2>3. /\ s \in {-1, 0, 1} /\ (s = -1 <=> Later(a.started, b.started))
        /\ (s = 1 <=> Later(b.started, a.started))
    BY <1>1, CompareDates
  <2>4. /\ c \in {-1, 0, 1} /\ (c = -1 <=> Later(a.created, b.created))
        /\ (c = 1 <=> Later(b.created, a.created))
    BY <1>1, CompareDates
  <2>5. a.name \in Nat /\ b.name \in Nat
    BY <1>1
  <2> HIDE DEF s, c
  <2> QED
    BY <2>1, <2>2, <2>3, <2>4, <2>5
<1> QED
  BY <1>2, <1>3 DEF Sort

LEMMA NotBelowTransitive ==
    ASSUME query.sort \in Sort, NEW a \in Machine, NEW b \in Machine, NEW c \in Machine,
           NotBelow(a, b), NotBelow(b, c)
    PROVE  NotBelow(a, c)
<1>1. \A m \in Machine :
        /\ m.name \in Nat /\ m.user \in Nat /\ m.state \in 0 .. 4 /\ m.config[2] \in Nat
        /\ Date(m.started) /\ Date(m.created)
  BY RowTypes DEF Date
<1>2. CASE query.sort \in {"name", "user", "config", "state"}
  BY <1>1, <1>2 DEF NotBelow
<1>3. CASE query.sort = "last-started"
  <2>1. ASSUME NEW r, NEW s, NEW t, Date(r), Date(s), Date(t)
        PROVE  /\ Later(r, s) /\ ~Later(t, s) => Later(r, t)
               /\ ~Later(s, r) /\ Later(s, t) => Later(r, t)
               /\ ~Later(s, r) /\ ~Later(t, s) => ~Later(t, r)
               /\ ~(Later(s, t) /\ Later(t, s))
    BY <2>1 DEF Later, Date
  <2>2. ASSUME NEW x \in Machine, NEW y \in Machine
        PROVE  NotBelow(x, y) <=>
                  \/ Later(x.started, y.started)
                  \/ /\ ~Later(y.started, x.started)
                     /\ \/ Later(x.created, y.created)
                        \/ ~Later(y.created, x.created) /\ x.name <= y.name
    BY <1>3 DEF NotBelow
  <2> DEFINE L(x, y) == Later(x.started, y.started)
             C(x, y) == Later(x.created, y.created)
  <2>3. /\ L(a, b) /\ ~L(c, b) => L(a, c)
        /\ ~L(b, a) /\ L(b, c) => L(a, c)
        /\ ~L(b, a) /\ ~L(c, b) => ~L(c, a)
        /\ ~(L(b, c) /\ L(c, b))
    BY <1>1, <2>1
  <2>4. /\ C(a, b) /\ ~C(c, b) => C(a, c)
        /\ ~C(b, a) /\ C(b, c) => C(a, c)
        /\ ~C(b, a) /\ ~C(c, b) => ~C(c, a)
        /\ ~(C(b, c) /\ C(c, b))
    BY <1>1, <2>1
  <2>5. a.name <= b.name /\ b.name <= c.name => a.name <= c.name
    BY <1>1
  <2>6. /\ L(a, b) \/ (~L(b, a) /\ (C(a, b) \/ (~C(b, a) /\ a.name <= b.name)))
        /\ L(b, c) \/ (~L(c, b) /\ (C(b, c) \/ (~C(c, b) /\ b.name <= c.name)))
    BY <2>2
  <2>7. L(a, c) \/ (~L(c, a) /\ (C(a, c) \/ (~C(c, a) /\ a.name <= c.name)))
    <3> HIDE DEF L, C
    <3> QED
      BY <2>3, <2>4, <2>5, <2>6
  <2> QED
    BY <2>2, <2>7
<1> QED
  BY <1>2, <1>3 DEF Sort

(* What slices.SortFunc asks of a comparison: of any two rows it says the  *)
(* opposite when they are swapped, and it is transitive, for every sort    *)
(* flag; so whatever its algorithm, no row comes before a smaller one.     *)
THEOREM CompareIsAnOrder ==
    ASSUME query.sort \in Sort, NEW a \in Machine, NEW b \in Machine, NEW c \in Machine
    PROVE  /\ Compare(a, b) < 0 <=> Compare(b, a) > 0
           /\ Compare(a, b) <= 0 /\ Compare(b, c) <= 0 => Compare(a, c) <= 0
<1>1. Compare(a, b) <= 0 /\ Compare(b, c) <= 0 => Compare(a, c) <= 0
  BY CompareSays, NotBelowTransitive
<1>2. Compare(b, a) = -Compare(a, b) /\ Compare(a, b) \in Int
  <2>1. \A m \in {a, b} :
          /\ m.name \in Nat /\ m.user \in Nat /\ m.state \in 0 .. 4 /\ m.config[2] \in Nat
          /\ Date(m.started) /\ Date(m.created)
    BY RowTypes DEF Date
  <2>2. CASE query.sort \in {"name", "user", "config", "state"}
    BY <2>1, <2>2 DEF Compare
  <2>3. CASE query.sort = "last-started"
    <3>1. ASSUME NEW s, NEW t, Date(s), Date(t)
          PROVE  CompareDate(s, t) \in {-1, 0, 1} /\ CompareDate(t, s) = -CompareDate(s, t)
      BY <3>1 DEF CompareDate, Date
    <3> DEFINE atStart == CompareDate(a.started, b.started)
               atBirth == CompareDate(a.created, b.created)
    <3>2. /\ atStart \in {-1, 0, 1} /\ CompareDate(b.started, a.started) = -atStart
          /\ atBirth \in {-1, 0, 1} /\ CompareDate(b.created, a.created) = -atBirth
          /\ a.name \in Nat /\ b.name \in Nat
      BY <2>1, <3>1
    <3>3. /\ Compare(a, b) = IF atStart # 0 THEN atStart ELSE IF atBirth # 0 THEN atBirth ELSE a.name - b.name
          /\ Compare(b, a) = IF -atStart # 0 THEN -atStart ELSE IF -atBirth # 0 THEN -atBirth ELSE b.name - a.name
      BY <2>3, <3>2 DEF Compare
    <3> HIDE DEF atStart, atBirth
    <3> QED
      BY <3>2, <3>3
  <2> QED
    BY <2>2, <2>3 DEF Sort
<1> QED
  BY <1>1, <1>2

-----------------------------------------------------------------------------
(* Listing.  What the iterators have not returned yet, what a walk through *)
(* all of them has returned, and that nothing was returned twice.          *)
Left ==
    todo.machines \cup {m \in Machine : m.config \in todo.configs}
                  \cup {m \in Machine : m.config[1] \in todo.clusters}

Walked(total) == Left \subseteq total /\ ToSet(found) = total \ Left

OfCluster == {m \in Machine : m.config[1] = query.of}

NoTwice == \A i, j \in 1 .. Len(found) : found[i] = found[j] => i = j

Asked ==
    /\ level = "idle" => query = NoQuery /\ found = <<>>
    /\ level # "idle" => query \in Query
    /\ level \in {"usable", "clusters"} => query.of = "project"
    /\ level = "printed" => query.of # "project"

(* The levels are disjoint, and a level's iterator has nothing left when   *)
(* the walk is not inside of its loop.                                     *)
Loops ==
    /\ todo.clusters # {} =>
        query.of = "project" /\ level \in {"clusters", "configs", "machines", "failed"}
    /\ todo.configs # {} => level \in {"configs", "machines"}
    /\ todo.machines # {} => level \in {"machines", "usable"}
    /\ \A k \in todo.configs : k[1] \notin todo.clusters
    /\ \A m \in todo.machines : m.config \notin todo.configs /\ m.config[1] \notin todo.clusters

Whole ==
    /\ level = "usable" => Walked(Usable)
    /\ level \in {"clusters", "configs", "machines"} =>
        Walked(IF query.of = "project" THEN Machine ELSE OfCluster)
    /\ level = "listed" =>
        IF query.of = "project" THEN Walked(Usable) \/ Walked(Machine) ELSE Walked(OfCluster)

PrintedExactly ==
    level = "printed" =>
        /\ Once(shown, Wanted)
        /\ \A i \in 1 .. Len(shown) : \A j \in i + 1 .. Len(shown) : NotBelow(shown[i], shown[j])

ListInv == ListingOK /\ Asked /\ Loops /\ Whole /\ NoTwice /\ PrintedExactly

LEMMA ListInvInit == ListInit => ListInv
<1> SUFFICES ASSUME ListInit PROVE ListInv
    OBVIOUS
<1>1. Len(found) = 0 /\ found = <<>> /\ shown = <<>>
  BY DEF ListInit
<1>2. ListingOK
  <2>1. found \in Seq(Machine) /\ shown \in Seq(Machine)
    BY <1>1
  <2>2. todo \in [clusters : SUBSET Cluster, configs : SUBSET Config, machines : SUBSET Machine]
    BY DEF ListInit
  <2> QED
    BY <2>1, <2>2 DEF ListInit, ListingOK
<1> QED
  BY <1>1, <1>2 DEF ListInit, ListInv, Asked, Loops, Whole, NoTwice, PrintedExactly

LEMMA ClustersOf == \A m \in Machine : m.config \in Config /\ m.config[1] \in Cluster
BY RowTypes

(* Nothing the invariant is about changes but what is left.                *)
LEMMA SameFound ==
    ASSUME ListInv, UNCHANGED found, NEW total, Walked(total), Left' = Left
    PROVE  NoTwice' /\ Left' \subseteq total /\ ToSet(found') = total \ Left'
BY DEF ListInv, NoTwice, Walked

LEMMA AskStep == ASSUME ListInv, NEW q \in Query, Ask(q) PROVE ListInv'
<1>1. /\ level = "idle" /\ query' = q /\ found' = <<>> /\ shown' = shown
      /\ UNCHANGED <<broken, calls>>
  BY DEF Ask, ListInv, Asked
<1>2. /\ todo.clusters = {} /\ todo.configs = {} /\ todo.machines = {}
  BY <1>1 DEF ListInv, Loops
<1>3. ToSet(found') = {} /\ Len(found') = 0
  BY <1>1 DEF ToSet
<1>4. NoTwice'
  BY <1>3 DEF NoTwice
<1>5. todo \in [clusters : SUBSET Cluster, configs : SUBSET Config, machines : SUBSET Machine]
  BY DEF ListInv, ListingOK
<1>6. CASE q.of = "project"
  <2>1. level' = "usable" /\ todo'.clusters = {} /\ todo'.configs = {} /\ todo'.machines = Usable
        /\ todo' \in [clusters : SUBSET Cluster, configs : SUBSET Config, machines : SUBSET Machine]
    BY <1>2, <1>5, <1>6, ListingAssumption DEF Ask
  <2>2. Left' = Usable
    BY <2>1 DEF Left
  <2>3. Whole'
    BY <1>3, <2>1, <2>2 DEF Whole, Walked
  <2>4. ListingOK'
    BY <1>1, <2>1 DEF ListInv, ListingOK, Level
  <2> QED
    BY <1>1, <1>4, <1>6, <2>1, <2>3, <2>4 DEF ListInv, Asked, Loops, PrintedExactly
<1>7. CASE q.of # "project"
  <2>1. level' = "configs" /\ todo'.clusters = {} /\ todo'.configs = ConfigsOf(q.of) /\ todo'.machines = {}
        /\ todo' \in [clusters : SUBSET Cluster, configs : SUBSET Config, machines : SUBSET Machine]
    BY <1>2, <1>5, <1>7 DEF Ask, ConfigsOf
  <2>2. Left' = OfCluster'
    BY <1>1, <2>1, ClustersOf DEF Left, OfCluster, ConfigsOf
  <2>3. Whole'
    BY <1>1, <1>3, <1>7, <2>1, <2>2 DEF Whole, Walked
  <2>4. ListingOK'
    BY <1>1, <2>1 DEF ListInv, ListingOK, Level
  <2> QED
    BY <1>1, <1>4, <1>7, <2>1, <2>3, <2>4 DEF ListInv, Asked, Loops, PrintedExactly
<1> QED
  BY <1>6, <1>7

LEMMA NextClusterStep == ASSUME ListInv, NextCluster PROVE ListInv'
<1>1. PICK c \in todo.clusters :
        todo' = [todo EXCEPT !.clusters = @ \ {c}, !.configs = ConfigsOf(c)]
  BY DEF NextCluster
<1>2. /\ level = "clusters" /\ level' = "configs" /\ calls' = 1 - calls
      /\ UNCHANGED <<query, broken, found, shown>>
  BY DEF NextCluster, Called
<1>3. query.of = "project" /\ todo.configs = {} /\ todo.machines = {}
  BY <1>2 DEF ListInv, Asked, Loops
<1>4. todo \in [clusters : SUBSET Cluster, configs : SUBSET Config, machines : SUBSET Machine]
  BY DEF ListInv, ListingOK
<1>5. todo'.clusters = todo.clusters \ {c} /\ todo'.configs = ConfigsOf(c) /\ todo'.machines = {}
      /\ todo' \in [clusters : SUBSET Cluster, configs : SUBSET Config, machines : SUBSET Machine]
  BY <1>1, <1>3, <1>4 DEF ConfigsOf
<1>6. Left' = Left
  BY <1>3, <1>5, ClustersOf DEF Left, ConfigsOf
<1>7. Walked(Machine)
  BY <1>2, <1>3 DEF ListInv, Whole
<1>8. Whole' /\ NoTwice'
  BY <1>2, <1>3, <1>6, <1>7, SameFound DEF Whole, Walked
<1>9. ListingOK'
  BY <1>2, <1>5 DEF ListInv, ListingOK, Level
<1>10. Loops'
  BY <1>2, <1>3, <1>5 DEF Loops, ConfigsOf
<1> QED
  BY <1>2, <1>8, <1>9, <1>10 DEF ListInv, Asked, PrintedExactly

LEMMA NextConfigStep == ASSUME ListInv, NextConfig PROVE ListInv'
<1>1. PICK k \in todo.configs :
        todo' = [todo EXCEPT !.configs = @ \ {k}, !.machines = MachinesOf(k)]
  BY DEF NextConfig
<1>2. /\ level = "configs" /\ level' = "machines" /\ calls' = 1 - calls
      /\ UNCHANGED <<query, broken, found, shown>>
  BY DEF NextConfig, Called
<1>3. todo.machines = {} /\ todo.clusters # {} => query.of = "project"
  BY <1>2 DEF ListInv, Loops
<1>4. todo \in [clusters : SUBSET Cluster, configs : SUBSET Config, machines : SUBSET Machine]
  BY DEF ListInv, ListingOK
<1>5. todo'.clusters = todo.clusters /\ todo'.configs = todo.configs \ {k} /\ todo'.machines = MachinesOf(k)
      /\ todo' \in [clusters : SUBSET Cluster, configs : SUBSET Config, machines : SUBSET Machine]
  BY <1>1, <1>4 DEF MachinesOf
<1>6. Left' = Left
  <2>1. todo.machines = {}
    BY <1>2 DEF ListInv, Loops
  <2> QED
    BY <2>1, <1>5 DEF Left, MachinesOf
<1>7. Whole' /\ NoTwice'
  BY <1>2, <1>6, SameFound DEF ListInv, Whole, Walked, OfCluster
<1>8. ListingOK'
  BY <1>2, <1>5 DEF ListInv, ListingOK, Level
<1>9. Loops'
  BY <1>1, <1>2, <1>4, <1>5 DEF ListInv, Loops, MachinesOf
<1>10. Asked'
  BY <1>2 DEF ListInv, Asked
<1> QED
  BY <1>2, <1>7, <1>8, <1>9, <1>10 DEF ListInv, PrintedExactly

(* One more is found, which was not found before.                          *)
LEMMA FoundGrows ==
    ASSUME NEW seq \in Seq(Machine), NEW m \in Machine, m \notin ToSet(seq),
           \A i, j \in 1 .. Len(seq) : seq[i] = seq[j] => i = j
    PROVE  /\ Append(seq, m) \in Seq(Machine)
           /\ ToSet(Append(seq, m)) = ToSet(seq) \cup {m}
           /\ \A i, j \in 1 .. Len(Append(seq, m)) : Append(seq, m)[i] = Append(seq, m)[j] => i = j
<1> DEFINE more == Append(seq, m)
           n == Len(seq)
<1>1. n \in Nat /\ more \in Seq(Machine) /\ Len(more) = n + 1
      /\ more[n + 1] = m /\ \A i \in 1 .. n : more[i] = seq[i]
  OBVIOUS
<1>2. DOMAIN seq = 1 .. n /\ DOMAIN more = 1 .. n + 1
  BY <1>1
<1>3. \A i \in 1 .. n : seq[i] # m
  BY <1>2 DEF ToSet
<1>4. \A i \in 1 .. n + 1 : i \in 1 .. n \/ i = n + 1
  BY <1>1
<1>5. \A i \in 1 .. n : i \in 1 .. n + 1
  BY <1>1
<1>6. n + 1 \in 1 .. n + 1
  BY <1>1
<1> HIDE DEF more, n
<1>7. ToSet(more) = ToSet(seq) \cup {m}
  BY <1>1, <1>2, <1>4, <1>5, <1>6 DEF ToSet
<1>8. \A i, j \in 1 .. n + 1 : more[i] = more[j] => i = j
  BY <1>1, <1>3, <1>4 DEF n
<1> QED
  BY <1>1, <1>7, <1>8 DEF more

LEMMA NextMachineStep == ASSUME ListInv, NextMachine PROVE ListInv'
<1>1. PICK m \in todo.machines :
        todo' = [todo EXCEPT !.machines = @ \ {m}] /\ found' = Append(found, m)
  BY DEF NextMachine
<1>2. /\ level \in {"machines", "usable"} /\ calls' = 1 - calls
      /\ UNCHANGED <<query, level, broken, shown>>
  BY DEF NextMachine, Called
<1>3. todo \in [clusters : SUBSET Cluster, configs : SUBSET Config, machines : SUBSET Machine]
      /\ found \in Seq(Machine)
  BY DEF ListInv, ListingOK
<1>4. todo'.clusters = todo.clusters /\ todo'.configs = todo.configs /\ todo'.machines = todo.machines \ {m}
      /\ todo' \in [clusters : SUBSET Cluster, configs : SUBSET Config, machines : SUBSET Machine]
  BY <1>1, <1>3
<1>5. m \in Left /\ Left' = Left \ {m}
  BY <1>1, <1>4 DEF ListInv, Loops, Left
<1>6. m \notin ToSet(found)
  BY <1>2, <1>5 DEF ListInv, Whole, Walked
<1>7. m \in Machine
  BY <1>3
<1>8. found' \in Seq(Machine) /\ ToSet(found') = ToSet(found) \cup {m} /\ NoTwice'
  BY <1>1, <1>3, <1>6, <1>7, FoundGrows DEF ListInv, NoTwice
<1>9. ASSUME NEW total, Walked(total)
      PROVE  Left' \subseteq total /\ ToSet(found') = total \ Left'
  BY <1>5, <1>8, <1>9 DEF Walked
<1>10. Whole'
  BY <1>2, <1>9 DEF ListInv, Whole, Walked, OfCluster
<1>11. ListingOK'
  BY <1>2, <1>4, <1>8 DEF ListInv, ListingOK
<1>12. Loops'
  BY <1>2, <1>4 DEF ListInv, Loops
<1>13. Asked'
  BY <1>2 DEF ListInv, Asked
<1> QED
  BY <1>2, <1>8, <1>10, <1>11, <1>12, <1>13 DEF ListInv, PrintedExactly

LEMMA DoneStep == ASSUME ListInv, Done PROVE ListInv'
<1>1. /\ level \in Level /\ Rest = {} /\ level' = Outer /\ calls' = 1 - calls
      /\ UNCHANGED <<query, todo, broken, found, shown>>
  BY DEF Done, Called
<1>2. /\ NoTwice' = NoTwice /\ Left' = Left
      /\ \A total : Walked(total) => Left' \subseteq total /\ ToSet(found') = total \ Left'
  BY <1>1 DEF NoTwice, Left, Walked
<1>3. query \in Query
  BY <1>1 DEF ListInv, Asked, Level
<1>4. ListingOK' /\ PrintedExactly'
  BY <1>1 DEF ListInv, ListingOK, Outer, Level, Ended, PrintedExactly
<1>5. CASE level = "machines"
  <2>1. level' = "configs" /\ todo.machines = {}
    BY <1>1, <1>5 DEF Outer, Rest
  <2> QED
    BY <1>1, <1>2, <1>3, <1>4, <1>5, <2>1 DEF ListInv, Asked, Loops, Whole, Walked, OfCluster
<1>6. CASE level = "configs" /\ query.of = "project"
  <2>1. level' = "clusters" /\ todo.configs = {} /\ todo.machines = {}
    BY <1>1, <1>6 DEF Outer, Rest, ListInv, Loops
  <2> QED
    BY <1>1, <1>2, <1>3, <1>4, <1>6, <2>1 DEF ListInv, Asked, Loops, Whole, Walked, OfCluster
<1>7. CASE level = "configs" /\ query.of # "project"
  <2>1. level' = "listed" /\ todo.configs = {} /\ todo.machines = {} /\ todo.clusters = {}
    BY <1>1, <1>7 DEF Outer, Rest, ListInv, Loops
  <2> QED
    BY <1>1, <1>2, <1>3, <1>4, <1>7, <2>1 DEF ListInv, Asked, Loops, Whole, Walked, OfCluster
<1>8. CASE level \in {"clusters", "usable"}
  <2>1. level' = "listed" /\ todo.configs = {} /\ todo.machines = {} /\ todo.clusters = {}
        /\ query.of = "project"
    BY <1>1, <1>8 DEF Outer, Rest, ListInv, Asked, Loops
  <2>2. Walked(Usable) \/ Walked(Machine)
    BY <1>8, <2>1 DEF ListInv, Whole
  <2>3. Whole'
    BY <1>1, <1>2, <2>1, <2>2 DEF Whole, Walked
  <2> QED
    BY <1>1, <1>2, <1>3, <1>4, <2>1, <2>3 DEF ListInv, Asked, Loops
<1> QED
  BY <1>1, <1>5, <1>6, <1>7, <1>8 DEF Level

LEMMA FailStep == ASSUME ListInv, ClustersFail \/ InnerFails \/ FailsAgain PROVE ListInv'
<1>1. /\ UNCHANGED <<query, todo, found, shown>> /\ calls' = 1 - calls /\ broken' \in BOOLEAN
      /\ level' = level \/ (level = "clusters" /\ level' = "failed")
  BY DEF ClustersFail, InnerFails, FailsAgain, Called, ListInv, ListingOK
<1>2. /\ NoTwice' = NoTwice /\ Left' = Left
      /\ \A total : Walked(total) => Left' \subseteq total /\ ToSet(found') = total \ Left'
  BY <1>1 DEF NoTwice, Left, Walked
<1>3. ListingOK'
  BY <1>1 DEF ListInv, ListingOK, Ended
<1>4. PrintedExactly'
  BY <1>1 DEF ListInv, PrintedExactly, Wanted, NotBelow
<1>5. CASE level' = level
  BY <1>1, <1>2, <1>3, <1>4, <1>5 DEF ListInv, Asked, Loops, Whole, Walked, OfCluster
<1>6. CASE level = "clusters" /\ level' = "failed"
  BY <1>1, <1>2, <1>3, <1>4, <1>6 DEF ListInv, Asked, Loops, Whole
<1> QED
  BY <1>1, <1>5, <1>6

LEMMA UsableFailsStep == ASSUME ListInv, UsableFails PROVE ListInv'
<1>1. /\ level = "usable" /\ level' = "clusters" /\ found' = <<>> /\ calls' = 1 - calls
      /\ todo' = [todo EXCEPT !.clusters = Cluster, !.machines = {}]
      /\ UNCHANGED <<query, broken, shown>>
  BY DEF UsableFails, Called
<1>2. query.of = "project" /\ todo.configs = {} /\ query \in Query
  BY <1>1 DEF ListInv, Asked, Loops
<1>3. todo \in [clusters : SUBSET Cluster, configs : SUBSET Config, machines : SUBSET Machine]
  BY DEF ListInv, ListingOK
<1>4. todo'.clusters = Cluster /\ todo'.configs = {} /\ todo'.machines = {}
      /\ todo' \in [clusters : SUBSET Cluster, configs : SUBSET Config, machines : SUBSET Machine]
  BY <1>1, <1>2, <1>3
<1>5. Left' = Machine
  BY <1>4, ClustersOf DEF Left
<1>6. ToSet(found') = {} /\ Len(found') = 0 /\ found' \in Seq(Machine)
  BY <1>1 DEF ToSet
<1>7. Whole' /\ NoTwice'
  BY <1>1, <1>2, <1>5, <1>6 DEF Whole, Walked, NoTwice
<1>8. ListingOK'
  BY <1>1, <1>4, <1>6 DEF ListInv, ListingOK, Level
<1> QED
  BY <1>1, <1>2, <1>4, <1>7, <1>8 DEF ListInv, Asked, Loops, PrintedExactly

(* The filters keep what is wanted of the machines of a cluster.           *)
LEMMA PassesIsWanted ==
    ASSUME NEW m \in Machine, query \in Query, query.of # "project"
    PROVE  m \in Wanted <=> m \in OfCluster /\ Passes(m)
<1>1. m.state \in 0 .. 4 /\ query.running \in BOOLEAN
  BY RowTypes DEF Query
<1>2. m.state \in Alive <=> m.state \notin {State.unspecified, State.stopped}
  BY <1>1 DEF Alive, State
<1> QED
  BY <1>1, <1>2 DEF Wanted, OfCluster, Passes

(* Distinct elements that are a whole set are that set once.               *)
LEMMA DistinctIsOnce ==
    ASSUME NEW S, NEW T, NEW n \in Nat, NEW seq \in [1 .. n -> S],
           \A i, j \in 1 .. n : seq[i] = seq[j] => i = j,
           \A i \in 1 .. n : seq[i] \in T, \A t \in T : \E i \in 1 .. n : seq[i] = t
    PROVE  seq \in Seq(S) /\ Once(seq, T)
<1>1. seq \in Seq(S) /\ Len(seq) = n
  BY IntervalsAreSequences
<1>2. DOMAIN seq = 1 .. n
  OBVIOUS
<1>3. ToSet(seq) = T
  BY <1>2 DEF ToSet
<1>4. Once(seq, ToSet(seq))
  BY <1>1, OnceIfDistinct
<1> QED
  BY <1>1, <1>3, <1>4

(* Rows of which no two neighbours are out of order are all in order.      *)
LEMMA SortedIsOrdered ==
    ASSUME query.sort \in Sort, NEW seq \in Seq(Machine), Sorted(seq)
    PROVE  \A i, j \in 1 .. Len(seq) : i < j => NotBelow(seq[i], seq[j])
<1> DEFINE n == Len(seq)
           R == {ij \in (1 .. n) \X (1 .. n) : NotBelow(seq[ij[1]], seq[ij[2]])}
<1>1. n \in Nat /\ \A i \in 1 .. n : seq[i] \in Machine
  OBVIOUS
<1>2. \A i, j \in 1 .. n : <<i, j>> \in R <=> NotBelow(seq[i], seq[j])
  OBVIOUS
<1>3. \A i \in 1 .. n - 1 : <<i, i + 1>> \in R
  <2> SUFFICES ASSUME NEW i \in 1 .. n - 1 PROVE <<i, i + 1>> \in R
      OBVIOUS
  <2>1. i \in 1 .. n /\ i + 1 \in 1 .. n
    BY <1>1
  <2>2. Compare(seq[i], seq[i + 1]) <= 0
    BY DEF Sorted
  <2>3. NotBelow(seq[i], seq[i + 1])
    BY <1>1, <2>1, <2>2, CompareSays
  <2> QED
    BY <1>2, <2>1, <2>3
<1>4. \A i, j, k \in 1 .. n : <<i, j>> \in R /\ <<j, k>> \in R => <<i, k>> \in R
  BY <1>1, <1>2, NotBelowTransitive
<1> HIDE DEF n, R
<1>5. \A i, j \in 1 .. n : i < j => <<i, j>> \in R
  BY <1>1, <1>3, <1>4, NeighboursSuffice
<1> QED
  BY <1>2, <1>5 DEF n

LEMMA ShowTableStep == ASSUME ListInv, ShowTable PROVE ListInv'
<1>1. /\ level = "listed" /\ query.of # "project" /\ level' = "printed"
      /\ UNCHANGED <<query, todo, broken, calls, found>>
  BY DEF ShowTable
<1>2. PICK p \in SetToSeqs(Kept) :
        /\ shown' = [i \in 1 .. Cardinality(Kept) |-> found[p[i]]]
        /\ Sorted(shown')
  BY DEF ShowTable
<1>3. query \in Query /\ query.sort \in Sort
  BY <1>1 DEF ListInv, Asked, Query
<1>4. found \in Seq(Machine) /\ Kept \in SUBSET (1 .. Len(found))
  BY DEF ListInv, ListingOK, Kept
<1>5. Left = {}
  BY <1>1 DEF ListInv, Loops, Left
<1>6. ToSet(found) = OfCluster
  BY <1>1, <1>5 DEF ListInv, Whole, Walked
<1>7. DOMAIN found = 1 .. Len(found)
  BY <1>4
<1>8. \A m : m \in Wanted <=> \E i \in Kept : found[i] = m
  <2>1. ASSUME NEW m \in Wanted PROVE \E i \in Kept : found[i] = m
    <3>1. m \in Machine
      BY DEF Wanted
    <3>2. m \in OfCluster /\ Passes(m)
      BY <1>1, <1>3, <3>1, PassesIsWanted
    <3>3. PICK i \in 1 .. Len(found) : found[i] = m
      BY <1>6, <1>7, <3>2 DEF ToSet
    <3> QED
      BY <3>2, <3>3 DEF Kept
  <2>2. ASSUME NEW i \in Kept PROVE found[i] \in Wanted
    <3>1. i \in 1 .. Len(found) /\ Passes(found[i])
      BY DEF Kept
    <3>2. found[i] \in OfCluster
      BY <1>6, <1>7, <3>1 DEF ToSet
    <3>3. found[i] \in Machine
      BY <3>2 DEF OfCluster
    <3> QED
      BY <1>1, <1>3, <3>1, <3>2, <3>3, PassesIsWanted
  <2> QED
    BY <2>1, <2>2
<1>9. shown' \in Seq(Machine) /\ Once(shown', Wanted)
  <2> DEFINE n == Cardinality(Kept)
  <2>1. IsFiniteSet(Kept)
    <3>1. IsFiniteSet(1 .. Len(found))
      BY <1>4, IntervalSize
    <3> QED
      BY <1>4, <3>1, FS_Subset
  <2>2. /\ n \in Nat /\ p \in [1 .. n -> Kept]
        /\ \A i, j \in 1 .. n : p[i] = p[j] => i = j
        /\ \A k \in Kept : \E i \in 1 .. n : p[i] = k
    BY <2>1, OrdersAreOnto
  <2>3. shown' = [i \in 1 .. n |-> found[p[i]]]
    BY <1>2
  <2> HIDE DEF n
  <2>4. \A i \in 1 .. n : p[i] \in Kept /\ p[i] \in 1 .. Len(found) /\ shown'[i] = found[p[i]]
    BY <1>4, <2>2, <2>3
  <2>5. shown' \in [1 .. n -> Machine]
    BY <1>4, <2>3, <2>4
  <2>6. \A i, j \in 1 .. n : shown'[i] = shown'[j] => i = j
    <3>1. \A i, j \in 1 .. Len(found) : found[i] = found[j] => i = j
      BY DEF ListInv, NoTwice
    <3> QED
      BY <2>2, <2>4, <3>1
  <2>7. \A i \in 1 .. n : shown'[i] \in Wanted
    BY <1>8, <2>4
  <2>8. \A m \in Wanted : \E i \in 1 .. n : shown'[i] = m
    BY <1>8, <2>2, <2>4
  <2> QED
    BY <2>2, <2>5, <2>6, <2>7, <2>8, DistinctIsOnce
<1>10. \A i, j \in 1 .. Len(shown') : i < j => NotBelow(shown'[i], shown'[j])
  BY <1>2, <1>3, <1>9, SortedIsOrdered
<1>11. \A i \in 1 .. Len(shown') : \A j \in i + 1 .. Len(shown') :
         j \in 1 .. Len(shown') /\ i < j
  BY <1>9
<1>12. Wanted' = Wanted /\ \A a, b : NotBelow(a, b)' = NotBelow(a, b)
  BY <1>1 DEF Wanted, NotBelow
<1>13. PrintedExactly'
  <2>1. Once(shown', Wanted')
    BY <1>9, <1>12
  <2>2. \A i \in 1 .. Len(shown') : \A j \in i + 1 .. Len(shown') : NotBelow(shown[i], shown[j])'
    BY <1>10, <1>11, <1>12
  <2> QED
    BY <2>1, <2>2 DEF PrintedExactly
<1>14. ListingOK'
  BY <1>1, <1>9 DEF ListInv, ListingOK, Ended
<1>15. Loops' /\ NoTwice' /\ Asked' /\ Whole'
  BY <1>1, <1>5 DEF ListInv, Loops, NoTwice, Asked, Whole
<1> QED
  BY <1>13, <1>14, <1>15 DEF ListInv

LEMMA ListInvStep == ListInv /\ [ListNext]_listing => ListInv'
<1> SUFFICES ASSUME ListInv, [ListNext]_listing PROVE ListInv'
    OBVIOUS
<1>1. CASE UNCHANGED listing
  BY <1>1 DEF listing, ListInv, ListingOK, Asked, Loops, Whole, Walked, Left, OfCluster, NoTwice,
              PrintedExactly, Wanted, NotBelow
<1>2. ASSUME NEW q \in Query, Ask(q) PROVE ListInv'
  BY <1>2, AskStep
<1>3. CASE ListWorks
  BY <1>3, NextClusterStep, NextConfigStep, NextMachineStep, DoneStep, FailStep, UsableFailsStep,
     ShowTableStep DEF ListWorks
<1> QED
  BY <1>1, <1>2, <1>3 DEF ListNext

(* Queries, iterators and rows keep their types.                           *)
THEOREM ListingTypes == ListSpec => []ListingOK
<1>1. ListInv => ListingOK
  BY DEF ListInv
<1> QED
  BY <1>1, ListInvInit, ListInvStep, PTL DEF ListSpec

LEMMA ListInvExact == ListInv => ListingIsExact
<1> SUFFICES ASSUME ListInv PROVE ListingIsExact
    OBVIOUS
<1>1. ASSUME level = "listed", query.of = "project" PROVE Once(found, Usable) \/ Once(found, Machine)
  <2>1. Left = {}
    BY <1>1 DEF ListInv, Loops, Left
  <2>2. ToSet(found) = Usable \/ ToSet(found) = Machine
    BY <1>1, <2>1 DEF ListInv, Whole, Walked
  <2>3. Once(found, ToSet(found))
    BY OnceIfDistinct DEF ListInv, ListingOK, NoTwice
  <2> QED
    BY <2>2, <2>3
<1> QED
  BY <1>1 DEF ListInv, PrintedExactly, ListingIsExact

(* For any clusters, configurations and workstations, whatever fails and   *)
(* in whatever order the service answers: a listing that ends without an   *)
(* error is complete, has nothing twice, and is printed in order.          *)
THEOREM ListingExact == ListSpec => []ListingIsExact
BY ListInvExact, ListInvInit, ListInvStep, PTL DEF ListSpec

-----------------------------------------------------------------------------
(* States.  Every row found so far is the one of its own context, and the  *)
(* contexts of the rows and of those still to come are the listed ones.    *)
Contexts == {rows[i].context : i \in 1 .. Len(rows)}

OwnRows ==
    /\ \A i \in 1 .. Len(rows) : rows[i].of = rows[i].context
    /\ \A i, j \in 1 .. Len(rows) : rows[i].context = rows[j].context => i = j

Rounds ==
    /\ round = "idle" => rows = <<>>
    /\ round = "loop" => Contexts = Listed \ left
    /\ round = "ask" =>
        /\ Contexts = Listed \ (left \cup {turn})
        /\ turn \in Listed \ left /\ current = turn
    /\ round \in {"collected", "rendered"} => Contexts = Listed /\ current = named

TableOf(n, sorted) ==
    LET body == [i \in 1 .. n |-> Cells(sorted[i])]
    IN  \/ table = [header |-> Header, body |-> body]
        \/ table = Transposed(Tail(Header), [i \in 1 .. n |-> Tail(body[i])],
                              [i \in 1 .. n |-> Label(sorted[i].context)])

Turned(p) ==
    LET sorted == [i \in 1 .. Len(rows) |-> rows[p[i]]]
    IN  /\ \A i \in 1 .. Len(rows) - 1 : sorted[i].context <= sorted[i + 1].context
        /\ TableOf(Len(rows), sorted)

Rendered == round = "rendered" => \E p \in SetToSeqs(1 .. Len(rows)) : Turned(p)

StatesInv == StatesOK /\ OwnRows /\ Rounds /\ Rendered

LEMMA StatesInvInit == StatesInit => StatesInv
<1> SUFFICES ASSUME StatesInit PROVE StatesInv
    OBVIOUS
<1>1. rows = <<>> /\ Len(rows) = 0 /\ rows \in Seq(StateRow)
  BY DEF StatesInit
<1>2. Cardinality(Context) \in Nat
  BY StatesAssumption, FS_CardinalityType
<1>3. Len(rows) <= Cardinality(Context)
  BY <1>1, <1>2
<1>4. StatesOK
  BY <1>1, <1>3 DEF StatesInit, StatesOK
<1> QED
  BY <1>1, <1>4 DEF StatesInit, StatesInv, OwnRows, Rounds, Rendered

(* There is room for one more row: the contexts of the rows are distinct.  *)
LEMMA RowsFit ==
    ASSUME NEW seq \in Seq(StateRow),
           \A i, j \in 1 .. Len(seq) : seq[i].context = seq[j].context => i = j
    PROVE  Len(seq) <= Cardinality(Context)
<1> DEFINE n == Len(seq)
           f == [i \in 1 .. n |-> seq[i].context]
<1>1. n \in Nat /\ \A i \in 1 .. n : seq[i] \in StateRow
  OBVIOUS
<1>2. \A i \in 1 .. n : seq[i].context \in Context
  BY <1>1 DEF StateRow
<1>3. f \in Injection(1 .. n, Context)
  BY <1>2 DEF Injection, IsInjective
<1>4. Cardinality(1 .. n) <= Cardinality(Context)
  BY <1>3, StatesAssumption, FS_Injection
<1>5. Cardinality(1 .. n) = n
  BY <1>1, IntervalSize
<1> QED
  BY <1>1, <1>4, <1>5

LEMMA AddStep ==
    ASSUME StatesInv, round = "ask", NEW is \in {"RUNNING", "OTHER", "NOT_FOUND", "UNSPECIFIED"},
           NEW up \in BOOLEAN, NEW down \in BOOLEAN, Add(is, up, down)
    PROVE  /\ rows' \in Seq(StateRow) /\ Len(rows') <= Cardinality(Context)
           /\ OwnRows' /\ Contexts' = Contexts \cup {turn}
<1> DEFINE r == [context |-> turn, of |-> current, is |-> is, uptime |-> up, shutdown |-> down]
           n == Len(rows)
<1>1. rows' = Append(rows, r) /\ rows \in Seq(StateRow)
  BY DEF Add, StatesInv, StatesOK
<1>2. r \in StateRow /\ r.context = turn /\ r.of = r.context
  BY DEF StatesInv, StatesOK, Rounds, StateRow
<1> HIDE DEF r
<1>3. /\ n \in Nat /\ rows' \in Seq(StateRow) /\ Len(rows') = n + 1
      /\ rows'[n + 1] = r /\ \A i \in 1 .. n : rows'[i] = rows[i]
  BY <1>1, <1>2
<1>4. \A i \in 1 .. n : rows[i].context # turn
  <2>1. turn \notin Contexts
    BY DEF StatesInv, Rounds
  <2> QED
    BY <2>1 DEF Contexts
<1> HIDE DEF n
<1>5. \A i \in 1 .. n + 1 : i \in 1 .. n \/ i = n + 1
  BY <1>3
<1>6. \A i \in 1 .. n : i \in 1 .. n + 1
  BY <1>3
<1>7. n + 1 \in 1 .. n + 1
  BY <1>3
<1>8. /\ \A i \in 1 .. n : rows[i].of = rows[i].context
      /\ \A i, j \in 1 .. n : rows[i].context = rows[j].context => i = j
  BY DEF StatesInv, OwnRows, n
<1>9. OwnRows'
  BY <1>2, <1>3, <1>4, <1>5, <1>8 DEF OwnRows
<1>10. Contexts' = Contexts \cup {turn}
  <2>1. Contexts' = {rows'[i].context : i \in 1 .. n + 1}
    BY <1>3 DEF Contexts
  <2>2. Contexts = {rows[i].context : i \in 1 .. n}
    BY DEF Contexts, n
  <2>3. \A x \in Contexts' : x \in Contexts \cup {turn}
    BY <1>2, <1>3, <1>5, <2>1, <2>2
  <2>4. \A x \in Contexts : x \in Contexts'
    BY <1>3, <1>6, <2>1, <2>2
  <2>5. turn \in Contexts'
    BY <1>2, <1>3, <1>7, <2>1
  <2> QED
    BY <2>3, <2>4, <2>5
<1>11. Len(rows') <= Cardinality(Context)
  <2>1. \A i, j \in 1 .. Len(rows') : rows'[i].context = rows'[j].context => i = j
    BY <1>9 DEF OwnRows
  <2> QED
    BY <1>3, <2>1, RowsFit
<1> QED
  BY <1>3, <1>9, <1>10, <1>11

LEMMA AskAnswered == ASSUME StatesInv, AskFails \/ AskWorks PROVE StatesInv'
<1>1. /\ round = "ask" /\ round' = "loop" /\ client' \in BOOLEAN
      /\ UNCHANGED <<filter, left, turn, named, current, table>>
      /\ \E is \in {"RUNNING", "OTHER", "NOT_FOUND", "UNSPECIFIED"}, up, down \in BOOLEAN : Add(is, up, down)
  BY DEF AskFails, AskWorks, StatesInv, StatesOK
<1>2. PICK is \in {"RUNNING", "OTHER", "NOT_FOUND", "UNSPECIFIED"}, up \in BOOLEAN, down \in BOOLEAN :
        Add(is, up, down)
  BY <1>1
<1>3. /\ rows' \in Seq(StateRow) /\ Len(rows') <= Cardinality(Context)
      /\ OwnRows' /\ Contexts' = Contexts \cup {turn}
  BY <1>1, <1>2, AddStep
<1>4. StatesOK'
  BY <1>1, <1>3 DEF StatesInv, StatesOK
<1>5. Contexts' = Listed' \ left'
  BY <1>1, <1>3 DEF StatesInv, Rounds, Listed
<1> QED
  BY <1>1, <1>3, <1>4, <1>5 DEF StatesInv, Rounds, Rendered

LEMMA WalkStep ==
    ASSUME StatesInv,
           (\E c \in Context \cup {0} : AskAll(c)) \/ Skip \/ (\E c \in Context : Visit(c)) \/ Collect
    PROVE  StatesInv'
<1>1. ASSUME NEW c \in Context \cup {0}, AskAll(c) PROVE StatesInv'
  <2>1. /\ round = "idle" /\ round' = "loop" /\ left' = Context /\ filter' = c
        /\ UNCHANGED <<turn, client, rows, table>>
        /\ {named', current'} \subseteq {named, current, c} /\ (c = 0 => UNCHANGED <<named, current>>)
    BY <1>1 DEF AskAll
  <2>2. rows = <<>> /\ rows' = <<>> /\ Len(rows') = 0
    BY <2>1 DEF StatesInv, Rounds
  <2>3. Contexts' = {} /\ Listed' \ left' = {}
    <3>1. 1 .. 0 = {}
      OBVIOUS
    <3> QED
      BY <2>1, <2>2, <3>1, StatesAssumption DEF Contexts, Listed
  <2>4. StatesOK'
    BY <2>1 DEF StatesInv, StatesOK
  <2> QED
    BY <2>1, <2>2, <2>3, <2>4 DEF StatesInv, OwnRows, Rounds, Rendered
<1>2. CASE Skip
  <2>1. PICK c \in left : Skipped(c) /\ left' = left \ {c}
    BY <1>2 DEF Skip
  <2>2. /\ round = "loop" /\ UNCHANGED <<round, filter, turn, named, current, client, rows, table>>
    BY <1>2 DEF Skip
  <2>3. Listed' \ left' = Listed \ left /\ Contexts' = Contexts
    BY <2>1, <2>2 DEF Listed, Skipped, Contexts
  <2>4. StatesOK'
    BY <2>1, <2>2 DEF StatesInv, StatesOK
  <2> QED
    BY <2>2, <2>3, <2>4 DEF StatesInv, OwnRows, Rounds, Rendered
<1>3. ASSUME NEW c \in Context, Visit(c) PROVE StatesInv'
  <2>1. /\ round = "loop" /\ round' = "ask" /\ c \in left /\ ~Skipped(c)
        /\ left' = left \ {c} /\ turn' = c /\ current' = c
        /\ UNCHANGED <<filter, named, client, rows, table>>
    BY <1>3 DEF Visit
  <2>2. Listed' = Listed /\ c \in Listed /\ Contexts' = Contexts
    BY <2>1, StatesAssumption DEF Listed, Skipped, Contexts
  <2>3. Contexts = Listed \ left
    BY <2>1 DEF StatesInv, Rounds
  <2>4. Contexts' = Listed' \ (left' \cup {turn'})
    BY <2>1, <2>2, <2>3
  <2>5. StatesOK'
    BY <2>1 DEF StatesInv, StatesOK
  <2> QED
    BY <2>1, <2>2, <2>4, <2>5 DEF StatesInv, OwnRows, Rounds, Rendered
<1>4. CASE Collect
  <2>1. /\ round = "loop" /\ round' = "collected" /\ left = {} /\ current' = named
        /\ UNCHANGED <<filter, left, turn, named, client, rows, table>>
    BY <1>4 DEF Collect
  <2>2. Contexts' = Listed'
    BY <2>1 DEF StatesInv, Rounds, Contexts, Listed
  <2>3. StatesOK'
    BY <2>1 DEF StatesInv, StatesOK
  <2> QED
    BY <2>1, <2>2, <2>3 DEF StatesInv, OwnRows, Rounds, Rendered
<1> QED
  BY <1>1, <1>2, <1>3, <1>4

(* What is shown of a row's context is the row, whichever way the table is *)
(* turned.                                                                 *)
LEMMA TableShows ==
    ASSUME NEW n \in Nat, NEW sorted, NEW i \in 1 .. n, TableOf(n, sorted)
    PROVE  Shows(i) = Cells(sorted[i])
<1> DEFINE body == [j \in 1 .. n |-> Cells(sorted[j])]
           tails == [j \in 1 .. n |-> Tail(body[j])]
           labels == [j \in 1 .. n |-> Label(sorted[j].context)]
<1>1. CASE table = [header |-> Header, body |-> body]
  BY <1>1 DEF Shows
<1>2. CASE table = Transposed(Tail(Header), tails, labels)
  <2> DEFINE h == Tail(Header)
             column(k) == [j \in 1 .. n |-> tails[j][k]]
  <2>1. Len(h) = 4
    BY TailOfFive DEF Header
  <2>2. DOMAIN tails = 1 .. n /\ Len(tails) = n
    <3> DEFINE S == {Tail(body[j]) : j \in 1 .. n}
    <3>1. tails \in [1 .. n -> S]
      OBVIOUS
    <3> HIDE DEF S, tails
    <3> QED
      BY <3>1, IntervalsAreSequences
  <2>3. table = [header |-> <<"">> \o labels, body |-> [k \in 1 .. Len(h) |-> <<h[k]>> \o [j \in 1 .. Len(tails) |-> tails[j][k]]]]
    BY <1>2 DEF Transposed
  <2>4. table.header = <<"">> \o labels /\ table.body = [k \in 1 .. 4 |-> <<h[k]>> \o column(k)]
    BY <2>1, <2>2, <2>3
  <2>5. table.header[1] = "" /\ table.header[i + 1] = Label(sorted[i].context)
    <3> DEFINE none == ""
               S == {none} \cup {Label(sorted[j].context) : j \in 1 .. n}
    <3>1. none \in S /\ labels \in [1 .. n -> S] /\ labels[i] = Label(sorted[i].context)
      OBVIOUS
    <3>2. table.header = <<none>> \o labels
      BY <2>4
    <3> HIDE DEF S, labels, none
    <3>3. table.header[1] = none /\ table.header[i + 1] = labels[i]
      BY <3>1, <3>2, AfterFirst
    <3> QED
      BY <3>1, <3>3 DEF none
  <2>6. table.header # Header
    <3>1. Header[1] = "CONTEXT"
      BY DEF Header
    <3> QED
      BY <2>5, <3>1
  <2> DEFINE r == sorted[i]
             a == Label(r.context)
             b == r.context
             c == [of |-> r.of, is |-> r.is]
             d == r.uptime
             e == r.shutdown
  <2>7. Cells(r) = <<a, b, c, d, e>>
    BY DEF Cells
  <2>8. ASSUME NEW k \in 1 .. 4 PROVE table.body[k][i + 1] = Cells(r)[k + 1]
    <3> DEFINE S == {h[k]} \cup {tails[j][k] : j \in 1 .. n}
    <3> DEFINE f == column(k)
               h1 == h[k]
               t == table.body[k]
    <3>1. h1 \in S /\ f \in [1 .. n -> S]
      OBVIOUS
    <3>2. f[i] = Tail(Cells(r))[k]
      OBVIOUS
    <3>3. t = <<h1>> \o f
      BY <2>4
    <3> HIDE DEF f, h1, S, t
    <3>4. t[i + 1] = f[i]
      BY <3>1, <3>3, AfterFirst
    <3> HIDE DEF a, b, c, d, e, r
    <3>5. Tail(Cells(r))[k] = Cells(r)[k + 1]
      BY <2>7, TailOfFive
    <3> QED
      BY <3>2, <3>4, <3>5 DEF t
  <2>9. Len(table.body) = 4
    <3> DEFINE S == {<<h[k]>> \o column(k) : k \in 1 .. 4}
    <3>1. table.body \in [1 .. 4 -> S]
      BY <2>4
    <3> HIDE DEF S
    <3> QED
      BY <3>1, IntervalsAreSequences
  <2> DEFINE g == [k \in 1 .. Len(table.body) |-> table.body[k][i + 1]]
             s == <<table.header[i + 1]>> \o g
             S == {a} \cup {Cells(r)[k + 1] : k \in 1 .. 4}
  <2>10. a \in S /\ g \in [1 .. 4 -> S] /\ \A k \in 1 .. 4 : g[k] = Cells(r)[k + 1]
    <3>1. a \in S /\ \A k \in 1 .. 4 : Cells(r)[k + 1] \in S
      OBVIOUS
    <3> HIDE DEF S, r
    <3>2. g = [k \in 1 .. 4 |-> table.body[k][i + 1]]
      BY <2>9
    <3>3. g = [k \in 1 .. 4 |-> Cells(r)[k + 1]]
      BY <2>8, <3>2
    <3> QED
      BY <3>1, <3>3
  <2>11. Shows(i) = s /\ table.header[i + 1] = a
    BY <2>5, <2>6 DEF Shows
  <2> HIDE DEF g, S, a
  <2>12. s \in [1 .. 4 + 1 -> S] /\ s[1] = a /\ \A k \in 1 .. 4 : s[k + 1] = g[k]
    <3> DEFINE m == 4
    <3>1. m \in Nat /\ g \in [1 .. m -> S] /\ s = <<a>> \o g
      BY <2>10, <2>11
    <3>2. a \in S
      BY <2>10
    <3> HIDE DEF m, s, body, tails, labels, h, column
    <3>3. s \in [1 .. m + 1 -> S] /\ s[1] = a /\ \A k \in 1 .. m : s[k + 1] = g[k]
      BY <3>1, <3>2, AfterFirst
    <3> QED
      BY <3>3 DEF m
  <2> HIDE DEF s, b, c, d, e, r
  <2>13. s \in [1 .. 5 -> S] /\ s[2] = b /\ s[3] = c /\ s[4] = d /\ s[5] = e
    BY <2>7, <2>10, <2>12
  <2>14. s = <<a, b, c, d, e>>
    BY <2>12, <2>13, FiveCells
  <2> QED
    BY <2>7, <2>11, <2>14 DEF r
<1> QED
  BY <1>1, <1>2 DEF TableOf

LEMMA RenderStep == ASSUME StatesInv, NEW transpose \in BOOLEAN, Render(transpose) PROVE StatesInv'
<1>1. /\ round = "collected" /\ round' = "rendered"
      /\ UNCHANGED <<filter, left, turn, named, current, client, rows>>
      /\ current = named /\ Contexts = Listed
  BY DEF Render, StatesInv, Rounds
<1>2. StatesOK' /\ OwnRows' /\ Rounds'
  BY <1>1 DEF StatesInv, StatesOK, OwnRows, Rounds, Contexts, Listed
<1>3. \A r : Cells(r)' = Cells(r)
  BY <1>1 DEF Cells, Label
<1>4. \A c : Label(c)' = Label(c)
  BY <1>1 DEF Label
<1>5. Rendered'
  BY <1>1, <1>3, <1>4 DEF Render, Rendered, Turned, TableOf
<1> QED
  BY <1>2, <1>5 DEF StatesInv

LEMMA StatesInvOwn == StatesInv => StatusIsOwn
<1> SUFFICES ASSUME StatesInv, round = "rendered" PROVE StatusIsOwn
    BY DEF StatusIsOwn
<1> DEFINE n == Len(rows)
<1>1. current = named /\ Contexts = Listed
  BY DEF StatesInv, Rounds
<1>2. PICK p \in SetToSeqs(1 .. n) : Turned(p)
  BY DEF StatesInv, Rendered
<1>3. n \in Nat /\ \A i \in 1 .. n : rows[i] \in StateRow
  BY DEF StatesInv, StatesOK
<1> DEFINE sorted == [i \in 1 .. n |-> rows[p[i]]]
           names == [i \in 1 .. n |-> sorted[i].context]
<1>4. /\ \A i \in 1 .. n - 1 : sorted[i].context <= sorted[i + 1].context
      /\ TableOf(n, sorted)
  BY <1>2 DEF Turned
<1>5. /\ p \in [1 .. n -> 1 .. n]
      /\ \A i, j \in 1 .. n : p[i] = p[j] => i = j
      /\ \A k \in 1 .. n : \E i \in 1 .. n : p[i] = k
  <2>1. IsFiniteSet(1 .. n) /\ Cardinality(1 .. n) = n
    BY <1>3, IntervalSize
  <2> HIDE DEF n
  <2> QED
    BY <2>1, OrdersAreOnto
<1>6. DOMAIN rows = 1 .. n
  BY DEF StatesInv, StatesOK
<1> HIDE DEF n
<1>7. \A i \in 1 .. n :
        /\ p[i] \in 1 .. n /\ sorted[i] = rows[p[i]] /\ sorted[i] \in StateRow
        /\ sorted[i].of = sorted[i].context /\ names[i] = sorted[i].context
        /\ names[i] \in Context
  BY <1>3, <1>5 DEF StatesInv, OwnRows, StateRow, n
<1>8. \A i, j \in 1 .. n : names[i] = names[j] => i = j
  <2>1. \A i, j \in 1 .. n : rows[i].context = rows[j].context => i = j
    BY DEF StatesInv, OwnRows, n
  <2> QED
    BY <1>5, <1>7, <2>1
<1>9. /\ \A i \in 1 .. n : names[i] \in Listed
      /\ \A c \in Listed : \E i \in 1 .. n : names[i] = c
  <2>1. Listed = {rows[i].context : i \in 1 .. n}
    BY <1>1 DEF Contexts, n
  <2>2. \A i \in 1 .. n : names[i] = rows[p[i]].context /\ p[i] \in 1 .. n
    BY <1>7
  <2> HIDE DEF names
  <2>3. \A i \in 1 .. n : names[i] \in Listed
    BY <2>1, <2>2
  <2>4. ASSUME NEW c \in Listed PROVE \E i \in 1 .. n : names[i] = c
    <3>1. PICK k \in 1 .. n : rows[k].context = c
      BY <2>1
    <3>2. PICK i \in 1 .. n : p[i] = k
      BY <1>5
    <3> QED
      BY <2>2, <3>1, <3>2
  <2> QED
    BY <2>3, <2>4
<1>10. names \in SetToSeqs(Listed) /\ Len(names) = n
  <2>1. names \in [1 .. n -> Listed]
    BY <1>9
  <2>2. names \in Bijection(1 .. n, Listed)
    BY <1>8, <1>9, <2>1 DEF Bijection, Injection, Surjection, IsInjective
  <2>3. Cardinality(Listed) = n
    BY <1>3, <2>2, IntervalSize, FS_Bijection DEF ExistsBijection
  <2> HIDE DEF names
  <2>4. Len(names) = n
    BY <1>3, <2>1, IntervalsAreSequences
  <2> QED
    BY <1>8, <2>1, <2>3, <2>4 DEF SetToSeqs
<1>11. \A i, j \in 1 .. n : i < j => names[i] < names[j]
  <2> DEFINE R == {ij \in (1 .. n) \X (1 .. n) : names[ij[1]] <= names[ij[2]]}
  <2>1. \A i \in 1 .. n : names[i] \in Nat
    BY <1>7, StatesAssumption
  <2>2. \A i \in 1 .. n - 1 : names[i] <= names[i + 1]
    <3>1. \A i \in 1 .. n - 1 : i \in 1 .. n /\ i + 1 \in 1 .. n
      BY <1>3
    <3>2. \A i \in 1 .. n : names[i] = sorted[i].context
      OBVIOUS
    <3> HIDE DEF sorted, names
    <3> QED
      BY <1>4, <3>1, <3>2
  <2> HIDE DEF names
  <2>3. \A i, j \in 1 .. n : <<i, j>> \in R <=> names[i] <= names[j]
    OBVIOUS
  <2>4. \A i \in 1 .. n - 1 : i \in 1 .. n /\ i + 1 \in 1 .. n
    BY <1>3
  <2> HIDE DEF R
  <2>5. \A i \in 1 .. n - 1 : <<i, i + 1>> \in R
    BY <2>2, <2>3, <2>4
  <2>6. \A i, j, k \in 1 .. n : <<i, j>> \in R /\ <<j, k>> \in R => <<i, k>> \in R
    BY <2>1, <2>3
  <2>7. \A i, j \in 1 .. n : i < j => <<i, j>> \in R
    BY <1>3, <2>5, <2>6, NeighboursSuffice
  <2>8. ASSUME NEW i \in 1 .. n, NEW j \in 1 .. n, i < j PROVE names[i] < names[j]
    <3>1. names[i] <= names[j] /\ names[i] \in Nat /\ names[j] \in Nat
      BY <2>1, <2>3, <2>7, <2>8
    <3>2. i # j
      BY <2>8
    <3>3. names[i] # names[j]
      BY <1>8, <3>2
    <3> QED
      BY <3>1, <3>3
  <2> QED
    BY <2>8
<1>12. \A i \in 1 .. n : Shows(i) = Cells(sorted[i])
  <2> HIDE DEF sorted
  <2> QED
    BY <1>3, <1>4, TableShows
<1>13. \A i, j \in 1 .. Len(names) : i < j => names[i] < names[j]
  BY <1>10, <1>11
<1>14. ASSUME NEW i \in 1 .. n
       PROVE  \E r \in ToSet(rows) :
                /\ r.context = names[i]
                /\ Shows(i) = <<Label(names[i]), names[i], [of |-> names[i], is |-> r.is],
                               r.uptime, r.shutdown>>
  <2>1. sorted[i] \in ToSet(rows)
    BY <1>6, <1>7 DEF ToSet
  <2>2. sorted[i].context = names[i] /\ sorted[i].of = names[i]
    BY <1>7
  <2> HIDE DEF sorted, names
  <2> QED
    BY <1>12, <2>1, <2>2 DEF Cells
<1> HIDE DEF sorted, names
<1> QED
  BY <1>1, <1>10, <1>13, <1>14 DEF StatusIsOwn, n

LEMMA StatesInvStep == StatesInv /\ [StatesNext]_states => StatesInv'
<1> SUFFICES ASSUME StatesInv, [StatesNext]_states PROVE StatesInv'
    OBVIOUS
<1>1. CASE UNCHANGED states
  <2>0. UNCHANGED <<round, filter, left, turn, named, current, client, rows, table>>
    BY <1>1 DEF states
  <2>1. StatesOK' /\ OwnRows' /\ Rounds'
    <3>1. Contexts' = Contexts /\ Listed' = Listed
      BY <2>0 DEF Contexts, Listed
    <3>2. StatesOK' /\ OwnRows'
      BY <2>0 DEF StatesInv, StatesOK, OwnRows
    <3> QED
      BY <2>0, <3>1, <3>2 DEF StatesInv, Rounds
  <2>2. \A r : Cells(r)' = Cells(r)
    BY <2>0 DEF Cells, Label
  <2>3. \A c : Label(c)' = Label(c)
    BY <2>0 DEF Label
  <2>4. Rendered'
    BY <2>0, <2>2, <2>3 DEF StatesInv, Rendered, Turned, TableOf
  <2> QED
    BY <2>1, <2>4 DEF StatesInv
<1>2. CASE StatesNext
  BY <1>2, WalkStep, AskAnswered, RenderStep DEF StatesNext
<1> QED
  BY <1>1, <1>2

(* Contexts, rows and places keep their types, and there is never more     *)
(* than one row of a context.                                              *)
THEOREM StatesTypes == StatesSpec => []StatesOK
<1>1. StatesInv => StatesOK
  BY DEF StatesInv
<1> QED
  BY <1>1, StatesInvInit, StatesInvStep, PTL DEF StatesSpec

(* For any contexts, in whatever order the loop goes round them and        *)
(* whatever fails: the table has each one asked for once, in order, with   *)
(* the state of its own workstation, and the current context is restored.  *)
THEOREM StatusOwn == StatesSpec => []StatusIsOwn
BY StatesInvOwn, StatesInvInit, StatesInvStep, PTL DEF StatesSpec

-----------------------------------------------------------------------------
(* The commands together.                                                  *)

(* A turn is a step of the command that runs, and the others stand still.  *)
LEMMA EachTurn ==
    [Next]_all => /\ [ListNext]_listing
                  /\ [StatesNext]_states
                  /\ [TransferNext]_transfer
                  /\ [KnownHostsNext]_hostsFile
                  /\ [ReleaseNext]_release
                  /\ [UpdaterNext]_updater
                  /\ [WizardNext]_wizard
                  /\ UNCHANGED command
<1>1. CASE List
  BY <1>1 DEF List, states, transfer, hostsFile, release, updater, wizard
<1>2. CASE Status
  BY <1>2 DEF Status, listing, transfer, hostsFile, release, updater, wizard
<1>3. CASE UpAndDown
  BY <1>3 DEF UpAndDown, listing, states, hostsFile, release, updater, wizard
<1>4. CASE OpenTunnels
  BY <1>4 DEF OpenTunnels, listing, states, transfer, release, updater, wizard
<1>5. CASE Update
  BY <1>5 DEF Update, listing, states, transfer, hostsFile, updater, wizard
<1>6. CASE Apply
  BY <1>6 DEF Apply, listing, states, transfer, hostsFile, release, wizard
<1>7. CASE InSetup(WizardNext)
  BY <1>7 DEF InSetup, listing, states, transfer, hostsFile, release, updater
<1>8. CASE UNCHANGED all
  BY <1>8 DEF all
<1> QED
  BY <1>1, <1>2, <1>3, <1>4, <1>5, <1>6, <1>7, <1>8 DEF Next

(* Whichever command the root command dispatches, each of them sees its    *)
(* own specification: none disturbs what another keeps.                    *)
THEOREM CommandsCompose ==
    Spec => /\ ListSpec /\ StatesSpec /\ TransferSpec /\ KnownHostsSpec
            /\ ReleaseSpec /\ UpdaterSpec /\ WizardSpec
<1>1. Init => /\ ListInit /\ StatesInit /\ TransferInit /\ KnownHostsInit
              /\ ReleaseInit /\ UpdaterInit /\ WizardInit
  BY DEF Init
<1> QED
  BY <1>1, EachTurn, PTL DEF Spec, ListSpec, StatesSpec, TransferSpec, KnownHostsSpec, ReleaseSpec,
     UpdaterSpec, WizardSpec

(* The state of every command keeps its types, whichever runs.             *)
THEOREM CommandsTypes == Spec => []CommandsOK
<1> DEFINE One == command \in Command
<1>1. Init => One
  BY DEF Init
<1>2. One /\ [Next]_all => One'
  BY EachTurn
<1>3. TransferInv => TransferOK
  BY DEF TransferInv
<1>4. TransferSpec => []TransferOK
  BY <1>3, TransferInvInit, TransferInvStep, PTL DEF TransferSpec
<1>5. ReleaseInv => ReleaseOK
  BY DEF ReleaseInv
<1>6. ReleaseSpec => []ReleaseOK
  BY <1>5, ReleaseInvInit, ReleaseInvStep, PTL DEF ReleaseSpec
<1>7. /\ One /\ ListingOK /\ StatesOK /\ TransferOK /\ KnownHostsOK /\ ReleaseOK
      /\ UpdaterOK /\ WizardOK
      => CommandsOK
  BY DEF CommandsOK
<1>8. Spec => []One
  <2> HIDE DEF One
  <2> QED
    BY <1>1, <1>2, PTL DEF Spec
<1> HIDE DEF One
<1> QED
  BY <1>4, <1>6, <1>7, <1>8, CommandsCompose, ListingTypes, StatesTypes, HostsTypes, UpdaterTypes,
     WizardTypes, PTL

(* Whichever command runs, a listing that ends without an error is exact,  *)
(* a status shows of each context its own answer, an `up' that reports     *)
(* success has sent everything and a `down' what had no longer file in its *)
(* way, the known_hosts file keeps the keys of the tunnels that came to    *)
(* write one after the other, only a newer or a forced release is          *)
(* installed, and a setup takes what was listed and chosen and saves what  *)
(* it has checked, unless keys come after.                                 *)
THEOREM CommandsCorrect ==
    Spec => /\ []ListingIsExact /\ []StatusIsOwn /\ []TransferIsFaithful
            /\ []KnownHostsCurrent /\ UpdatesForward
            /\ []FormNamesWorkstation /\ []SavedIsValid /\ ChoiceIsSeen
BY CommandsCompose, ListingExact, StatusOwn, TransfersAreFaithful, HostsStayCurrent, ReleasesGoForward,
   FormIsNamed, SavesAreValid, ChoicesAreSeen, PTL
=============================================================================

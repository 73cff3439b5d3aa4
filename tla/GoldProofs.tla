------------------------------ MODULE GoldProofs ------------------------------
(* Theorems about GoldImages, for any number of VMs, hosts and faults. *)
EXTENDS GoldImages, TLAPS

-------------------------------------------------------------------------------
(* The distribution of n VMs over k hosts.                                 *)

\* Dividing n VMs among k hosts: the quotient and the remainder of
\* distribute_vms_to_hosts.yaml.
LEMMA Division ==
    ASSUME NEW n \in Nat, NEW k \in Nat \ {0}
    PROVE  /\ n \div k \in Nat
           /\ n % k \in 0 .. k-1
           /\ n = k * (n \div k) + (n % k)
  BY SMT

\* The slices start at the first VM, end at the last one and follow one another.
LEMMA SliceBounds ==
    ASSUME NEW n \in Nat, NEW k \in Nat \ {0}
    PROVE  /\ SliceStart(n, k, 0) = 0
           /\ SliceStart(n, k, k) = n
           /\ \A i \in Nat : SliceStart(n, k, i) \in Nat
           /\ \A i, j \in Nat : i <= j => SliceStart(n, k, i) <= SliceStart(n, k, j)
  <1> DEFINE q == n \div k
             r == n % k
             At(i) == i * q + (IF i < r THEN i ELSE r)
  <1>1. q \in Nat /\ r \in 0 .. k-1 /\ n = k * q + r
    BY Division
  <1>2. \A i : SliceStart(n, k, i) = At(i)
    BY DEF SliceStart
  <1> HIDE DEF q, r
  <1>3. \A i, j \in Nat : i <= j => i * q <= j * q
    <2> TAKE i, j \in Nat
    <2> HAVE i <= j
    <2>1. j - i \in Nat
      OBVIOUS
    <2>2. (j - i) * q \in Nat
      BY <2>1, <1>1
    <2>3. j * q = i * q + (j - i) * q
      BY <1>1
    <2> QED BY <2>2, <2>3, <1>1
  <1>4. At(0) = 0 /\ At(k) = n
    BY <1>1
  <1>5. \A i \in Nat : At(i) \in Nat
    BY <1>1
  <1>6. \A i, j \in Nat : i <= j => At(i) <= At(j)
    BY <1>1, <1>3
  <1> QED BY <1>2, <1>4, <1>5, <1>6

\* Each VM is in the slice of some host, as set by the loop over all_hosts.
LEMMA SliceCovers ==
    ASSUME NEW n \in Nat, NEW k \in Nat \ {0}, NEW v \in 1 .. n
    PROVE  \E i \in 0 .. k-1 : v \in Slice(n, k, i)
  <1> DEFINE q == n \div k
             r == n % k
             w == v - 1
             long == r * (q + 1)
  <1>1. q \in Nat /\ r \in 0 .. k-1 /\ n = k * q + r
    BY Division
  <1>2. \A i : SliceStart(n, k, i) = i * q + (IF i < r THEN i ELSE r)
    BY DEF SliceStart
  <1> HIDE DEF q, r
  <1>3. w \in Nat /\ w < n /\ long \in Nat
    BY <1>1
  <1>4. CASE w < long
    <2> DEFINE i == w \div (q + 1)
               d == w % (q + 1)
    <2>1. i \in Nat /\ d \in 0 .. q /\ w = (q + 1) * i + d
      <3>1. w \in Nat /\ q + 1 \in Nat \ {0}
        BY <1>1, <1>3
      <3> HIDE DEF w
      <3>2. i \in Nat /\ d \in 0 .. (q + 1) - 1 /\ w = (q + 1) * i + d
        BY <3>1, Division
      <3> QED BY <3>2, <1>1
    <2> HIDE DEF i, d
    <2>2. i < r
      <3> SUFFICES ASSUME i >= r PROVE FALSE
        BY <2>1, <1>1
      <3>1. i - r \in Nat
        BY <2>1, <1>1
      <3>2. (i - r) * (q + 1) \in Nat
        BY <3>1, <1>1
      <3>3. (q + 1) * i = long + (i - r) * (q + 1)
        BY <2>1, <1>1
      <3> QED BY <3>2, <3>3, <2>1, <1>3, <1>4, <1>1
    <2>3. SliceStart(n, k, i) = i * q + i
      BY <1>2, <2>2
    <2>4. SliceStart(n, k, i + 1) = i * q + q + i + 1
      <3>1. (i + 1) * q = i * q + q
        BY <2>1, <1>1
      <3>2. SliceStart(n, k, i + 1) = (i + 1) * q + (IF i + 1 < r THEN i + 1 ELSE r)
        BY <1>2
      <3>3. (IF i + 1 < r THEN i + 1 ELSE r) = i + 1
        BY <2>2, <2>1, <1>1
      <3>4. i * q \in Nat
        BY <2>1, <1>1
      <3> QED BY <3>1, <3>2, <3>3, <3>4, <2>1, <1>1
    <2>5. w = i * q + i + d
      BY <2>1, <1>1
    <2>6. v \in Slice(n, k, i)
      BY <2>1, <2>3, <2>4, <2>5, <1>1 DEF Slice
    <2> QED BY <2>1, <2>2, <2>6, <1>1
  <1>5. CASE w >= long
    <2>1. q # 0
      <3> SUFFICES ASSUME q = 0 PROVE FALSE
        OBVIOUS
      <3> QED BY <1>1, <1>3, <1>5
    <2> DEFINE i == (w - long) \div q
               d == (w - long) % q
    <2>2. w - long \in Nat
      BY <1>3, <1>5
    <2>3. i \in Nat /\ d \in 0 .. q-1 /\ w - long = q * i + d
      BY <1>1, <2>1, <2>2, Division
    <2> HIDE DEF i, d
    <2>4. i < k - r
      <3> SUFFICES ASSUME i >= k - r PROVE FALSE
        BY <2>3, <1>1
      <3>1. i - (k - r) \in Nat
        BY <2>3, <1>1
      <3>2. (i - (k - r)) * q \in Nat
        BY <3>1, <1>1
      <3>3. q * i + long = n + (i - (k - r)) * q
        BY <2>3, <1>1
      <3> QED BY <3>2, <3>3, <2>3, <1>3, <1>1
    <2>5. (r + i) * q = r * q + i * q /\ (r + i + 1) * q = r * q + i * q + q
      BY <2>3, <1>1
    <2>6. SliceStart(n, k, r + i) = r * q + i * q + r
      BY <1>2, <2>5, <2>3, <1>1
    <2>7. SliceStart(n, k, r + i + 1) = r * q + i * q + q + r
      BY <1>2, <2>5, <2>3, <1>1
    <2>8. w = r * q + r + i * q + d
      BY <2>3, <1>1
    <2>9. v \in Slice(n, k, r + i)
      BY <2>3, <2>6, <2>7, <2>8, <1>1 DEF Slice
    <2> QED BY <2>3, <2>4, <2>9, <1>1
  <1> QED BY <1>3, <1>4, <1>5

\* However n VMs divide over k hosts, each VM is in the slice of exactly one host.
THEOREM SlicePartition ==
    ASSUME NEW n \in Nat, NEW k \in Nat \ {0}, NEW v \in 1 .. n
    PROVE  \E i \in 0 .. k-1 :
             /\ v \in Slice(n, k, i)
             /\ \A j \in (0 .. k-1) \ {i} : v \notin Slice(n, k, j)
  <1>1. PICK i \in 0 .. k-1 : v \in Slice(n, k, i)
    BY SliceCovers
  <1>2. \A j \in 0 .. k : SliceStart(n, k, j) \in Nat
    BY SliceBounds
  <1>3. ASSUME NEW j \in 0 .. k-1, j # i PROVE v \notin Slice(n, k, j)
    <2>1. CASE j < i
      <3>1. SliceStart(n, k, j+1) <= SliceStart(n, k, i)
        BY <2>1, SliceBounds
      <3> QED BY <3>1, <1>1, <1>2 DEF Slice
    <2>2. CASE i < j
      <3>1. SliceStart(n, k, i+1) <= SliceStart(n, k, j)
        BY <2>2, SliceBounds
      <3> QED BY <3>1, <1>1, <1>2 DEF Slice
    <2> QED BY <1>3, <2>1, <2>2
  <1> QED BY <1>1, <1>3

-------------------------------------------------------------------------------
(* The inductive invariant.                                                *)

\* A domain and its disk come and go together, and a VM with an image is not on.
Machines ==
    \A v \in VM :
        /\ dom[v] = "none" <=> disk[v] = "none"
        /\ qcow[v] # "none" => dom[v] # "on"

\* The lists of the hosts.
Lists ==
    /\ \A h \in Host : work[h] \subseteq mine[h]
    /\ \A g, h \in Host : g # h => mine[g] \cap mine[h] = {}
    /\ play \in {"install", "software"} => \A h \in Host : \A v \in mine[h] : qcow[v] = "none"
    /\ play \in {"install", "software", "save"} =>
            \A v \in VM : qcow[v] = "none" => \E h \in Host : v \in mine[h]

\* A system has been installed on v's disk.
Installed(v) == disk[v] \notin {"none", "blank"}

\* What a host of the install play has done for the VMs it has dealt with.
Installing ==
    play = "install" =>
        \A h \in Host \ down : \A v \in mine[h] :
            /\ v \notin work[h] => Installed(v)
            /\ AtPlace(h, v, "install", "ssh") => dom[v] # "none"

\* What is known of the VMs of the hosts that have not failed after that play.
Equipped ==
    play \in {"software", "save"} =>
        \A h \in Host \ down : \A v \in mine[h] :
            /\ Installed(v)
            /\ v \notin lost /\ (play = "software" => v \notin dyn) => disk[v] = "full"

\* What a host of the save play has done for the VMs it has dealt with.
Saving ==
    play = "save" =>
        \A h \in Host \ down : \A v \in mine[h] :
            /\ v \notin work[h] => qcow[v] # "none"
            /\ AtPlace(h, v, "save", "convert") => dom[v] = "off"

\* The images a run has saved, and how it has ended.
Ended ==
    /\ play \in {"install", "software", "clean"} => fresh = {}
    /\ \A v \in fresh : v \in lost \/ qcow[v] = "full"
    /\ play # "idle" => last = "running"
    /\ last = "created" => lost = {} /\ \A v \in VM : qcow[v] # "none"

IInv ==
    /\ TypeOK
    /\ Machines
    /\ Lists
    /\ Installing
    /\ Equipped
    /\ Saving
    /\ Ended

-------------------------------------------------------------------------------
(* It is inductive.                                                        *)

\* Phase 1 has not started: there is no VM, image or list.
LEMMA InitInv == Init => IInv
  BY GoldAssumption DEF Init, IInv, TypeOK, Machines, Lists, Installing, Equipped, Saving,
     Ended,
     AtPlace, Host

\* The lists of distribute_vms_to_hosts.yaml: each VM is in that of exactly one host.
LEMMA AssignedOnce ==
    /\ \A h \in Host : Slice(NumVMs, NumHosts, h-1) \subseteq VM
    /\ \A v \in VM : \E h \in Host : v \in Slice(NumVMs, NumHosts, h-1)
    /\ \A g, h \in Host : g # h =>
            Slice(NumVMs, NumHosts, g-1) \cap Slice(NumVMs, NumHosts, h-1) = {}
  <1> USE GoldAssumption DEF Host, VM
  <1>1. ASSUME NEW h \in Host PROVE Slice(NumVMs, NumHosts, h-1) \subseteq VM
    <2>1. h-1 \in Nat /\ h-1+1 = h /\ h \in Nat /\ NumHosts \in Nat /\ h <= NumHosts
      OBVIOUS
    <2>2. SliceStart(NumVMs, NumHosts, h) <= SliceStart(NumVMs, NumHosts, NumHosts)
      BY <2>1, SliceBounds
    <2>3. /\ SliceStart(NumVMs, NumHosts, NumHosts) = NumVMs
          /\ SliceStart(NumVMs, NumHosts, h-1) \in Nat
          /\ SliceStart(NumVMs, NumHosts, h) \in Nat
      BY <2>1, SliceBounds
    <2> QED BY <2>1, <2>2, <2>3 DEF Slice
  <1>2. ASSUME NEW v \in VM PROVE \E h \in Host : v \in Slice(NumVMs, NumHosts, h-1)
    <2>1. PICK i \in 0 .. NumHosts-1 : v \in Slice(NumVMs, NumHosts, i)
      BY SliceCovers
    <2>2. i+1 \in Host /\ (i+1)-1 = i
      OBVIOUS
    <2> QED BY <2>1, <2>2
  <1>3. ASSUME NEW g \in Host, NEW h \in Host, g # h
        PROVE  Slice(NumVMs, NumHosts, g-1) \cap Slice(NumVMs, NumHosts, h-1) = {}
    <2>1. SUFFICES ASSUME NEW v \in Slice(NumVMs, NumHosts, g-1),
                          v \in Slice(NumVMs, NumHosts, h-1)
                   PROVE  FALSE
      OBVIOUS
    <2>2. v \in 1 .. NumVMs
      BY <1>1
    <2>3. PICK i \in 0 .. NumHosts-1 :
                \A j \in (0 .. NumHosts-1) \ {i} : v \notin Slice(NumVMs, NumHosts, j)
      BY <2>2, SlicePartition
    <2>4. g-1 \in 0 .. NumHosts-1 /\ h-1 \in 0 .. NumHosts-1 /\ g-1 # h-1
      BY <1>3
    <2> QED BY <2>1, <2>3, <2>4
  <1> QED BY <1>1, <1>2, <1>3

\* A run starts with each host having those of its VMs the run has to work on.
LEMMA StartInv ==
    ASSUME IInv, StartCreate \/ StartClean
    PROVE  IInv'
  <1> DEFINE wanted == IF StartCreate THEN {v \in VM : qcow[v] = "none"}
                                      ELSE {v \in VM : qcow[v] # "none"}
             p == IF StartCreate THEN "install" ELSE "clean"
             lists == [h \in Host |-> Assigned(h, wanted)]
  <1>1. /\ play' = p /\ mine' = lists /\ work' = lists
        /\ hpc' = [h \in Host |-> "next"]
        /\ down' = {} /\ dyn' = {} /\ lost' = {} /\ fresh' = {} /\ last' = "running"
        /\ UNCHANGED <<dom, disk, qcow>>
    BY DEF StartCreate, StartClean, StartRun, Begin, machines
  <1>2. /\ \A h \in Host : lists[h] \subseteq wanted /\ lists[h] \subseteq VM
        /\ \A g, h \in Host : g # h => lists[g] \cap lists[h] = {}
        /\ \A v \in wanted : \E h \in Host : v \in lists[h]
    BY AssignedOnce DEF Assigned
  <1>3. /\ p = "install" => wanted = {v \in VM : qcow[v] = "none"}
        /\ p \in {"install", "clean"}
    OBVIOUS
  <1>4. lists \in [Host -> SUBSET VM]
    BY <1>2
  <1> HIDE DEF lists, wanted, p
  <1>5. TypeOK'
    BY <1>1, <1>3, <1>4 DEF IInv, TypeOK
  <1>6. Machines'
    BY <1>1 DEF IInv, Machines
  <1>7. Lists'
    BY <1>1, <1>2, <1>3 DEF Lists
  <1>8. Installing' /\ Equipped' /\ Saving'
    BY <1>1, <1>3 DEF Installing, Equipped, Saving, AtPlace
  <1>9. Ended'
    BY <1>1, <1>3 DEF Ended
  <1> QED BY <1>5, <1>6, <1>7, <1>8, <1>9 DEF IInv

\* The VM's image is missing, so starting or installing it touches no image.
LEMMA VirtInstallInv ==
    ASSUME IInv, NEW h \in Host, NEW v \in VM, VirtInstall(h, v)
    PROVE  IInv'
  <1>1. TypeOK'
    BY DEF IInv, TypeOK, VirtInstall, Place
  <1>2. Machines'
    BY DEF IInv, TypeOK, Machines, Lists, VirtInstall, AtPlace
  <1>3. Lists'
    BY DEF IInv, Lists, VirtInstall
  <1>4. Installing'
    BY GoldAssumption DEF IInv, TypeOK, VirtInstall, AtPlace, Place, Installing, Installed, VM
  <1>5. Ended'
    BY DEF IInv, VirtInstall, Ended
  <1>6. Equipped' /\ Saving'
    BY DEF VirtInstall, AtPlace, Equipped, Saving
  <1> QED BY <1>1, <1>2, <1>3, <1>4, <1>5, <1>6 DEF IInv

\* A VM that answers has a system: the host has dealt with it.
LEMMA WaitSSHInv ==
    ASSUME IInv, NEW h \in Host, NEW v \in VM, WaitSSH(h, v)
    PROVE  IInv'
  <1>1. TypeOK'
    BY DEF IInv, TypeOK, WaitSSH, Place, NextVM, machines
  <1>2. Machines'
    BY DEF IInv, Machines, WaitSSH, machines
  <1>3. Lists'
    BY DEF IInv, Lists, WaitSSH, NextVM, machines
  <1>4. Installing'
    BY DEF IInv, TypeOK, Machines, WaitSSH, AtPlace, Place, NextVM, machines, Installing,
       Installed
  <1>5. Ended'
    BY DEF IInv, WaitSSH, machines, Ended
  <1>6. Equipped' /\ Saving'
    BY DEF WaitSSH, AtPlace, Equipped, Saving
  <1> QED BY <1>1, <1>2, <1>3, <1>4, <1>5, <1>6 DEF IInv

\* A VM of the save play has a disk and is now off.
LEMMA ShutdownInv ==
    ASSUME IInv, NEW h \in Host, NEW v \in VM, Shutdown(h, v)
    PROVE  IInv'
  <1>1. TypeOK'
    BY DEF IInv, TypeOK, Shutdown, Place
  <1>2. Machines'
    BY DEF IInv, Machines, Lists, Shutdown, AtPlace, Equipped, Installed
  <1>3. Lists'
    BY DEF IInv, Lists, Shutdown
  <1>4. Equipped'
    BY DEF IInv, Shutdown, Equipped, Installed
  <1>5. Saving'
    BY GoldAssumption DEF IInv, TypeOK, Shutdown, AtPlace, Place, Saving, VM
  <1>6. Ended'
    BY DEF IInv, Shutdown, Ended
  <1>7. Installing'
    BY DEF Shutdown, AtPlace, Installing
  <1> QED BY <1>1, <1>2, <1>3, <1>4, <1>5, <1>6, <1>7 DEF IInv

\* The image has the content of a disk with a system, with all of the software unless
\* the software play has failed on the VM.
LEMMA ConvertInv ==
    ASSUME IInv, NEW h \in Host, NEW v \in VM, Convert(h, v)
    PROVE  IInv'
  <1>1. TypeOK'
    BY DEF IInv, TypeOK, Lists, Convert, AtPlace, Place, NextVM, Equipped, Installed
  <1>2. Machines'
    BY DEF IInv, TypeOK, Machines, Lists, Convert, AtPlace, Saving
  <1>3. Lists'
    BY DEF IInv, TypeOK, Lists, Convert, AtPlace, NextVM
  <1>4. Equipped'
    BY DEF IInv, Convert, Equipped, Installed
  <1>5. Saving'
    BY DEF IInv, TypeOK, Machines, Convert, AtPlace, Place, NextVM, Saving
  <1>6. Ended'
    BY DEF IInv, TypeOK, Lists, Convert, AtPlace, Ended, Equipped
  <1>7. Installing'
    BY DEF Convert, AtPlace, Installing
  <1> QED BY <1>1, <1>2, <1>3, <1>4, <1>5, <1>6, <1>7 DEF IInv

\* Only a VM that is on is shut down.
LEMMA CleanShutdownInv ==
    ASSUME IInv, NEW h \in Host, NEW v \in VM, CleanShutdown(h, v)
    PROVE  IInv'
  <1>1. TypeOK'
    BY DEF IInv, TypeOK, CleanShutdown, Place
  <1>2. Machines'
    BY DEF IInv, Machines, CleanShutdown
  <1>3. Lists'
    BY DEF IInv, Lists, CleanShutdown
  <1>4. Ended'
    BY DEF IInv, CleanShutdown, Ended
  <1>5. Installing' /\ Equipped' /\ Saving'
    BY DEF CleanShutdown, AtPlace, Installing, Equipped, Saving
  <1> QED BY <1>1, <1>2, <1>3, <1>4, <1>5 DEF IInv

\* The domain goes with its disk, or both stay.
LEMMA UndefineInv ==
    ASSUME IInv, NEW h \in Host, NEW v \in VM, Undefine(h, v)
    PROVE  IInv'
  <1>1. TypeOK'
    BY DEF IInv, TypeOK, Undefine, Place
  <1>2. Machines'
    BY DEF IInv, TypeOK, Machines, Undefine
  <1>3. Lists'
    BY DEF IInv, Lists, Undefine
  <1>4. Ended'
    BY DEF IInv, Undefine, Ended
  <1>5. Installing' /\ Equipped' /\ Saving'
    BY DEF Undefine, AtPlace, Installing, Equipped, Saving
  <1> QED BY <1>1, <1>2, <1>3, <1>4, <1>5 DEF IInv

\* An image that is removed is not one the run has saved.
LEMMA UnlinkInv ==
    ASSUME IInv, NEW h \in Host, NEW v \in VM, Unlink(h, v)
    PROVE  IInv'
  <1>1. TypeOK'
    BY DEF IInv, TypeOK, Unlink, Place, NextVM
  <1>2. Machines'
    BY DEF IInv, Machines, Unlink
  <1>3. Lists'
    BY DEF IInv, Lists, Unlink, AtPlace, NextVM
  <1>4. Ended'
    BY DEF IInv, Unlink, AtPlace, Ended
  <1>5. Installing' /\ Equipped' /\ Saving'
    BY DEF Unlink, AtPlace, Installing, Equipped, Saving
  <1> QED BY <1>1, <1>2, <1>3, <1>4, <1>5 DEF IInv

\* A failed installation leaves a domain with a disk, or neither.
LEMMA VirtInstallFailsInv ==
    ASSUME IInv, NEW h \in Host, NEW v \in VM, VirtInstallFails(h, v)
    PROVE  IInv'
  <1>1. TypeOK'
    BY DEF IInv, TypeOK, VirtInstallFails, HostFails
  <1>2. Machines'
    BY DEF IInv, TypeOK, Machines, Lists, VirtInstallFails, AtPlace
  <1>3. Lists'
    BY DEF IInv, Lists, VirtInstallFails, HostFails
  <1>4. Installing'
    BY DEF IInv, TypeOK, Lists, VirtInstallFails, AtPlace, HostFails, Installing, Installed
  <1>5. Ended'
    BY DEF IInv, VirtInstallFails, HostFails, Ended
  <1>6. Equipped' /\ Saving'
    BY DEF VirtInstallFails, AtPlace, HostFails, Equipped, Saving
  <1> QED BY <1>1, <1>2, <1>3, <1>4, <1>5, <1>6 DEF IInv

\* A host that fails makes no more claims for its VMs.
LEMMA WaitSSHFailsInv ==
    ASSUME IInv, NEW h \in Host, NEW v \in VM, WaitSSHFails(h, v)
    PROVE  IInv'
  <1>1. TypeOK'
    BY DEF IInv, TypeOK, WaitSSHFails, HostFails, machines
  <1>2. Machines'
    BY DEF IInv, Machines, WaitSSHFails, machines
  <1>3. Lists'
    BY DEF IInv, Lists, WaitSSHFails, HostFails, machines
  <1>4. Installing'
    BY DEF IInv, WaitSSHFails, AtPlace, HostFails, machines, Installing, Installed
  <1>5. Ended'
    BY DEF IInv, WaitSSHFails, HostFails, machines, Ended
  <1>6. Equipped' /\ Saving'
    BY DEF WaitSSHFails, AtPlace, HostFails, Equipped, Saving
  <1> QED BY <1>1, <1>2, <1>3, <1>4, <1>5, <1>6 DEF IInv

\* A VM that is left on, or off, has its disk.
LEMMA ShutdownFailsInv ==
    ASSUME IInv, NEW h \in Host, NEW v \in VM, ShutdownFails(h, v)
    PROVE  IInv'
  <1>1. TypeOK'
    BY DEF IInv, TypeOK, ShutdownFails, HostFails
  <1>2. Machines'
    BY DEF IInv, Machines, Lists, ShutdownFails, AtPlace, Equipped, Installed
  <1>3. Lists'
    BY DEF IInv, Lists, ShutdownFails, HostFails
  <1>4. Equipped'
    BY DEF IInv, ShutdownFails, HostFails, Equipped, Installed
  <1>5. Saving'
    BY DEF IInv, ShutdownFails, AtPlace, HostFails, Saving
  <1>6. Ended'
    BY DEF IInv, ShutdownFails, HostFails, Ended
  <1>7. Installing'
    BY DEF ShutdownFails, AtPlace, HostFails, Installing
  <1> QED BY <1>1, <1>2, <1>3, <1>4, <1>5, <1>6, <1>7 DEF IInv

\* A torn image is not one the run has saved.
LEMMA ConvertFailsInv ==
    ASSUME IInv, NEW h \in Host, NEW v \in VM, ConvertFails(h, v)
    PROVE  IInv'
  <1>1. TypeOK'
    BY DEF IInv, TypeOK, ConvertFails, HostFails
  <1>2. Machines'
    BY DEF IInv, TypeOK, Machines, Lists, ConvertFails, AtPlace, Saving
  <1>3. Lists'
    BY DEF IInv, TypeOK, Lists, ConvertFails, AtPlace, HostFails
  <1>4. Equipped'
    BY DEF IInv, ConvertFails, HostFails, Equipped, Installed
  <1>5. Saving'
    BY DEF IInv, TypeOK, ConvertFails, AtPlace, HostFails, Saving
  <1>6. Ended'
    BY DEF IInv, TypeOK, ConvertFails, HostFails, Ended
  <1>7. Installing'
    BY DEF ConvertFails, AtPlace, HostFails, Installing
  <1> QED BY <1>1, <1>2, <1>3, <1>4, <1>5, <1>6, <1>7 DEF IInv

\* A VM that is left on has no image.
LEMMA CleanShutdownFailsInv ==
    ASSUME IInv, NEW h \in Host, NEW v \in VM, CleanShutdownFails(h, v)
    PROVE  IInv'
  <1>1. TypeOK'
    BY DEF IInv, TypeOK, CleanShutdownFails, HostFails
  <1>2. Machines'
    BY DEF IInv, Machines, CleanShutdownFails
  <1>3. Lists'
    BY DEF IInv, Lists, CleanShutdownFails, HostFails
  <1>4. Ended'
    BY DEF IInv, CleanShutdownFails, HostFails, Ended
  <1>5. Installing' /\ Equipped' /\ Saving'
    BY DEF CleanShutdownFails, AtPlace, HostFails, Installing, Equipped, Saving
  <1> QED BY <1>1, <1>2, <1>3, <1>4, <1>5 DEF IInv

\* The software is installed on a VM that is on, hence without an image.
LEMMA SoftwareInv ==
    ASSUME IInv, NEW v \in VM, Software(v)
    PROVE  IInv'
  <1>1. TypeOK'
    BY DEF IInv, TypeOK, Software
  <1>2. Machines'
    BY DEF IInv, Machines, Software, Reachable
  <1>3. Lists'
    BY DEF IInv, Lists, Software
  <1>4. Equipped'
    BY DEF IInv, TypeOK, Software, Equipped, Installed
  <1>5. Ended'
    BY DEF IInv, Software, Ended
  <1>6. Installing' /\ Saving'
    BY DEF Software, Installing, Saving
  <1> QED BY <1>1, <1>2, <1>3, <1>4, <1>5, <1>6 DEF IInv

\* A VM on which the software play has failed is counted as lost.
LEMMA SoftwareFailsInv ==
    ASSUME IInv, NEW v \in VM, SoftwareFails(v)
    PROVE  IInv'
  <1>1. TypeOK'
    BY DEF IInv, TypeOK, SoftwareFails, Part
  <1>2. Machines'
    BY DEF IInv, TypeOK, Machines, SoftwareFails, Reachable, Part
  <1>3. Lists'
    BY DEF IInv, Lists, SoftwareFails
  <1>4. Equipped'
    BY DEF IInv, TypeOK, SoftwareFails, Part, Equipped, Installed
  <1>5. Ended'
    BY DEF IInv, SoftwareFails, Ended
  <1>6. Installing' /\ Saving'
    BY DEF SoftwareFails, Installing, Saving
  <1> QED BY <1>1, <1>2, <1>3, <1>4, <1>5, <1>6 DEF IInv

\* The guest of a VM that is on completes its installation.
LEMMA GuestInstallsInv ==
    ASSUME IInv, NEW v \in VM, GuestInstalls(v)
    PROVE  IInv'
  <1>1. TypeOK'
    BY DEF IInv, TypeOK, GuestInstalls, run
  <1>2. Machines'
    BY DEF IInv, Machines, GuestInstalls
  <1>3. Lists'
    BY DEF IInv, Lists, GuestInstalls, run
  <1>4. Installing'
    BY DEF IInv, GuestInstalls, run, Installing, Installed, AtPlace
  <1>5. Equipped'
    BY DEF IInv, GuestInstalls, run, Equipped, Installed
  <1>6. Saving'
    BY DEF IInv, GuestInstalls, run, Saving, AtPlace
  <1>7. Ended'
    BY DEF IInv, GuestInstalls, run, Ended
  <1> QED BY <1>1, <1>2, <1>3, <1>4, <1>5, <1>6, <1>7 DEF IInv

\* The hosts that have not failed have given all their VMs a system, and all VMs take
\* part in the software play.
LEMMA EndInstallInv ==
    ASSUME IInv, EndInstall
    PROVE  IInv'
  <1>1. TypeOK'
    BY DEF IInv, TypeOK, EndInstall, EndRun, Begin, machines
  <1>2. Machines'
    BY DEF IInv, Machines, EndInstall, machines
  <1>3. Lists'
    BY DEF IInv, Lists, EndInstall, EndRun, Begin, machines
  <1>4. Equipped'
    BY DEF IInv, TypeOK, EndInstall, Finished, Begin, machines, Equipped, Installed, Installing
  <1>5. Ended'
    BY DEF IInv, EndInstall, EndRun, Ended
  <1>6. Installing' /\ Saving'
    BY DEF EndInstall, Begin, Installing, Saving
  <1> QED BY <1>1, <1>2, <1>3, <1>4, <1>5, <1>6 DEF IInv

\* The VMs that are not lost have all of the software.
LEMMA EndSoftwareInv ==
    ASSUME IInv, EndSoftware
    PROVE  IInv'
  <1>1. TypeOK'
    BY DEF IInv, TypeOK, EndSoftware, EndRun, Begin, machines
  <1>2. Machines'
    BY DEF IInv, Machines, EndSoftware, machines
  <1>3. Lists'
    BY DEF IInv, Lists, EndSoftware, EndRun, Begin, machines
  <1>4. Equipped'
    BY DEF IInv, EndSoftware, machines, Equipped, Installed
  <1>5. Saving'
    BY DEF EndSoftware, EndRun, Begin, Saving, AtPlace
  <1>6. Ended'
    BY DEF IInv, EndSoftware, EndRun, Ended
  <1>7. Installing'
    BY DEF EndSoftware, EndRun, Begin, Installing
  <1> QED BY <1>1, <1>2, <1>3, <1>4, <1>5, <1>6, <1>7 DEF IInv

\* When no host has failed, each missing image was in the list of a host, which has
\* saved it.
LEMMA EndSaveInv ==
    ASSUME IInv, EndSave
    PROVE  IInv'
  <1>1. TypeOK'
    BY DEF IInv, TypeOK, EndSave, EndRun, machines
  <1>2. Machines'
    BY DEF IInv, Machines, EndSave, machines
  <1>3. Lists'
    BY DEF IInv, Lists, EndSave, EndRun
  <1>4. Ended'
    BY DEF IInv, Lists, EndSave, Finished, EndRun, machines, Ended, Saving
  <1>5. Installing' /\ Equipped' /\ Saving'
    BY DEF EndSave, EndRun, Installing, Equipped, Saving
  <1> QED BY <1>1, <1>2, <1>3, <1>4, <1>5 DEF IInv

\* A clean has saved no image.
LEMMA EndCleanInv ==
    ASSUME IInv, EndClean
    PROVE  IInv'
  <1>1. TypeOK'
    BY DEF IInv, TypeOK, EndClean, EndRun, machines
  <1>2. Machines'
    BY DEF IInv, Machines, EndClean, machines
  <1>3. Lists'
    BY DEF IInv, Lists, EndClean, EndRun
  <1>4. Ended'
    BY DEF IInv, EndClean, EndRun, Ended
  <1>5. Installing' /\ Equipped' /\ Saving'
    BY DEF EndClean, EndRun, Installing, Equipped, Saving
  <1> QED BY <1>1, <1>2, <1>3, <1>4, <1>5 DEF IInv

\* Tasks cut short leave what their failures leave.
LEMMA KillInv ==
    ASSUME IInv, Kill
    PROVE  IInv'
  <1>1. TypeOK'
    BY DEF IInv, TypeOK, Kill, EndRun, Part
  <1>2. Machines'
    <2>1. PICK torn \in SUBSET {v \in Busy("save", "convert") : qcow[v] = "none"} :
                qcow' = [v \in VM |-> IF v \in torn THEN "torn" ELSE qcow[v]]
      BY DEF Kill
    <2>2. PICK half \in SUBSET {v \in dyn : Reachable(v)},
               blank \in SUBSET {v \in Busy("install", "next") : dom[v] = "none"} :
            /\ dom' = [v \in VM |-> IF v \in blank THEN "on" ELSE dom[v]]
            /\ disk' = [v \in VM |-> IF v \in blank THEN "blank"
                                     ELSE IF v \in half THEN Part(disk[v])
                                     ELSE disk[v]]
      BY DEF Kill
    <2>3. \A v \in torn : dom[v] = "off"
      BY <2>1 DEF IInv, TypeOK, Busy, Saving, Lists, AtPlace
    <2>4. \A v \in blank : qcow[v] = "none" /\ play = "install"
      BY <2>2 DEF IInv, TypeOK, Busy, Lists, AtPlace
    <2>5. torn # {} => play = "save"
      BY <2>1 DEF Busy, AtPlace
    <2>6. \A v \in half : disk[v] # "none"
      BY <2>2 DEF Reachable, IInv, Machines, TypeOK
    <2> QED BY <2>1, <2>2, <2>3, <2>4, <2>5, <2>6 DEF IInv, Machines, Part
  <1>3. Lists'
    BY DEF IInv, Lists, Kill, EndRun
  <1>4. Ended'
    BY DEF IInv, TypeOK, Kill, EndRun, Ended
  <1>5. Installing' /\ Equipped' /\ Saving'
    BY DEF Kill, EndRun, Installing, Equipped, Saving
  <1> QED BY <1>1, <1>2, <1>3, <1>4, <1>5 DEF IInv

\* Every step keeps the invariant.
LEMMA StepInv == IInv /\ [Next]_vars => IInv'
  <1> SUFFICES ASSUME IInv, [Next]_vars PROVE IInv'
    OBVIOUS
  <1>1. CASE StartCreate \/ StartClean
    BY <1>1, StartInv
  <1>2. CASE PlayEnd
    BY <1>2, EndInstallInv, EndSoftwareInv, EndSaveInv, EndCleanInv DEF PlayEnd
  <1>3. CASE \E h \in Host, v \in VM : HostStep(h, v)
    BY <1>3, VirtInstallInv, WaitSSHInv, ShutdownInv, ConvertInv, CleanShutdownInv, UndefineInv,
       UnlinkInv DEF HostStep
  <1>4. CASE \E h \in Host, v \in VM : HostFault(h, v)
    BY <1>4, VirtInstallFailsInv, WaitSSHFailsInv, ShutdownFailsInv, ConvertFailsInv,
       CleanShutdownFailsInv DEF HostFault
  <1>5. CASE \E v \in VM : Software(v) \/ SoftwareFails(v) \/ GuestInstalls(v)
    BY <1>5, SoftwareInv, SoftwareFailsInv, GuestInstallsInv
  <1>6. CASE Kill
    BY <1>6, KillInv
  <1>7. CASE UNCHANGED vars
    BY <1>7 DEF vars, machines, run, IInv, TypeOK, Machines, Lists, Installing, Equipped,
       Saving,
       Ended, Installed, AtPlace
  <1> QED BY <1>1, <1>2, <1>3, <1>4, <1>5, <1>6, <1>7 DEF Next

\* The inductive invariant holds in every reachable state.
LEMMA Invariance == Spec => []IInv
  BY InitInv, StepInv, PTL DEF Spec

-------------------------------------------------------------------------------
(* The theorems.                                                           *)

\* The state of phase 1 stays well typed.
THEOREM TypeCorrect == Spec => []TypeOK
  <1>1. IInv => TypeOK
    BY DEF IInv
  <1> QED BY <1>1, Invariance, PTL

\* No two hosts of the free strategy work on one VM, and the lists of a run leave no
\* missing image out, for any numbers of VMs and hosts.
THEOREM DealtOnce == Spec => []EachOnce
  <1>1. IInv => EachOnce
    BY DEF IInv, Lists, EachOnce
  <1> QED BY <1>1, Invariance, PTL

\* A run of phase 1 that ends well leaves an image of every gold VM, whatever tasks,
\* hosts and runs have failed before it.
THEOREM CreatedComplete == Spec => []CreatedImages
  <1>1. IInv => CreatedImages
    BY DEF IInv, Ended, CreatedImages
  <1> QED BY <1>1, Invariance, PTL

\* Until makeclean, no step changes an image or the disk it was saved from.
THEOREM ImagesSafe == Spec => ImagesKept
  <1> DEFINE Kept == \A v \in VM : qcow[v] # "none" /\ play # "clean" =>
                        qcow'[v] = qcow[v] /\ disk'[v] = disk[v]
  <1>1. IInv /\ [Next]_vars => [Kept]_vars
    <2> SUFFICES ASSUME IInv, Next PROVE Kept
      BY DEF vars, machines, run
    <2> USE DEF IInv, TypeOK
    <2>1. CASE StartCreate \/ StartClean \/ PlayEnd
      BY <2>1 DEF StartCreate, StartClean, PlayEnd, EndInstall, EndSoftware, EndSave,
         EndClean, machines
    <2>2. ASSUME NEW h \in Host, NEW v \in VM, HostStep(h, v) PROVE Kept
      <3>1. CASE VirtInstall(h, v)
        BY <3>1 DEF VirtInstall, AtPlace, Lists
      <3>2. CASE Convert(h, v)
        BY <3>2 DEF Convert
      <3>3. CASE WaitSSH(h, v) \/ Shutdown(h, v)
        BY <3>3 DEF WaitSSH, Shutdown, machines
      <3>4. CASE CleanShutdown(h, v) \/ Undefine(h, v) \/ Unlink(h, v)
        BY <3>4 DEF CleanShutdown, Undefine, Unlink, AtPlace
      <3> QED BY <2>2, <3>1, <3>2, <3>3, <3>4 DEF HostStep
    <2>3. ASSUME NEW h \in Host, NEW v \in VM, HostFault(h, v) PROVE Kept
      <3>1. CASE VirtInstallFails(h, v)
        BY <3>1 DEF VirtInstallFails, AtPlace, Lists
      <3>2. CASE ConvertFails(h, v)
        BY <3>2 DEF ConvertFails
      <3>3. CASE WaitSSHFails(h, v) \/ ShutdownFails(h, v) \/ CleanShutdownFails(h, v)
        BY <3>3 DEF WaitSSHFails, ShutdownFails, CleanShutdownFails, machines
      <3> QED BY <2>3, <3>1, <3>2, <3>3 DEF HostFault
    <2>4. ASSUME NEW v \in VM, Software(v) \/ SoftwareFails(v) \/ GuestInstalls(v) PROVE Kept
      BY <2>4 DEF Software, SoftwareFails, GuestInstalls, Reachable, Machines
    <2>5. CASE Kill
      <3>1. \A v \in Busy("install", "next") : qcow[v] = "none"
        BY DEF Busy, AtPlace, Lists
      <3>2. \A v \in dyn : Reachable(v) => qcow[v] = "none"
        BY DEF Reachable, Machines
      <3> QED BY <2>5, <3>1, <3>2 DEF Kill
    <2> QED BY <2>1, <2>2, <2>3, <2>4, <2>5 DEF Next
  <1> QED BY <1>1, Invariance, PTL DEF Spec, ImagesKept
===============================================================================

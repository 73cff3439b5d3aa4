------------------------------ MODULE GoldImages ------------------------------
(***************************************************************************)
(* Phase 1 with a network of VMs: tassi_phase1_create_gold_vms.yaml and    *)
(* its task files create a gold VM per image, install its software, shut   *)
(* it down and save its disk as a qcow2 file; with --tags makeclean they   *)
(* remove the VMs and images.                                              *)
(*                                                                         *)
(* The VMs are spread over the physical hosts, which work in parallel (the *)
(* free strategy), each through its own list.  A host on which a task      *)
(* fails takes no part in the rest of the run.  A run can fail or be       *)
(* killed anywhere, and is then repeated by make.  Ansible, libvirt and    *)
(* qemu-img are external.                                                  *)
(***************************************************************************)
EXTENDS Integers

CONSTANTS
    NumVMs,         \* gold_vms, in order, are VMs 1 .. NumVMs
    NumHosts,       \* physical_hosts, in order, are hosts 1 .. NumHosts
    MaxFaults,      \* bound on failed tasks and kills in a behaviour
    MaxCleans       \* bound on the makeclean runs in a behaviour

ASSUME GoldAssumption ==
    /\ NumVMs \in Nat
    /\ NumHosts \in Nat \ {0}
    /\ MaxFaults \in Nat
    /\ MaxCleans \in Nat

VM == 1 .. NumVMs
Host == 1 .. NumHosts

VARIABLES
    dom,        \* dom[v]: libvirt domain of v: "none", "off" or "on"
    disk,       \* disk[v]: what has been installed on v's disk
    qcow,       \* qcow[v]: content of v's qcow2 file, "none" if there is none
    play,       \* the play that is running, or "idle"
    mine,       \* mine[h]: the assigned_vms of host h, after filtering
    work,       \* work[h]: what is left of them in this play
    hpc,        \* hpc[h]: where h is with its current VM
    down,       \* hosts a task of this run has failed on
    dyn,        \* VMs of dynamic_hosts the software play has not finished
    lost,       \* VMs on which the software play of this run has failed
    fresh,      \* VMs whose image this run has saved
    last,       \* how the last run ended
    faults, cleans

machines == <<dom, disk, qcow>>
run == <<play, mine, work, hpc, down, dyn, lost, fresh, last>>
vars == <<machines, run, faults, cleans>>

-------------------------------------------------------------------------------
(* Distribution of the VMs over the hosts.                                 *)

\* Mutant: the VMs that do not divide evenly are forgotten.
NoRemainder(n, k, i) == i * (n \div k)

\* The first VM, counted from 0, of the slice of n VMs that host i of k gets.
SliceStart(n, k, i) ==
    LET vms_per_host == n \div k
        remainder    == n % k
    IN  i * vms_per_host + (IF i < remainder THEN i ELSE remainder)

\* gold_vms[start:end] for host i (counted from 0), as VM numbers from 1.
Slice(n, k, i) == SliceStart(n, k, i) + 1 .. SliceStart(n, k, i+1)

\* The VMs of host h, of which a run works on those whose image is missing,
\* or, with makeclean, on those whose image exists.
Assigned(h, wanted) == Slice(NumVMs, NumHosts, h-1) \cap wanted

Init ==
    /\ dom = [v \in VM |-> "none"]
    /\ disk = [v \in VM |-> "none"]
    /\ qcow = [v \in VM |-> "none"]
    /\ play = "idle"
    /\ mine = [h \in Host |-> {}]
    /\ work = [h \in Host |-> {}]
    /\ hpc = [h \in Host |-> "next"]
    /\ down = {}
    /\ dyn = {}
    /\ lost = {}
    /\ fresh = {}
    /\ last = "none"
    /\ faults = 0
    /\ cleans = 0

Fault == faults < MaxFaults /\ faults' = faults + 1

\* Start a play on the hosts that have not failed.
Begin(p, lists) ==
    /\ play' = p
    /\ work' = lists
    /\ hpc' = [h \in Host |-> "next"]

StartRun(p, wanted) ==
    LET lists == [h \in Host |-> Assigned(h, wanted)] IN
    /\ play = "idle"
    /\ Begin(p, lists)
    /\ mine' = lists
    /\ down' = {}
    /\ dyn' = {}
    /\ lost' = {}
    /\ fresh' = {}
    /\ last' = "running"

\* Mutant: the VMs whose image exists are not left out.
CreateAll ==
    /\ StartRun("install", VM)
    /\ UNCHANGED <<machines, faults, cleans>>

StartCreate ==
    /\ StartRun("install", {v \in VM : qcow[v] = "none"})
    /\ UNCHANGED <<machines, faults, cleans>>

StartClean ==
    /\ cleans < MaxCleans
    /\ cleans' = cleans + 1
    /\ StartRun("clean", {v \in VM : qcow[v] # "none"})
    /\ UNCHANGED <<machines, faults>>

EndRun(outcome) ==
    /\ play' = "idle"
    /\ last' = outcome
    /\ work' = [h \in Host |-> {}]
    /\ hpc' = [h \in Host |-> "next"]

\* Host h, going through its list in order, is with VM v at place p of play pl.
AtPlace(h, v, pl, p) ==
    /\ play = pl
    /\ h \notin down
    /\ v \in work[h]
    /\ \A w \in work[h] : v <= w
    /\ hpc[h] = p
Place(h, p) == hpc' = [hpc EXCEPT ![h] = p]

\* h goes on with its next VM.
NextVM(h, v) ==
    /\ work' = [work EXCEPT ![h] = @ \ {v}]
    /\ Place(h, "next")

\* A task fails on h.
HostFails(h) ==
    /\ down' = down \cup {h}
    /\ UNCHANGED <<play, mine, work, hpc, dyn, lost, fresh, last>>

Finished == \A h \in Host : h \in down \/ work[h] = {}

-------------------------------------------------------------------------------
(* First play: install an operating system.                                *)

\* A VM that exists is not installed again, but started.
VirtInstall(h, v) ==
    /\ AtPlace(h, v, "install", "next")
    /\ dom' = [dom EXCEPT ![v] = "on"]
    /\ disk' = [disk EXCEPT ![v] = IF dom[v] = "none" THEN "bare" ELSE @]
    /\ Place(h, "ssh")
    /\ UNCHANGED <<qcow, play, mine, work, down, dyn, lost, fresh, last, faults, cleans>>

\* virt-install fails or times out; the domain may stay, not yet installed.
VirtInstallFails(h, v) ==
    /\ AtPlace(h, v, "install", "next")
    /\ dom[v] = "none"
    /\ Fault
    /\ \/ UNCHANGED <<dom, disk>>
       \/ /\ dom' = [dom EXCEPT ![v] = "on"]
          /\ disk' = [disk EXCEPT ![v] = "blank"]
    /\ HostFails(h)
    /\ UNCHANGED <<qcow, cleans>>

\* The installation goes on in the guest, and may complete there.
GuestInstalls(v) ==
    /\ dom[v] = "on"
    /\ disk[v] = "blank"
    /\ disk' = [disk EXCEPT ![v] = "bare"]
    /\ UNCHANGED <<dom, qcow, run, faults, cleans>>

\* Mutant: the host does not wait for the VM to answer.
NoWait(h, v) ==
    /\ AtPlace(h, v, "install", "ssh")
    /\ NextVM(h, v)
    /\ UNCHANGED <<machines, play, mine, down, dyn, lost, fresh, last, faults, cleans>>

WaitSSH(h, v) ==
    /\ AtPlace(h, v, "install", "ssh")
    /\ disk[v] # "blank"
    /\ NextVM(h, v)
    /\ UNCHANGED <<machines, play, mine, down, dyn, lost, fresh, last, faults, cleans>>

\* No answer within the timeout: always from a VM without a system.
WaitSSHFails(h, v) ==
    /\ AtPlace(h, v, "install", "ssh")
    /\ \/ disk[v] = "blank" /\ UNCHANGED faults
       \/ disk[v] # "blank" /\ Fault
    /\ HostFails(h)
    /\ UNCHANGED <<machines, cleans>>

\* add_host runs once, on the first host that still has work, and adds every gold
\* VM; without such a host there are no dynamic hosts.
EndInstall ==
    /\ play = "install"
    /\ Finished
    /\ IF down = Host
       THEN EndRun("failed") /\ UNCHANGED dyn
       ELSE /\ Begin("software", work)
            /\ dyn' = IF \E h \in Host \ down : mine[h] # {} THEN VM ELSE {}
            /\ UNCHANGED last
    /\ UNCHANGED <<machines, mine, down, lost, fresh, faults, cleans>>

-------------------------------------------------------------------------------
(* Second play: install the software inside the VMs.                       *)

Reachable(v) == dom[v] = "on" /\ disk[v] # "blank"

\* A disk on which the installation of the software has been cut short.
Part(content) == IF content = "full" THEN "full" ELSE "half"

\* The tasks need the proxy facts of the first physical host.
Software(v) ==
    /\ play = "software"
    /\ v \in dyn
    /\ Reachable(v)
    /\ 1 \notin down
    /\ disk' = [disk EXCEPT ![v] = "full"]
    /\ dyn' = dyn \ {v}
    /\ UNCHANGED <<dom, qcow, play, mine, work, hpc, down, lost, fresh, last, faults, cleans>>

SoftwareFails(v) ==
    /\ play = "software"
    /\ v \in dyn
    /\ \/ ~Reachable(v) /\ UNCHANGED <<disk, faults>>
       \/ Reachable(v) /\ 1 \in down /\ UNCHANGED <<disk, faults>>
       \/ Reachable(v) /\ Fault /\ disk' = [disk EXCEPT ![v] = Part(@)]
    /\ dyn' = dyn \ {v}
    /\ lost' = lost \cup {v}
    /\ UNCHANGED <<dom, qcow, play, mine, work, hpc, down, fresh, last, cleans>>

\* Mutant: one failed VM always stops the run.
StopAtFirst ==
    /\ play = "software"
    /\ dyn = {}
    /\ IF lost # {} THEN EndRun("failed") ELSE Begin("save", mine) /\ UNCHANGED last
    /\ UNCHANGED <<machines, mine, down, dyn, lost, fresh, faults, cleans>>

\* any_errors_fatal has no effect under the free strategy: the run stops only when
\* every VM of the play has failed.
EndSoftware ==
    /\ play = "software"
    /\ dyn = {}
    /\ \/ lost # {} /\ lost = VM /\ EndRun("failed")
       \/ (lost = {} \/ lost # VM) /\ Begin("save", mine) /\ UNCHANGED last
    /\ UNCHANGED <<machines, mine, down, dyn, lost, fresh, faults, cleans>>

-------------------------------------------------------------------------------
(* Third play: save the images.                                            *)

Shutdown(h, v) ==
    /\ AtPlace(h, v, "save", "next")
    /\ dom' = [dom EXCEPT ![v] = "off"]
    /\ Place(h, "convert")
    /\ UNCHANGED <<disk, qcow, play, mine, work, down, dyn, lost, fresh, last, faults, cleans>>

\* The VM may still shut down after the host has given up waiting for it.
ShutdownFails(h, v) ==
    /\ AtPlace(h, v, "save", "next")
    /\ Fault
    /\ \E state \in {dom[v], "off"} : dom' = [dom EXCEPT ![v] = state]
    /\ HostFails(h)
    /\ UNCHANGED <<disk, qcow, cleans>>

\* An image that exists is left as it is.
Convert(h, v) ==
    /\ AtPlace(h, v, "save", "convert")
    /\ \/ /\ qcow[v] = "none"
          /\ qcow' = [qcow EXCEPT ![v] = disk[v]]
          /\ fresh' = fresh \cup {v}
       \/ /\ qcow[v] # "none"
          /\ UNCHANGED <<qcow, fresh>>
    /\ NextVM(h, v)
    /\ UNCHANGED <<dom, disk, play, mine, down, dyn, lost, last, faults, cleans>>

\* qemu-img writes the file in place: what it has written when it fails stays.
ConvertFails(h, v) ==
    /\ AtPlace(h, v, "save", "convert")
    /\ qcow[v] = "none"
    /\ Fault
    /\ \/ qcow' = [qcow EXCEPT ![v] = "torn"]
       \/ UNCHANGED qcow
    /\ HostFails(h)
    /\ UNCHANGED <<dom, disk, cleans>>

\* Mutant: the VMs that failed do not count.
HostsOnly ==
    /\ play = "save"
    /\ Finished
    /\ EndRun(IF down = {} THEN "created" ELSE "failed")
    /\ UNCHANGED <<machines, mine, down, dyn, lost, fresh, faults, cleans>>

\* ansible-playbook succeeds when no host and no VM has failed in any play.
EndSave ==
    /\ play = "save"
    /\ Finished
    /\ EndRun(IF down = {} /\ lost = {} THEN "created" ELSE "failed")
    /\ UNCHANGED <<machines, mine, down, dyn, lost, fresh, faults, cleans>>

-------------------------------------------------------------------------------
(* makeclean.                                                              *)

CleanShutdown(h, v) ==
    /\ AtPlace(h, v, "clean", "next")
    /\ dom' = [dom EXCEPT ![v] = IF @ = "on" THEN "off" ELSE @]
    /\ Place(h, "undefine")
    /\ UNCHANGED <<disk, qcow, play, mine, work, down, dyn, lost, fresh, last, faults, cleans>>

CleanShutdownFails(h, v) ==
    /\ AtPlace(h, v, "clean", "next")
    /\ dom[v] # "none"
    /\ Fault
    /\ \E state \in {dom[v], "off"} : dom' = [dom EXCEPT ![v] = state]
    /\ HostFails(h)
    /\ UNCHANGED <<disk, qcow, cleans>>

\* The errors of undefining the VM are ignored.
Undefine(h, v) ==
    /\ AtPlace(h, v, "clean", "undefine")
    /\ \/ /\ dom' = [dom EXCEPT ![v] = "none"]
          /\ disk' = [disk EXCEPT ![v] = "none"]
          /\ UNCHANGED faults
       \/ /\ dom[v] # "none"
          /\ Fault
          /\ UNCHANGED <<dom, disk>>
    /\ Place(h, "unlink")
    /\ UNCHANGED <<qcow, play, mine, work, down, dyn, lost, fresh, last, cleans>>

Unlink(h, v) ==
    /\ AtPlace(h, v, "clean", "unlink")
    /\ qcow' = [qcow EXCEPT ![v] = "none"]
    /\ NextVM(h, v)
    /\ UNCHANGED <<dom, disk, play, mine, down, dyn, lost, fresh, last, faults, cleans>>

EndClean ==
    /\ play = "clean"
    /\ Finished
    /\ EndRun(IF down = {} THEN "cleaned" ELSE "failed")
    /\ UNCHANGED <<machines, mine, down, dyn, lost, fresh, faults, cleans>>

-------------------------------------------------------------------------------
\* The VMs on which a task for place p of play pl may be running.
Busy(pl, p) == {v \in VM : \E h \in Host : AtPlace(h, v, pl, p)}

\* ansible-playbook is killed, and each task it has running may be cut short: a
\* qemu-img, a virt-install or the installation of software.
Kill ==
    /\ play # "idle"
    /\ Fault
    /\ \E torn \in SUBSET {v \in Busy("save", "convert") : qcow[v] = "none"} :
            qcow' = [v \in VM |-> IF v \in torn THEN "torn" ELSE qcow[v]]
    /\ \E half \in SUBSET {v \in dyn : Reachable(v)},
          blank \in SUBSET {v \in Busy("install", "next") : dom[v] = "none"} :
            /\ dom' = [v \in VM |-> IF v \in blank THEN "on" ELSE dom[v]]
            /\ disk' = [v \in VM |-> IF v \in blank THEN "blank"
                                     ELSE IF v \in half THEN Part(disk[v])
                                     ELSE disk[v]]
    /\ EndRun("failed")
    /\ dyn' = {}
    /\ UNCHANGED <<mine, down, lost, fresh, cleans>>

HostStep(h, v) ==
    \/ VirtInstall(h, v) \/ WaitSSH(h, v) \/ Shutdown(h, v) \/ Convert(h, v)
    \/ CleanShutdown(h, v) \/ Undefine(h, v) \/ Unlink(h, v)

HostFault(h, v) ==
    \/ VirtInstallFails(h, v) \/ WaitSSHFails(h, v) \/ ShutdownFails(h, v)
    \/ ConvertFails(h, v) \/ CleanShutdownFails(h, v)

PlayEnd == EndInstall \/ EndSoftware \/ EndSave \/ EndClean

Progress ==
    \/ \E h \in Host, v \in VM : HostStep(h, v) \/ WaitSSHFails(h, v)
    \/ \E v \in VM : Software(v) \/ SoftwareFails(v)
    \/ PlayEnd

Next ==
    \/ StartCreate \/ StartClean \/ Kill \/ PlayEnd
    \/ \E h \in Host, v \in VM : HostStep(h, v) \/ HostFault(h, v)
    \/ \E v \in VM : Software(v) \/ SoftwareFails(v) \/ GuestInstalls(v)

Spec == Init /\ [][Next]_vars

\* Every task ends, and the user runs make again until phase 1 is completed.
FairSpec ==
    /\ Spec
    /\ WF_vars(Progress)
    /\ WF_vars(last # "created" /\ StartCreate)

-------------------------------------------------------------------------------
(* Properties.                                                             *)

TypeOK ==
    /\ dom \in [VM -> {"none", "off", "on"}]
    /\ disk \in [VM -> {"none", "blank", "bare", "half", "full"}]
    /\ qcow \in [VM -> {"none", "torn", "bare", "half", "full"}]
    /\ play \in {"idle", "install", "software", "save", "clean"}
    /\ mine \in [Host -> SUBSET VM]
    /\ work \in [Host -> SUBSET VM]
    /\ hpc \in [Host -> {"next", "ssh", "convert", "undefine", "unlink"}]
    /\ down \subseteq Host
    /\ dyn \subseteq VM
    /\ lost \subseteq VM
    /\ fresh \subseteq VM
    /\ last \in {"none", "running", "failed", "created", "cleaned"}

\* Whatever failed before, a run that succeeds leaves an image of every gold VM,
\* and the images it has saved itself hold all of the software.
CreatedImages ==
    last = "created" =>
        /\ \A v \in VM : qcow[v] # "none"
        /\ \A v \in fresh : qcow[v] = "full"

\* An image and the disk it was saved from never come apart: until makeclean, later
\* runs neither write the image again nor touch the VM's disk.
ImagesKept ==
    [][\A v \in VM : qcow[v] # "none" /\ play # "clean" =>
            qcow'[v] = qcow[v] /\ disk'[v] = disk[v]]_vars

\* No two hosts ever work on the same VM, and a run leaves no missing image out, however
\* the VMs divide over the hosts.
EachOnce ==
    \A v \in VM :
        /\ \A g, h \in Host : v \in mine[g] \cap mine[h] => g = h
        /\ play = "install" /\ qcow[v] = "none" => \E h \in Host : v \in mine[h]

\* However runs and makecleans have failed, once tasks stop failing running make
\* again completes phase 1, unless a failed virt-install has left a domain whose
\* system never gets installed.
Converges == <>[](\A v \in VM : disk[v] # "blank") => []<>(last = "created")

===============================================================================

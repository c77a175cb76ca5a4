# TLA+ verification of terraform-provider-virtualbox

TLA+ specifications of the Terraform provider for VirtualBox, the TLC runs that
check them on small instances, and theorems that TLAPS proves for every value
of the constants. Paths are relative to the repository; `crud` stands for
`internal/provider/resource_vm_crud.go`, `helpers` for `resource_vm_helpers.go`,
`network` for `resource_vm_network.go`, all in `internal/provider/`.

## 1. The system

The provider is one Go process that Terraform Core starts for a plan or an
apply and ends after it. Core calls its handlers concurrently, ten resources at
a time by default. A handler runs `VBoxManage` commands one after the other and
keeps nothing in the process but a mutex and a slice of defaults. What lasts is
elsewhere: the Terraform state (written by Core from what a handler returns),
VirtualBox's registry of VMs, media, snapshots and networks, and files under
`~/.terraform/virtualbox` and in the working directory.

| Component | State | Operations | Hard behaviour |
|---|---|---|---|
| Image cache and disk cloning (`image.go`, `helpers`, `crud` 189-267) | downloaded archives, gold directories, `imageOpMutex` | fetchIfRemote, unpackImage, gatherDisks, sethduuid, cloneHD | concurrent creates share files; the mutex covers some steps only; partial unpacking; kills |
| VM lifecycle (`crud`, `vbox_ops.go`, `helpers`) | Terraform state of `virtualbox_vm`, VirtualBox's VMs | Exists, Read, Create (image, OVA, linked clone), Update, Delete | errors and kills between two commands; asynchronous power-off; users who change VMs; names and UUIDs |
| VM configuration and read-back (`crud`, `network`, `resource_vm_shared_folders.go`, `resource_vm_customize.go`, `vbox_ops.go`) | configuration, stored attributes, the VM's settings | modifyvm and the settings after it, resourceVMRead | updates that stop half way; attributes set only sometimes or never read back |
| Readiness wait and guest network data (`helpers` 41-70, `network` 266-381) | none of its own | waitUntilVMIsReady, waitForVMAttribute, netVboxToTf | timeouts that are swallowed; guest properties that are not there yet |
| Default boot order (`helpers` 90-103) | `defaultBootOrder`, a package variable | tfToVbox | one VM's setting becomes every other VM's default; handlers race on the slots |
| Disk (`resource_disk.go`) | media by path | create, read, resize, delete | deleting a VM takes attached media along; a running VM locks them; any failed read drops the disk from the state |
| Snapshot (`resource_snapshot.go`) | snapshots by UUID | create, read, update, delete | UUID found again by name |
| Host-only network (`resource_hostonly_network.go`) | an interface and its DHCP server | create, read, update, delete | two objects kept in step, each command may fail |
| NAT network (`resource_nat_network.go`) | a network and its rules | create, read, update, delete | rules replaced one by one, by the names in the state, of which some are never read back |
| VM export (`resource_vm_export.go`) | an exported file | create, read, delete | deletion by prefix, disks of the same apply included |
| Data sources (`data_source_*.go`) | none | parse `VBoxManage list` | - |
| VBoxManage calls (`vbox_ops.go`) | path of the binary | one function per command | VirtualBox reports errors on stderr |
| Driver package (`internal/vboxmanage`) | none | a second set of commands | no resource uses it |
| Provider, schema, server (`main.go`, `provider*.go`, `resource_vm.go`) | none | registration, validation | - |
| vagrant2terraform (`cmd/`) | none | text conversion | - |

Interactions: Core calls the handlers of one resource in sequence (refresh,
plan, then create, update or delete) and those of different resources
concurrently; they meet in the image cache, in the mutex, in the default boot order, in
VirtualBox's name spaces, and in files that several resources work on: a disk, the VM
it is attached to, and an export beside it. What a handler returns decides what Core stores: a failed create
stores nothing unless `SetId` was called (then the resource is tainted), a
failed update stores the *planned* attributes, a failed read or delete changes
nothing, `SetId("")` drops the resource.

What makes each component correct:

- **Image cache**: one create at a time unpacks or clones, on error returns
  too; an image's directory holds that image's members and all of them; a VM
  gets every disk of its image and no other; a directory someone relies on does
  not change; every create ends.
- **VM lifecycle**: a VM the provider made is either in the state, in the hands
  of a create, or reported by an error; the state drops a VM only when it is
  gone; no two resources manage one VM; success means the VM exists, runs and
  its settings were made; what a failed update left undone is done by a later apply.
- **VM configuration**: a successful apply has applied every attribute; a
  second apply changes nothing; a failed one is visible to the next plan;
  lists (rules, folders, adapters) are replaced.
- **Disk, snapshot, networks, export**: the ID in the state names the object
  the resource made; a failed create leaves nothing; a failed read forgets
  nothing; a delete removes what the resource made and nothing else.

The places where these can go wrong, line by line, are the `hazards` of
`PROJECT.json`.

## 2. The modules

| Module | What it is |
|---|---|
| `ImageCache` | creates that obtain disks from images, up to the last clonehd |
| `ImageCacheProofs` | its theorems |
| `VMLifecycle` | `virtualbox_vm` from the first plan to the last destroy |
| `VMLifecycleProofs` | its theorems |
| `VMConfig` | what create, update and read do with the settings of one VM |
| `VMConfigProofs` | its theorems |
| `Snapshot` | several `virtualbox_snapshot` of one VM |
| `SnapshotProofs` | its theorems |
| `HostonlyNetwork` | one `virtualbox_hostonly_network`: the interface and its DHCP server |
| `HostonlyNetworkProofs` | its theorems |
| `NATNetwork` | one `virtualbox_nat_network` and its port forwarding rules |
| `NATNetworkProofs` | its theorems |
| `Disk` | the handlers of `virtualbox_disk` |
| `HostFiles` | several disks, a VM that has them attached and an export of it, apply after apply (extends `Disk`) |
| `HostFilesProofs` | its theorems, and what follows from the contract of `ManagedResource` |
| `BootOrder` | the package variable `defaultBootOrder` as memory of concurrent handlers |
| `BootOrderProofs` | its theorems |
| `ManagedResource` | the contract that `VMLifecycle`, `Snapshot`, `HostonlyNetwork`, `NATNetwork` and `HostFiles` implement |
| `MCImageCache`, `MCVMLifecycle`, `MCVMConfig`, `MCSnapshot`, `MCHostonlyNetwork`, `MCNATNetwork`, `MCHostFiles`, `MCBootOrder` | instances for TLC |

They divide the work of a create: `ImageCache` ends where a VM has its disks;
`VMLifecycle` takes making a VM as one step that may fail, and follows the VM
and the state; `VMConfig` follows one VM's attributes through the sequence that
is the single step `Settings` of `VMLifecycle`. `BootOrder` looks into the one part of that step
that handlers of different VMs share, tfToVbox and modifyVM. `HostFiles` composes what the others take
apart: handlers of three resource types in the order Terraform gives them. `Snapshot`,
`HostonlyNetwork` and `NATNetwork` stand beside these: they share nothing with a VM but, for a snapshot, the VM itself, whose
disappearance is one of the ways in which a list fails. Definitions whose
comment begins with "Mutant" are plausible bugs, each the modification of one definition, that
the property named for it in `PROJECT.json` detects; no specification uses them.

### ImageCache

`pc[c]` is the place of create `c` in resourceVMCreate; every action is one
command, one block of a download, or one acquisition of `imageOpMutex`.

| State | Code |
|---|---|
| `files` | archives in the working directory, at the last element of the URL's path (`helpers` 168) |
| `gold` | `gold/<sha of the image address>` (`crud` 209-223) |
| `mutex` | `imageOpMutex` (`crud` 226, 261) |
| `todo` | what gatherDisks returned |
| `registered`, `vmdisk` | what VirtualBox and the VM's folder hold |

An archive is `N` blocks and a block is the image it came from, a hole, or junk
from an error page (the HTTP status is not looked at). This is enough to tell a
truncated, mixed or foreign file from a good one. tar is tried up to `Tries`
times, as in the code's list of flag sets; it extracts member by member from
the file as it is at that moment. A kill (`Crash`) or a second apply starts
every unfinished create again in a new process: files, gold directories and
registered VMs stay, the mutex does not. The compression format of an archive,
the text of a name and the disk UUIDs are left out. The scheme http(s) is
all that makes an image remote.

### VMLifecycle

A step is one VBoxManage command. `vms` is VirtualBox's registry, by UUID; `id`,
`tainted`, `status`, `dirty` are what Terraform stores; `op`, `step`, `handle`
say where each handler is. `current` says that a handler has run all its commands for the
configuration as it is now; what these commands leave out, or leave as it was, is the subject of `VMConfig`.
`rules` says that the VM has a port forwarding rule of a configured name, which VirtualBox refuses to add again:
a VM of a resource in `Forwarding` is refused its settings at every update (`RuleRefused`), and stays off. `lost` is
history: an update failed while the VM ran with older settings, so that the state has a configuration nobody has
applied. `Unstable` names the resources whose configuration is never read
back as written (see `VMConfig`). Powering off is asynchronous: `PowerOff` makes
a VM "stopping", `Settle` ends it, and `Wake` (the three seconds of `time.Sleep`)
does not wait for it.

Terraform itself is external: `StartApply`, the three `Plan...` actions and what is stored
after an error follow the rules of section 1. `Exists` and `ExistsFails` show a
consequence of a detail in `vbox_ops.go`: VBoxManage writes "VBOX_E_OBJECT_NOT_FOUND"
to stderr and getMachine looks for it in stdout and in the text of the error,
so "does not exist" is always an error.

### VMConfig

The attributes of a VM fall into the few kinds that the code treats alike, and one of each is modelled:

| Attribute | Treatment | Others like it |
|---|---|---|
| `memory` | set by every handler; read back as humanize.IBytes prints it (`Printed`) | `cpus`, which is printed as it is written |
| `vram` | set by every handler, never read back | `os_type`, the hardware flags, `graphics_controller` |
| `firmware` | set when it is not the default, never read back | `cpu_execution_cap`, `promiscuous_mode`, the NAT DNS settings, `nested_hw_virt` (which an update sets always) |
| `chipset` | the same, but not by the creates from an OVA and by a linked clone | `clipboard_mode`, `drag_and_drop`, `usb_controller`, `serial_port`; `user_data` (not by the clone) |
| `nics` | set slot by slot; read back without device, rules and DNS settings | |
| `rules`, `folders` | added one by one, never read back | |
| `boot` | whether all four slots are listed; VirtualBox always has four | |

`stage` walks through resourceVMUpdate. The three creates run the same commands in the same order, but none
of them removes shared folders, and those from an OVA and by a linked clone go from the folders to startvm. The VM
they begin with has settings, adapters, rules and folders of its own (`Sources`). After startvm comes the last read
(`FinalRead`), which may fail with the VM running: the plan is stored by then, in part overwritten by what the
wait before it has read, and a new resource is tainted (`FinalReadFails`, `Replace`).

`known` says whether the stored adapters are those of the
configuration or those that netVboxToTf made up from the VM (no device, no
rules, no DNS settings). `quiet` is the early `return nil` of netVboxToTf, for a guest that reports
its adapters but not their addresses, which leaves the stored adapters alone.

Two variables are history, and make precise what the code loses. `loose` names the settings, adapters, rules and folders that no
handler is bound to bring in line: what was taken out of the configuration (or set back to the default), what came
with an OVA or a cloned VM, what these two creates leave out, and what a user changed where no refresh looks. A command that
sets one of them ends it. `lost` is that of `VMLifecycle`: an update whose getMachine failed, or whose power-off failed so
that modifyvm met a locked VM, has stored the new configuration while the VM runs with the old one; or a user started a VM that a
failed update had left off.

### Snapshot

A step is one VBoxManage command, with the choice Terraform makes after it. `snaps`
are the snapshots of the VM, numbered as they are taken; `maker` and `lapses` are history, for
the properties. `id` is the stored UUID; the description need not be stored, because every
refresh reads it. `handle` is the ID that a create has set and not returned yet.

The code never learns the UUID of what it has taken: `Find` takes the first of the
name in the list. `ReadMissing` is both "deleted outside of Terraform" and any failure of the list;
either drops the resource, and a wanted one is taken again at once. The list is taken to number
snapshots -1, -2, ... as the comment of listSnapshots says; VBoxManage numbers the children
of a child -1-1, which this code would not find. `live` and imports are left out.

### HostonlyNetwork

`ifs` and `servers` are VirtualBox's two objects, by the number in the name vboxnet*N*, the
least free one at each create. `stored` are the attributes in the state, `want` those of the
configuration; `step` walks through the commands that create and update share, or through the two of a destroy. What
is read back is in `ReadBack`: the address, IPv6 only when the interface has one, whether there is a server, never
its range. That is why an update of a range or of IPv6 that failed is lost, as is the server's own address when
`ipv4_address` changes; `AsConfigured` leaves the three out. `Fails` is what Core stores after an error.

A netmask goes with its address and a prefix with its IPv6 address; the two
ends of a range are one value. The line "DHCP:" of `list hostonlyifs` is taken, as in the code, to
say whether the network has a DHCP server.

### NATNetwork

`net` is the network of the configured name with the rules VirtualBox has for it, `stored` the attributes in the
state, `want` the configuration. A create is `Add`, then `AddRule` for each rule; an update is
`Modify`, `DropRule` for each rule *of the state*, then `AddRule` for each of the configuration; `todo` are the rules
the running loop still has. Their order does not matter to what is left, and is not kept: rules are sets here, so that a list read back
in another order than the configured one, which Terraform takes for a difference, is none in the model. VirtualBox knows a rule by its name, so
that `DropRule` removes what has the name and `Acceptable` refuses one whose name is taken.

`ReadBack` is parseNATNetworkList: the attributes always, the rules only when a line passes its test, and a tcp
rule passes it only with leading blanks, which the line has been stripped of at 279; `Readable` are the others. When nothing is
found the stored list stays. A network that is not there is recognised by "does not exist"
in stdout or in the Go error, and VBoxManage prints it to neither, so that `ReadFails` never drops the
resource. `unseen` is history: rules were changed where the next refresh does not see it.
CIDR, DHCP, IPv6 and enabled go through the same code and are one value.

### Disk and HostFiles

`Disk` has the four handlers of one resource type, every action with the disk as its
parameter; `media` is VirtualBox's media registry (a size, and whether the file is there: a medium whose
file is gone stays registered), `stored` the size in the state. `attached` and `locked` are parameters of the
actions, because they depend on a VM that is not `Disk`'s.

`HostFiles` adds that VM (`vm`, with the media attached to it and whether it runs), an export (`file`), and Terraform's
apply: `StartApply` refreshes every resource of the state, `Plan` decides once, from what the refresh saw, what each
resource gets, and `Before` is the order that the references of the configuration impose
(VM after its disks, export after its VM, destroys the other way round). Between `Plan` and a handler
the world can change, by a user or by another handler of the same apply: `DeleteVM` takes the media of the
VM along (`unregistervm --delete`), `DeleteExport` every file whose name begins with that of an .ovf export
(`Prefixed`). `lost` are the disks this happened to in the running apply. Handlers of
resources without an order between them interleave.

The disks of `disk_attachment` are those configured when the VM is made: a change of the list forces no new VM, and
resourceVMUpdate does nothing about it. Of the updates of the VM only the one that starts it again is here (`UpdateVM`);
the others change nothing the disks depend on. `format` and `variant` force a replacement like a new path and are left
out, and so is the import.

### BootOrder

`defaultBootOrder` is one slice for the whole process. tfToVbox (`helpers` 98) lets the machine's boot order
*be* that slice and writes the configured devices into it; modifyVM reads all four slots. The handlers of
different VMs do this concurrently and without a lock, which is a data race. A Go string is two words (pointer and length), and the
race may tear it: `WriteWord` and `ReadWord` move one word at a time, in either order. A reader that finds
the text of one device with the length of another asks VirtualBox for a device that does not exist
(`Whole`), or, when the lengths are equal, for one nobody configured there.

`boot` is the order a VM was given in this process; `NewProcess` is the end of an apply, or a kill. `raced` and `ran` are history, for the
properties: which handlers ran at the same time as this one, and which ran at all.

### ManagedResource

What Terraform and its users rely on, whatever the resource: an object is made only for a resource that has none in the
state; only a create that made something stores an ID, and never that of an object that somebody else made; the state
lets go of an object only together with it or after it. `made` says who made what is there, `known` what the state names,
`making` whose create has made something and not returned. An object whose create
failed stays in `made` and is not known: that is the leak every resource of this provider has, and the contract admits it.

`Contract` in each of the five modules is the refinement mapping, `KeepsContract` the claim. The interesting parameter is
`MayLapse`, the resources that may drop an object that is still there: empty for VMs and networks, whose reads return errors,
and everything for snapshots and disks, whose reads take any failure for "gone" (`resource_snapshot.go` 108,
`resource_disk.go` 110). The mapping of VMs and snapshots needs names that are the resources' own, as their finding by name does.

## 3. The runs

| Run | Instance | Shows |
|---|---|---|
| `ImageCacheFaults` | 3 creates, 2 remote images with file names of their own, every fault, one restart | MutualExclusion, GoldFrozenInUse |
| `ImageCacheShared` | 2 creates of one local image and one that downloads another, downloads and VBoxManage may fail, one more apply, fairness | UnpackedIsWhole, BuiltFromItsImage, EveryCreateEnds |
| `ImageCacheSameURL` | 2 creates of one remote image | UnpackedIsWhole is violated |
| `VMLifecycleFaults` | 2 resources, 2 names, 3 UUIDs, one with a port forwarding rule, every fault and user action, 4 troubles | NoSilentLeak, OkMeansSetUp, KeepsContract, ForgottenOnlyWhenGone |
| `VMLifecycleRepair` | 2 resources that ask for one name, every command fault, users who power off, kills, 4 troubles, fairness | NoSharedVM, UpdatesAreCompleted |
| `VMLifecycleGone` | 1 resource, a user deletes its VM, fairness | GoneIsForgotten is violated |
| `VMConfigApply` | 3 ways to create, 2 VMs to begin with, 3 memories of which one is printed as another, 2 levels, 2 adapters, 1 rule, 2 folders, 4 troubles, every command may fail | OkMeansApplied, PlanSettles, FailedUpdateIsVisible |
| `SnapshotRetry` | 2 resources and users with names of their own, 2 descriptions, every fault, 3 troubles, fairness | HoldsItsOwn, SurplusHasACause, KeepsContract, Converges |
| `HostonlyNetworkRepair` | 2 addresses, 1 IPv6 address, 1 range, 4 interface names, every fault, 3 troubles, fairness | OkMeansConfigured, NoSilentLeak, KeepsContract, Converges |
| `NATNetworkRepair` | 2 attribute values, a tcp rule and two udp rules of one name, 6 lists, every fault, 4 troubles, fairness | OkMeansConfigured, KeepsContract, Converges |
| `HostFilesApply` | 2 disks, 2 sizes, a VM, an export whose prefix one disk has, every fault and user action, 3 troubles, fairness | OkMeansConfigured, KeepsContract, Converges |
| `BootOrderShared` | 3 VMs, 3 devices of two lengths, 2 slots, lists of no, one and two devices | SlotsAsConfigured, RefusedOnlyInARace |

The bounds. *Creates*: two suffice for every race on a file or the mutex; the
third has another image, so that an uninvolved create waits for the same mutex. *N = 2*
blocks: the least with a partial file and a partial directory. *Tries*: four in
the code; two in the large run, because a third adds only a repetition of the
second. *Restarts*: one, which is enough for what an earlier process left to
meet a later one. *UUIDs*: three for two resources, so that a VM left behind, its
replacement and a neighbour exist at once; a make that finds none left fails like any
other. *Trouble*: faults, edits and user actions together; four allow an edit,
a failure of its update, a failure of the repair and one more, in any
order. In `Snapshot`, `HostonlyNetwork` and `HostFiles` three do: an edit, a failure of its update, and a kill or a user in
the middle of the repair. *Rules*: the least with a rule that is never read back, one that is, and one that has the
name of another. *Disks*: one that the export's prefix takes along and one it does not. *VMs of `BootOrderShared`*: three, because
two racing handlers can leave a slot torn for a third that overlaps with none. *Slots*: two instead of four, one that a short list sets and one it leaves open; a
slot is never used to compute another. *Devices*: two of one length and one of another. Levels: the default and one other. *Interface names*: one more than there are
troubles, so that names run out only when a configuration has no range and each apply leaves an interface behind
(VirtualBox has a limit too).

What the passing runs leave out on purpose:

- OkMeansSetUp, OkMeansApplied, FailedUpdateIsVisible and UpdatesAreCompleted except the updates that failed with the VM running (`lost`):
  there the code does take an update that was not made for done. The runs have these failures, and the properties say what
  holds in spite of them: the exception ends with the next update that comes to its end, and a resource of `Unstable` is
  updated again all the same.
- OkMeansApplied excepts what is `loose`, and only that. UpdatesAreCompleted is about resources without a port forwarding
  rule; one that has a rule is refused at every update (section 4).
- `VMLifecycleRepair` has no user who deletes VMs. With one, and two resources of one
  name, the VM a linked clone looks up by name may be the other resource's.
- `VMLifecycleFaults` and `SnapshotRetry` claim KeepsContract with names of their own, and so does `HostFiles`, where a path is a disk's name.
- OkMeansConfigured of `NATNetwork` says nothing of rules that an update has replaced or a user removed unseen (section 4), and
  that of `HostFiles` excepts the disks whose medium went with a VM or an export in the very apply that reports success.
  Converges of these two modules names the ends that no apply gets out of, among them a network that a failed create left, a medium
  in use that is to be resized, and a VM that a failed create left.
- `SnapshotRetry` gives resources and users names of their own. Where two share one, a create
  adopts the other's snapshot, and HoldsItsOwn is false.
- `ImageCacheFaults` gives images file names of their own, and `ImageCacheShared` has
  one create for each image that is downloaded and no faults of tar; without the last two, UnpackedIsWhole and BuiltFromItsImage are false,
  as `ImageCacheSameURL` shows; two images of one file name mix (section 4).

Fairness. `EveryCreateEnds`: weak fairness of each create, that is, the Go
scheduler runs a goroutine that can run, VBoxManage and tar return, and
`sync.Mutex` hands the lock to a waiter after a millisecond (a waiting create
is not enabled while others hold the mutex; creates take it a bounded number of
times, so weak fairness is enough). `UpdatesAreCompleted` and `GoneIsForgotten`:
weak fairness of each resource's handler, of VirtualBox ending a power-off that it
began (`Settle`), and of `StartApply`, that is, the user runs apply again; an apply that
is never run repairs nothing. `Converges` of `Snapshot`, `HostonlyNetwork`, `NATNetwork` and `HostFiles`: the same, for
the handlers (in `HostFiles` for the apply as a whole, which ends because every handler does). No fairness is assumed of faults, edits or users.

Deadlock is checked in all runs but `SnapshotRetry`, `HostonlyNetworkRepair` and `NATNetworkRepair`, where a resource that
is in neither the configuration nor the state leaves nothing to be done. The image model ends in a stuttering step
once every create has ended and no restart is left; the models of a VM never stop, nor do `HostFiles` and `BootOrder`.

## 4. Where code and documents disagree

Two disagreements have a violation run each.

1. **Two creates of one URL** (`ImageCacheSameURL`). `image.go` 45 takes a non-empty directory
   for an unpacked one. The second download truncates the archive while tar
   reads it for the first; the members that were extracted stay, and every later create uses them.
2. **A VM deleted by hand** (`VMLifecycleGone`). `crud` 526 means to clear the ID; getMachine
   never returns ErrMachineNotExist, and every refresh fails.

The others are what the models do, and what the properties had to except.

3. **Two URLs with one file name.** `crud` 228 says that the
   hashed gold directory "prevents conflicts when different URLs have the same
   filename"; the download path (`helpers` 168) is not hashed, so the archives
   replace each other and a gold directory gets the other image. `FileOf` would let two images share a file; no run has such a
   pair, and `UnpackedWhole` and `BuiltWhole` assume that there is none (`OwnFileNames`).
4. **Perpetual differences.** The guide for migrating from terra-farm says "The plan should
   show no changes for existing resources", and of memory "apply it once and it will be stable" (line 65). A refresh stores four boot slots,
   adapters without device and rules, and memory as humanize.IBytes prints it ("1024mib" becomes "1.0gib"), and every apply powers the VM off to set
   them again. PlanSettles says for exactly which configurations this does not happen: those that list four boot
   devices and write memory as it is printed, on a VM without adapters. The perpetual update is also what repairs many failed ones.
5. **Port forwarding of a VM.** "first delete all existing, then add new"
   (`network` 168): `--natpfN delete all` deletes a rule called "all". An update of
   a VM with a rule fails with the VM powered off, and so does the next (`DeleteRules`, `AddRulesRefused` of `VMConfig`, `RuleRefused` of `VMLifecycle`).
   A rule that was taken out stays.
6. **Shared folders, and settings that stay.** "remove old, add new" (`crud` 629) removes those of the *new* configuration
   (`resource_vm_shared_folders.go` 43), so that one that was taken out stays on the VM (`RemoveFolders`). A setting whose default is
   wanted again stays too (`Applied`), and so does an adapter beyond the configured ones (`Modify`). The creates from an OVA and by a linked clone report success without
   chipset, USB, clipboard and serial port settings (`AddFolders`, `crud` 61-97 and 142-173); the next update makes them.
7. **A disk whose file is gone.** "If the file is already gone (e.g. VM delete cleaned it up), that's fine"
   (`resource_disk.go` 160): the text that line 162 looks for is on stderr and the error is "exit status 1", so that the destroy
   fails; it is the next refresh that drops the disk (`DeleteDiskFails`, `ReadDiskGone`).
8. **Rules of a NAT network.** Of a list with tcp and udp rules only the udp rules are read back. The next apply
   deletes these, is refused on the tcp rule, which is still there, and stores the planned list;
   the one after it finds no rule, keeps the stored list and reports success without the udp rules.

Two more things the models of this section show without a document to deny them. Destroying only the VM leaves
configured disks in the state without media, in an apply that succeeds; replacing a VM that has disks attached therefore
fails on `storageattach` and leaves a VM of that name. And resizing a disk of a running VM fails at every apply.

## 5. What is proved

TLAPS checks every theorem below from its definitions and the named
assumptions on constants; sets of creates, images, resources, VMs, rules and
folders are arbitrary, and so are the bounds on faults and restarts.

**ImageCacheProofs** (assumes CreatesAssumption, ImagesAssumption, SizesAssumption)

- `TypeCorrect`: TypeOK.
- `MutexHolds`: MutualExclusion. It is not inductive: that two creates are not in critical sections says
  nothing about whom the mutex names. `HolderInv` says that a create is in
  one exactly when it holds the mutex, and is preserved by each action.
- `GoldIsFrozen`: GoldFrozenInUse, a directory on which a create relies does
  not change. It rests on `ReadyInv`: once any create is past unpackImage the directory is not
  empty, and then no create of that image is inside tar (this needs HolderInv: the one
  that leaves held the mutex).
- `UnpackedWhole`, `BuiltWhole`: UnpackedIsWhole and BuiltFromItsImage, when images have files of their own, no two creates
  download one image, tar does not fail by itself and nobody kills the provider (`Undisturbed`). None of the four can be left
  out: two creates of one URL violate UnpackedIsWhole (`ImageCacheSameURL`), and a tar that stops half way leaves a directory that
  the next apply takes for an unpacked one. Any number of creates may share a *local* image; downloads may break off or bring
  an error page, VBoxManage may fail at any call, and apply be run again. `FileInv`: the archive of a create that unpacks is whole or
  an error page, of which tar extracts nothing. `GoldInv`: a gold directory is empty, or whole, or some create is inside
  tar and has extracted exactly the members before its position; with HolderInv, whoever finds it non-empty finds it whole. `DiskInv`: of each disk of the image either the clone
  is done or the create still has it to do.

**VMLifecycleProofs** (ConfigAssumption, BoundsAssumption, NoneAssumption)

- `TypeCorrect`: TypeOK.
- `NeverForgotten`: ForgottenOnlyWhenGone. Only `Remove` clears an ID; that it clears the ID of the VM it
  removes needs `ShapeInv`, which ties operation, step, handle and ID together.
- `NeverShared`: NoSharedVM when names are the resources' own, users deleting VMs included, or when any resources
  ask for one name but no user deletes VMs (`Unambiguous`; with both it is false, see section 3). `HostInv` (names are unique
  among VMs, UUIDs are not given out twice) and `OwnInv` carry it: what two resources hold, by handle or ID, is disjoint and
  of their own making, and without user deletions the VM of a running create stays registered, so that whoever looks the
  name up finds that one. The second needs that a destroy only removes the VM of its own resource.
- `NeverLeaked`: NoSilentLeak, from ShapeInv, HostInv and the fact that a create can only let
  go of a VM by storing it or by failing.
- `ContractKept`: KeepsContract, under the same assumption. Each action is mapped to the contract's
  (`MakeVM` to Make, `Store` to Store, `Remove` to Remove, `CreateFails` and `Crash` to Abandon, the user to
  Vanish) or stutters; that what is stored was nobody else's needs the `OwnInv` of NeverShared.
- `OkIsSetUp`: OkMeansSetUp, under the same assumption; VBoxManage may fail at any
  command, users may stop VMs (and delete them when names are the resources' own), and terraform may be killed. `ForceInv` is the
  argument: a VM that runs, and whose configuration was not edited since it was stored, has its settings made, because
  an update that fails leaves it off (or else the resource is `lost`) and one that has made them starts it, so that a
  plan that sees a running VM and no difference may call it done.

**VMConfigProofs** (ConstantsAssumption, PrintedAssumption)

- `TypeCorrect`: TypeOK.
- `OkIsApplied`, `SettlesExactly`, `FailureIsVisible`: OkMeansApplied, PlanSettles and FailedUpdateIsVisible, whichever commands
  fail. The inductive invariant `ConfigInv` has five parts. `Leftovers`: what the VM has and the configuration does not ask for is
  loose. `Progress`:
  what each stage has put in force by the time a later one runs. `Power`: a
  handler past its first step has the VM off, and an error leaves it off, or has everything in force, or is recorded in `lost`. `InForce`:
  while no handler runs and the VM is on, what is *stored* is in force (up to what is loose). `Settled`: what a success has stored. InForce is what makes
  "No changes" safe: a failed update
  stores what it has not applied, but it leaves the VM off, and a plan that finds the VM off is
  an update.

**SnapshotProofs** (NamesAssumption, BoundsAssumption)

- `TypeCorrect`: TypeOK.
- `HoldsOwn`: HoldsItsOwn, when resources and users give names of their own (`OwnNames`). It is not inductive: that
  nobody holds a foreign snapshot now does not say that a new one cannot have a UUID somebody still knows, or
  that the first of a name is one's own. `OwnInv` adds that no UUID is given out twice (`UuidInv`), that those the resources know
  have been given out (`KnownInv`), and that a snapshot has the name its maker gives (`NameInv`).
- `ContractKept`: KeepsContract, from OwnInv and `Flow` (a create is of a resource without an ID, all else of one with an ID).
- `SurplusBounded`: SurplusHasACause, when names are the resources' own. `StrayInv` counts the snapshots of a
  resource that its state does not name: a lapse may add one, a take adds one that the create has to come, storing the UUID takes
  one away. That storing it does, and that a UUID names one snapshot and no more, is OwnInv. The sets are finite
  (part of StrayInv), and the library's facts about cardinalities do the rest.

**HostonlyNetworkProofs** (ConstantsAssumption, NoneAssumption, ObjectsAssumption)

- `TypeCorrect`: TypeOK, together with `Flow`, which says what each step works on.
- `NothingLostSilently`: NoSilentLeak. An interface is made by `Make` alone, whose name is not taken, and is dropped from
  `handle` only into `id`, or by an error or a kill.
- `SuccessMeansConfigured`: OkMeansConfigured, after any edits and failures. It rests on `AddressSet` (the address is that of
  the state until ipconfig has run, then that of the configuration) and `ServerSet` (an update begins with a state that knows whether there is a server:
  it has just been refreshed, and nothing between the refresh and the update changes it but a user, whom `touched` records).
- `ContractKept`: KeepsContract.

**NATNetworkProofs** (RulesAssumption, BoundsAssumption, NoneAssumption)

- `TypeCorrect`: TypeOK; `ContractKept`: KeepsContract.
- `SuccessMeansConfigured`: OkMeansConfigured. `RulesKnown` says that the state knows only rules that are there, unless something happened
  unseen; without it a refresh that finds no rule, and keeps the stored list, could report success on rules long gone.
  `AttrsSet` and `RulesSet` say what is in force at each step.

**BootOrderProofs** (BootAssumption)

- `TypeCorrect`: TypeOK.
- `OnlyOthersInterfere`: SlotsAsConfigured, for any number of handlers, devices and slots. `BusyInv` says that handlers which run at
  once know of each other, `MemoryInv` where what is in memory can come from, `Legal` what a handler may find in the slots it has
  been through: in a slot it wrote only its own device or that of one it races with.
- `TearsNeedOverlap`: RefusedOnlyInARace. `TearInv`: without overlaps every slot is whole but the one a handler is in the middle of,
  and what a handler has read is whole.

**HostFilesProofs** (DiskAssumption, PartsAssumption, NoneAssumption; the theorems about the contract assume nothing)

- `TypeCorrect`: TypeOK.
- `OkIsConfigured`: OkMeansConfigured. What an apply reports at its end is about resources whose handlers ended long before, while others
  went on working on the same files, so the invariant `ApplyInv` says for each resource what holds at each of
  its steps. `Phase` orders them: everything is refreshed before anything is planned, and planned before anything is
  done. `DiskInv` of a disk that is done and has not failed is the conclusion for that disk: as configured, or its
  medium went with the VM or the export, unless a user has touched something. That this survives the other handlers is what the steps `DeleteVM` and
  `DeleteExport` have to show. `VMInv` and `ExportInv` do the same for the other two, and need the order of `Before`: the VM
  goes only after its export, the export is made only after the VM.
- `ContractKept`: KeepsContract for the media of the disks. `CreateDisk` is Make, `CreatedDisk` Store, `DeleteDisk` Remove,
  a failed read Forget, `CreatedDiskMissing` and `Crash` Abandon; users, `DeleteVM` and `DeleteExport` are Vanish; the
  rest stutters, which for `ReadDisk`, `ResizeDiskFails` and `CheckDisk` needs DiskInv (the state has the disk).
- `NamesOnlyItsOwn`, `NamesAtMostOne`: what any implementation of `ManagedResource` has for nothing: the state never names an object
  that somebody else made, and never two. With `ContractKept` they hold of each module that keeps the contract.

Every safety property and every refinement that a passing run checks is proved. Only model-checked is
what is temporal under fairness (EveryCreateEnds, UpdatesAreCompleted, Converges, and the refutation of
GoneIsForgotten): liveness is beyond the proof system.

## 6. What is not modelled, and the plan

Left out for good: parsers and converters without state (data sources,
vagrant2terraform, cloud-init templates), schema and registration, the unused
driver package and `image.verify`, and anything a VM does beyond running and reporting addresses.
VirtualBox is modelled by what the code relies on: unique names, a lock on a running VM, refusal of
names it has. The default adapter of a new VM is not modelled. The order in which two creates rewrite the UUID of one gold disk
is not either (whether VirtualBox then refuses the clone is not decided by this code).

Partly modelled. The wait for a VM (`helpers` 41-70, 105-149) appears only by its outcome, because every error
of it is swallowed and nothing is stored in it. netTfToVbox's validation of adapters is left out; of it one defect is
known from reading: an invalid adapter type is forgotten when the device after it is valid (`network` 61). How
humanize.IBytes prints is the constant `Printed`, of which the models need only that what was printed once is printed the same again. The media that
a create from an image attaches beside the gold disks (optical disks, additional controllers) are left out but for `disk_attachment`.

Left for later:

1. The pure functions (order of disk files, sizes as they are printed and parsed, the polling loop of the wait) over
   bounded inputs against reference definitions. They keep no state, and a unit test reaches most of them.
2. A composition of `ImageCache` with `VMLifecycle`, so that a create that a kill ended meets its own
   gold directory and its own VM at once. Each half is checked with kills; together they exceed the bounds that are useful.

# TLA+ models of darwin_env

This directory holds TLA+ models of the parts of `src/` that have behaviour a
model checker can explore. There are two systems:

1. **The vnode authorization engine** (`src/xnu/bsd/vfs/vfs_subr.c`), which `spec.md` describes:
   - the attribute-snapshot authorizer `vnode_attr_authorize` and its helpers;
   - the directory-clone authorizer `vnode_attr_authorize_dir_clone`.
2. **InterfaceNamer** (`src/configd/Plugins/InterfaceNamer/ifnamer.c`). This
   configd plugin gives network interfaces persistent BSD unit numbers (en0,
   en1, ...). The assignments live in a database (`NetworkInterfaces.plist`).
   It is driven by IOKit notifications and a run-loop timer.

The other files under `src/` are headers: declarations and constants, with no
operations (see "Not modelled").

## Inventory

### Vnode authorization engine (vfs_subr.c)

| Component | State | Operations | Modules |
|---|---|---|---|
| Rights & Flags model | none | the rights/flag vocabulary; `View`, the snapshot the helpers see | `VfsRights` |
| Immutability Gate (spec 4.2) | none | `vnode_authorize_checkimmutable` | `VfsRights` |
| Discretionary Authorizer, Delete-Rights Resolver (spec 4.3, 4.4) | none | `vnode_authorize_simple`, `vnode_authorize_delete` | `VfsRights` (from spec.md, their bodies are not in the extract) |
| Top-Level Gate (spec 4.6) | per call: wanted/supported attribute sets, local `rights`, `is_suser`, `found_deny`, `result` | `vnode_attr_authorize_init`, the filesystem getattr, the blocks of `vnode_attr_authorize` and `vnode_attr_authorize_internal` | `VfsAuthorize`, abstract `VfsDecision` |
| Directory-Clone Inheritor (spec 4.5) | per clone: the vap/dvap active and supported bits, vap's values | OP_VATTR_SETUP, filesystem getattr, OP_AUTHORIZE, OP_VATTR_CLEANUP | `DirClone` |

How the parts interact:
- The caller first calls `vnode_attr_authorize_init` to learn which attributes to fetch.
- It then fetches them (VNOP_GETATTR) and calls `vnode_attr_authorize`.
- `vnode_attr_authorize` runs the read-only, noexec and superuser checks, then calls `vnode_attr_authorize_internal`. That function runs the immutability checks of the object and the parent, then either the discretionary helpers or the root execute check.
- `dir_clone` is called three times by the filesystem. Its AUTHORIZE call runs `vnode_attr_authorize` on the prepared vap, then rewrites owner, group and flags.

The hard behaviours are:
- the fixed order of early exits;
- attributes the filesystem does not return: panics, and reads of uninitialized fields;
- the NULL parent snapshot;
- the protocol across the three dir_clone calls.

Properties:
- the decision equals spec 4.6's decision (refinement);
- immutability beats privilege;
- every call is answered;
- clone owner, group and flags follow spec 4.5;
- no NULL dereference.

### InterfaceNamer (ifnamer.c)

All callbacks run on one run-loop thread (`exec_InterfaceNamer` ends in
`CFRunLoopRun`). IOKit and the kernel act concurrently: interfaces attach, the
registry goes busy and quiet, and the IONetworkStack appears.

| Component | State | Operations |
|---|---|---|
| Unit naming | `S_iflist`, `S_dblist`, `S_prev_active_list`, the kernel's unit of each interface | `updateInterfaces`, `nameInterfaces`, `lookupInterfaceByAddress/ByUnit`, `lookupMatchingInterface` (+ `matchKnown`, `matchUnnamed`), `builtinCount`, `getHighestUnitForType`, `replaceInterface`, `insertInterface`, `registerInterfaceWith...` (retries up to 5 for known interfaces) |
| Event handling | `S_connect`, `S_quiet`, `S_timer`, `S_stack`, `S_iter` | `setup_IOKit`, `stackCallback`, `interfaceArrivalCallback`, `quietCallback`, `timerCallback` |
| Persistence | `NetworkInterfaces.plist` (Interfaces, Model) | `readInterfaceList`, `writeInterfaceList`, `previouslyActiveInterfaces`, `hw_model` |
| Platform UUID | IORegistry `IOPlatformUUID` | `updatePlatformUUID`, `compareMacAddress` |
| Virtual interfaces | `S_prefs`, `S_bonds`, `S_bridges`, `S_vlans` | `setup_Virtual`, `updateVirtualNetworkInterfaceConfiguration`, `update{Bond,Bridge,VLAN}InterfaceConfiguration` |
| Diagnostics | `S_state` timestamps | `addTimestamp`, `updateStore`, `reportIssue`, `captureBusy`, `iterateRegistryBusy`, `displayInterface` |

The hard behaviours are:
- callbacks in any order relative to IOKit events;
- new interfaces wait for quiet, and a timer replaces quiet when IOKit never settles;
- the stack appearing before or after the timer;
- registration failing and being retried;
- built-in interfaces taking reserved low units;
- a "dongle swap" inheriting the unit of an absent adaptor;
- the database keeping one entry per unit and per address;
- persistence across restarts and hardware-model changes;
- the MAC sort that picks the platform UUID.

## Modules and runs

### `VfsRights.tla`
Vocabulary and pure helpers. `vnode_authorize_checkimmutable`,
`vnode_authorize_simple` and `vnode_authorize_delete` are called by the code, but
their bodies are not in this source extract. They are written from spec.md
4.2-4.4 and marked `spec_modelled` in `PROJECT.json`. A snapshot is a record
`[type, mode, uid, gid, flags, acl]`. `View(vap, sup)` is what the helpers see
when the filesystem did not return `va_acl` or `va_mode`.

### `VfsDecision.tla` (abstract)
This is spec.md 4.6 as one atomic step: `Decide(c)` takes a request `c`, one of
`Calls`, and gives the errno the kernel returns. Statelessness (spec 5) is why
one behaviour is one call.

### `VfsAuthorize.tla` (detailed)
There is one action per block between two early exits of `vnode_attr_authorize_init`,
`vnode_attr_authorize` and `vnode_attr_authorize_internal`, in code order:
`vnode_attr_authorize_init`, `Getattr` (the caller's VNOP_GETATTR, which may omit
one attribute of `Droppable`), `CheckReadOnly`, `CheckNoExec`, `CheckSuser`,
`CheckImmutable`, `CheckParentImmutable`, `StripRights`, `AuthorizeDelete`,
`AuthorizeSimple`, `RootExecute`, `Convert`.

`pc` names the next block. `found_deny` starts as any boolean because the C
local is uninitialized.

Runs (`MCVfsAuthorize.tla`). The constants are:
- 14 actions: every right alone, and pairs mixing NOIMMUTABLE, DELETE, EXECUTE, write and LINKTARGET/ACCESS;
- regular file, directory and device;
- mode 0644/0755;
- each immutability flag;
- an ACL with an explicit deny and an allow;
- no parent, or a parent with or without SF_IMMUTABLE;
- rdonly/noexec mounts;
- owner, group member, stranger and root.

That is 53,760 calls.

- `vfs_authorize` (`MCVfsAuthorize.cfg`, pass) checks three properties:
  - `TypeOK`.
  - `ImmutabilityVeto`: no 0 result for an immutable object or, for delete, an immutable parent, even for root.
  - `RefinesDecision`: `VfsDecision!Spec` under the mapping "decision = result once pc = done". Every path of the code gives spec 4.6's answer.

  It reaches 636,592 states.
- `vfs_authorize_panic` (`MCVfsAuthorizePanic.cfg`, violation) sets `Droppable = {va_uid}`. Under weak fairness of the code steps, `EveryCallAnswered` fails: the code reaches `panic(...)` at vfs_subr.c:416. Spec 5 and 7 promise Deny(Invalid) instead.

### `DirClone.tla`
The three calls and the filesystem getattr between them: `Setup`, `FsGetattr`,
`Authorize`, `Cleanup`.
- `Authorize` uses `VfsDecision`'s `Decide` for the nested `vnode_attr_authorize`. That is sound because `VfsAuthorize` is checked to refine it.
- Fields that are active but not supported hold any value.
- A NULL dvap leads to the `crash` phase.

Runs (`MCDirClone.tla`). The inputs cover:
- source flags with and without SF_RESTRICTED/UF_DATAVAULT;
- a destination directory with and without UF_DATAVAULT;
- IGNORE_OWNERSHIP with and without override owner and group;
- caller, stranger and root;
- with and without NOOWNERCOPY;
- read-only mounts, so that authorization fails too.

- `dir_clone` (pass) checks three properties:
  - `TypeOK`;
  - `CloneOwnership`: the clone's owner and group are spec 4.5's `SpecOwner` and `SpecGroup`, across the three calls;
  - `CloneFlagsFromDestination`.
- `dir_clone_flags_unsupported` (violation): when the destination filesystem does not support `va_flags`, l.223 tests ACTIVE rather than SUPPORTED. The clone gets garbage DataVault/Restricted bits.
- `dir_clone_null_dvap` (violation): SETUP accepts `dvap == NULL`, but AUTHORIZE dereferences it (l.210, l.223).

### `IfNamer.tla`
This module models InterfaceNamer's run-loop thread and the IOKit and kernel
activity around it.

State:
- the kernel's unit of each interface (`kunit`);
- the IORegistry: `attached`, `unseen` (not yet returned by `S_iter`), `stack` and `busy`;
- `events`, the notifications queued on `S_notify`;
- the plugin's globals: `connect` (`S_connect`), `quietArmed` (`S_quiet`, i.e. not `isQuiet()`), `timer` (`S_timer`: none, armed or fired), `iflist`, `db` (`S_dblist` as a set of entries) and `prev` (`S_prev_active_list`);
- `plist` and `fileModel`, the saved `Interfaces` array and `Model` key of `NetworkInterfaces.plist`, and `hw`, the machine's model (sysctl `hw.model`);
- `smodel`, `S_model`, the model `hw_model()` cached once its sysctl succeeded (per process);
- `scheduled`, whether `S_prefs` is scheduled on the run loop, so that apply callbacks are delivered;
- `uuid`, the `IOPlatformUUID` property of the device-tree root (as its 16 bytes), which survives a configd restart and not a reboot;
- `boots`, the number of configd restarts and reboots so far (at most `MaxBoots`);
- `promised`, a history variable: the unit last committed to the plist for each interface on the current hardware model. It is what the header's "persistent interface names" promise refers to.

Nested calls (setup_IOKit calls three callbacks, quietCallback calls
interfaceArrivalCallback, every callback calls updateInterfaces) are a stack
of pending calls, `todo`. `nameInterfaces` is one action per loop iteration
(`NameInterface`) and one per registration attempt (`RegisterInterface`),
indexed by `idx`. The end of `updateInterfaces` is `UpdateDone`: the
database is saved once IOKit is quiet.

Environment actions:
- `Attach(i)`;
- `StackAppears`;
- `Quiesce`, which queues a quiet message only while `S_quiet` is registered.

Platform UUID: `quietCallback` calls `updatePlatformUUID` after `interfaceArrivalCallback` (a `"uuid"` entry on `todo`). If the device tree has no UUID yet, it collects the MAC addresses (`Mac`) of the built-in Ethernet entries of `S_dblist` (`Kind`), or if there are none of every Wi-Fi entry, sorts them with `compareMacAddress` and sets the UUID `00000000-0000-1000-8000-` + the first address. With `PlatformSetFails` the property set may fail, which the code only logs.

Virtual interfaces (`VirtualConfig.tla`, extended by `IfNamer`):
- `vprefs`, `vcache` and `vactive` hold, per kind (bond, bridge, VLAN), the configuration in the preferences, in `S_bonds`/`S_bridges`/`S_vlans`, and in the kernel. A configuration is the set of its member interfaces; NONE means "none", which is also what an empty array becomes.
- `PrefsApplied` is the administrator applying new preferences. A running plugin gets an apply notification (`vnotify`); notifications coalesce. The number of changes is bounded by `MaxApplies`.
- `prefsCallback` is the `S_prefs` callback. A quiet `UpdateDone` calls the same update with `prefs == NULL`, which first drops the caches.
- Each kind whose preferences differ from the cache is cached, then pushed. The push (`_SC<Kind>InterfaceUpdateConfiguration`, not in this repository) makes the kernel's configuration that of the preferences, restricted to the members that already have a BSD name. With `UpdateFails` the push may fail.
- A restart drops the caches and any pending notification, and the kernel keeps its configuration. A reboot also clears the kernel.

Persistence and faults:
- `exec_InterfaceNamer` runs `setup_Virtual` first (`PrefsSetup`). If it fails, `setup_IOKit` is skipped and the process stays in phase `"stopped"`, with no run-loop source, until configd restarts. If scheduling fails with `kSCStatusNoStoreServer` (`"nostore"`), setup continues, but apply callbacks are never delivered (`scheduled` is FALSE).
- `setup_IOKit` may fail after reading the database (`IOKitSetupFails`): `IOMasterPort`, the notification port, the registry root, a notification, `IOServiceGetBusyState` or the timer fails. The last exit comes after `stackCallback` has consumed the stack. `exec_InterfaceNamer`'s error path (`setup_IOKitFailed`) closes `S_connect` and releases `S_dblist`, `S_quiet` and the timer. The process stays in phase `"stopped"`, and its run loop serves only the `S_prefs` callback, which `setup_Virtual` scheduled.
- `hw_model()` returns `S_model`, or asks sysctl. With `ModelFails` the sysctl may fail; the NULL result is not cached.
- `readInterfaceList` returns the saved list unless it has a `Model` key that differs from `hw_model()`'s answer, NULL included. `setup_IOKit` turns it into `S_dblist` and `S_prev_active_list` via `previouslyActiveInterfaces`.
- `writeInterfaceList` (at the end of `updateInterfaces`, once quiet) does nothing if `S_dblist` is NULL or equals the saved list. Otherwise it stamps the model `hw_model()` returns (the old stamp stays when that is NULL) and writes the list; with `WriteFails` the commit may fail and leave the file as it was.
- `Restart`: configd exits at any point and launchd starts it again. The plugin's globals start afresh, the kernel keeps its units, and the new matching iterator returns every attached interface again.
- `Reboot`: nothing is attached or named, the plist stays, and the disk may now be in a machine of another model (`Models`).

Registration is the kernel's answer. A fixed unit is granted only if it is
free; "lowest unit" gives the lowest free unit from the one asked for. With
`Flaky`, registration may also fail transiently. With `LookupFails`, the
registry lookup after a successful registration may fail
(`lookupIORegistryEntryID`, l.1515). With `OpenFails`, `IOServiceOpen` on the
stack may fail in `stackCallback`: the stack is consumed and `S_connect`
stays NULL.

The constants (`MCIfNamer.tla`):
- a built-in interface `b`, adaptors `x` and `y`, and an absent adaptor `g` known only from the database;
- `x` and `g` are the same kind of adaptor, so `x` may inherit `g`'s unit (a dongle swap);
- five boot databases: none, empty, {b0, g1}, {b0, y1, x2 inactive} and {b0, g1, y2}, inactive entries included;
- units 0..6, and at most 3 queued notifications.

This is enough for every branch of `nameInterfaces` to fire: the kernel-named, skipped-until-quiet, known, matched and new cases, built-in and not, retried and given up.

Runs:
- `ifnamer_safety` (`MCIfNamer.cfg`, pass) checks five properties:
  - `TypeOK`;
  - `DbUnique`: `S_dblist` has one entry per unit and per address;
  - `DbAgreesWithKernel`: every named interface's entry carries the kernel's unit;
  - `NewNeverStealsKnown` (action property): a new non-built-in interface never gets a unit the database gives another adaptor, except by a dongle swap;
  - `PlatformUUIDIsLowestMac` (action property): the UUID the plugin sets carries the lowest built-in Ethernet address in the database, or if there is none the lowest Wi-Fi one, compared byte by byte against a reference order.

  The stack may be present or absent at start, registration and the UUID set may fail, and configd may restart once (so `S_dblist` is rebuilt from a plist that may lag the kernel). The run reaches 2,793,799 states in under two minutes.
- `ifnamer_liveness` (`MCIfNamerLiveness.cfg`, pass) checks `EveryInterfaceNamed`: every attached interface is eventually named. The stack is present at start, IOKit may never quiesce, the post-registration lookup may fail, and `setup_Virtual` may leave the apply callback unscheduled (`"nostore"`), and `hw_model`'s sysctl may fail, so the saved list may be discarded. The run reaches 329,930 states.
- `ifnamer_late_stack` (`MCIfNamerLateStack.cfg`, violation): the stack is absent at start. TLC finds this sequence:
  1. The timer fires first, while there is no stack.
  2. quietCallback returns ("No network stack object").
  3. The stack arrives, but stackCallback does not re-arm the now invalid timer (l.1848).
  4. IOKit stays busy.

  The interfaces are then never named, although l.2144 arms the timer "so we don't wait forever for IOKit to quiesce".

- `ifnamer_persistence` (`MCIfNamerPersist.cfg`, pass) checks `PersistentNames`: on the hardware model the plist was written on, every named interface that the plist promised a unit has that unit. Two restarts or reboots, two hardware models and failing commits are allowed; there is no built-in interface, and the post-registration lookup never fails. 4,976,416 states, under two minutes. The run also has `IOServiceOpen` and `setup_Virtual` failing; then no interface is named, so the property keeps holding.
- `ifnamer_late_builtin` (`MCIfNamerLateBuiltin.cfg`, violation): the same property with built-in `b`. TLC finds:
  1. On the first boot `x` attaches alone; only built-ins of the current batch reserve low units, so `x` gets 0, which is saved.
  2. The machine reboots, and `b` and `x` attach together.
  3. `b` is new and built-in; it asks for the lowest unit from 0 and gets 0, and `replaceInterface` removes `x`'s entry with unit 0.
  4. `x` is now new and gets unit 1: its persistent name changed.
  With `ModelFails` in the persistence run TLC finds `PersistentNames` violated: after a configd restart, the sysctl in `readInterfaceList` fails, the saved list is discarded, and an interface saved with unit 2 is named 0. The liveness run explores `ModelFails`.

  Setting `LookupFails` in the persistence run breaks the property as well. When registration succeeds but `lookupIORegistryEntryID` fails (l.1515), for instance because the interface was unplugged meanwhile, `replaceInterface` on the unit-less interface drops its entry. The plist is then written without it, and the interface gets a new unit on the next boot. This path is listed as a hazard and explored by the liveness run.

- `ifnamer_virtual` (`MCIfNamerVirtual.cfg`, pass) checks `VirtualInterfacesConfigured`: a configured bond is eventually in the kernel with every named member, unless it is removed. It uses adaptors `x` and `y`, a bond of `{x, y}` or `{x}`, and two preference changes, and it includes bonds applied before their members are named. `setup_IOKit` may fail; the property is asked of a plugin whose `setup_IOKit` succeeded. Asked of a stopped plugin, TLC finds a bond saved before configd started that is never pushed: after the failure only an apply notification pushes the preferences. The code logs the failure and promises no recovery, so this is listed as a hazard. 90,418 states.
- `ifnamer_virtual_stale_delete` (`MCIfNamerVirtualDelete.cfg`, violation) checks `VirtualConfigApplied`, the same property including removal. TLC finds:
  1. A bond is created.
  2. The administrator removes it.
  3. Before the apply notification is handled, an arrival runs `updateInterfaces` at quiet. That drops `S_bonds` to NULL, and compares it with the (empty, so NULL) preferences: no change.
  4. The apply callback then also finds the cache equal to the preferences.

  The bond stays in the kernel. A configd restart with a pending notification does the same.

The virtual runs keep `UpdateFails` FALSE. With it TRUE, `VirtualInterfacesConfigured` fails: the push of a bond fails after `S_bonds` was set (l.511-514), and no later call pushes it, because the cache already holds it and no further interface is named. This is recorded as a hazard.

Fairness for `IfNamer`:
- `WF_vars(Thread)`: the run loop serves its port and timer for as long as configd runs.
- `WF_vars(StackAppears)`: the kernel eventually publishes the stack.
- The prefs callback is part of `Thread`. The administrator's changes are bounded (`MaxApplies`), so they cannot starve the other run-loop sources.
- No fairness on `Quiesce`: IOKit quiescing is exactly what the timer must not depend on.

The safety and liveness runs set `CHECK_DEADLOCK FALSE`. Once every interface has attached and been named, the plugin waits in `CFRunLoopRun` for notifications that never come. That is an idle state, not a deadlock.

### `MacAddress.tla`
Operators for `compareMacAddress` (l.1651-1670) and the UUID bytes of `updatePlatformUUID`. `bcmp` is taken as Darwin's, which is `memcmp`. bcmp(3) promises only zero or non-zero, so `compareMacAddress` (l.1666) depends on that: with the 4.4BSD `bcmp`, which returns the number of bytes left at the first difference, every pair compares "greater", the sort leaves the addresses in database order, and `PlatformUUIDIsLowestMac` fails. `CFArraySortValues` (CoreFoundation, not in this repository) returns the orderings the comparator accepts, or any permutation when it accepts none, because the order of `S_dblist` is not modelled. `LexLess` and `LexMin` are the reference byte-wise order the property is checked against. `compareMacAddress`'s second length test repeats the first (`n2 > n1`), so a longer first address would read past the second. `updatePlatformUUID` passes only `ETHER_ADDR_LEN`-byte addresses, so that case is unreachable and not modelled.

In `MCIfNamer` the built-in `b` is Ethernet and the adaptors are Wi-Fi. The addresses of `x` and `y` share a prefix and differ in opposite directions in the third and last byte. So a comparator that swaps its operands, ignores the length or compares from the wrong end picks the wrong one.

### Bounds
- Two users, two groups and one everyone principal tell owner, group and other apart.
- The ACLs have one deny and one allow entry.
- Modes 0644/0755 have and lack x bits.
- Every early exit of the gate is reached by some call. The mutants in `PROJECT.json` confirm that each property detects a plausible slip in the code it covers.

### Fairness
The authorizer runs synchronously on the caller's thread, so once called every
step is taken (`WF_vars(CodeStep)`). This is used only for `EveryCallAnswered`.

## Plan

The most important behaviour comes first. Items 1-9 are done.

1. VfsAuthorize refines VfsDecision.
2. The panic finding.
3. DirClone and its findings.
4. (done) `IfNamer.tla`, the InterfaceNamer run loop:
   - state: the kernel units, `S_iflist`, `S_dblist`, `S_prev_active_list`, `S_connect`, `S_quiet`, `S_timer`, and the notification queue;
   - actions: one per callback, plus one per interface of `nameInterfaces` and one per registration attempt. IOKit events are environment actions.
   - safety properties:
     - the database holds at most one entry per (type, unit) and per (type, address);
     - a new non-built-in interface never takes the unit of another known interface unless it is a dongle swap;
     - the database agrees with the kernel's units.
   - liveness: every attached interface is eventually named, under fairness of the run loop and the timer. One run has IOKit never quiescing and the stack arriving after the stack timeout.
5. (done) Persistence: configd restart and reboot with `NetworkInterfaces.plist`, a failing commit, and a hardware-model change. Property: a saved interface keeps its unit (`PersistentNames`).
6. (done) `MacAddress.tla` and `updatePlatformUUID` in `IfNamer`: the platform-UUID choice, checked against a reference lexicographic order; the sign of `bcmp` is a hazard.
7. (done) Virtual interface configuration: `VirtualConfig.tla`, composed into `IfNamer`; one finding, and the failing push as a hazard.
8. (done) The failure paths of the process start: `setup_Virtual`'s outcomes, `hw_model`'s sysctl, and `IOServiceOpen`. Each is explored by a passing run. Each breaks, by TLC, the property its hazard names when it is switched on in that property's run.

9. (done) `setup_IOKit`'s own failure exits and `exec_InterfaceNamer`'s error path, in the virtual-interface run.

## Not modelled
- `vnode_authorize_callback_int`, the mount iteration lock, getpath, APFS fusion, sysctl and kqueue filter fragments of vfs_subr.c. These are disconnected lines without control flow of their own.
- `libdyldEntryVector.h`, `ccGlobals.h`, `PrivateLib.h` and kperf `action.h`: declarations only.
- The timeouts read from the bundle's Info.plist: they only set when the timer fires, and the model has no clock, so the timer fires at any idle moment.
- Several interface types: units are allocated per type, so one type shows every interaction.
- The `Interfaces:<old model>` history key that `writeInterfaceList` stores on a model change: nothing in this code reads it back.
- Commit-only preference notifications: the callback returns at l.586 without changing anything, which is a stutter step.
- `updatePlatformUUID` when the device-tree root cannot be opened (`IORegistryEntryFromPath` fails): it returns at once, with no effect on the rest.
- Logging, MessageTracer reports, `S_state` timestamps and `captureBusy`. They only produce diagnostics.

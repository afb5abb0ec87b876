# Formal models of the Lilu and VirtualSMC SDKs, the ACPI tables and the download script

This directory holds TLA+ models of the program code in this repository, the
TLC configurations that check them on small instances, and TLAPS proofs of the
results that hold for every instance.

The repository is the EFI folder of a Hackintosh (Dell Precision 3630).  Most
of it is data for the OpenCore boot loader and compiled kernel extensions.  The
parts that are program text are

- the **Lilu SDK** shipped inside `Lilu.kext` (below: `Headers/` and
  `Library/`): header-only containers, lookup and routing helpers with their
  bodies in the headers, and `plugin_start.cpp`, which every plugin is built
  with;
- the **VirtualSMC SDK** shipped inside `VirtualSMC.kext`;
- **`download_kexts.sh`**, which fetches and installs everything else;
- six small **ACPI tables** (`EFI/OC/ACPI/src/*.dsl`) and `config.plist`.

Functions that the headers only declare (`EXPORT`) are implemented in the Lilu
and VirtualSMC binaries.  Where a model needs one, it is modelled from its
declaration and from how the code in `src/` uses it, and is marked external in
`PROJECT.json`.

Contents: [1 Inventory](#1-inventory) · [2 Modules and the
code](#2-modules-and-the-code) · [3 Runs](#3-what-each-run-checks) · [4
Fairness](#4-fairness) · [5 Proofs](#5-proofs) · [6
Findings](#6-where-code-and-text-disagree) · [7 Limits](#7-what-is-not-modelled) ·
[8 Plan](#8-plan)

## 1 Inventory

| Component | State it keeps | Operations | What makes it hard | What makes it correct |
|---|---|---|---|---|
| `ThreadLocal` (`kern_util.hpp` 663-758) | owners `threads[N]` (atomic), `values[N]` (plain) | `set`, `get`, `erase`, `deinit` | lock-free: searches and claims of several threads interleave; slots are released behind a searching thread | a private cell per thread; at most one slot per thread; no refusal while threads fit |
| `CircularBuffer` (952-1149) | ring, two indices, count, recursive lock | `withCapacity`, `push`, `pop`, `isEmpty`, `isFull`, `getCount`, `safeDeleter` | nested locking, equal indices for full and empty, three allocations that may fail | a bounded FIFO queue with atomic operations; nothing leaks; lock balanced |
| Plugin start-up (`plugin_start.cpp`) | `startSuccess`, `selfInstance`, I/O Kit's services | `kern_start`, `probe`, `start`, `stop`, `kern_stop` | called by the kernel, I/O Kit and Lilu in any order; unloading | what Lilu may call is in memory; refused plugins stay out; `selfInstance` is the running service |
| `LiluAPI` (`kern_api.hpp`) | access mutex, end of registration, callback vectors | `requestAccess`, `releaseAccess`, `shouldLoad`, `on...`, `on...Force`, `finaliseRequests` | registration races with its end; a late forced registration panics | no registration comes too late; the mutex comes back on every path |
| `KernelPatcher::routeVirtual` (`kern_patcher.hpp` 426-452) | the virtual table slot, each plugin's `*orgFunc` | route, call through the slot | unlocked writes under running calls; chains of wrappers; repeated routing | no call through null; chains end and no successful route is lost, as long as nobody routes twice |
| `KernelPatcher` symbols (208-291) | caller's address variables, error code | `solveSymbol` (ranged), `solveMultiple` | partial failure, stale addresses across kext loads, wrapping ranges | `true` means solved, now, and inside the kext |
| `download_kexts.sh` | counters, temporary directory, the EFI folder | query, download, extract, copy, summary, trap | every command may fail, `set -e`, interruption, rerun | success means installed; failure is real, whatever earlier runs left over |
| `evector` (`kern_util.hpp` 781-943) | pointer, count, reserve | `push_back`, `erase`, `deinit`, `reserve` | growth factors, an array freed when it empties, deletion before the others move | a list; the erased element is the destroyed one; `rsvd` is never more than what was allocated |
| Bit, alignment, version, time helpers (`kern_util.hpp`, `kern_time.hpp`) | none | pure functions | sums that wrap at the width of a word | what each computes within a word, and when a wrapped one misleads |
| `RTCStorage` (`kern_rtc.hpp` 135-250) | ports and bank registers of a device found by its name | `getRTCDevice`, `readDirect`, `writeDirect` | two ways of waiting with different reference rules, each of which may return nothing; an unlimited wait | references balanced; calls return |
| `UserPatcher` (`kern_user.hpp`) | lookup storages with nested vectors, `pending` (a `ThreadLocal`) | hooks in the binary; storage management in the headers | any of four kinds of allocation may fail half-way; who owns what was not inserted | every block has exactly one owner |
| User-space entry wrapper (`Library/wrappers`) | registers, stack | straight-line assembly with two injected pointers | foreign code in the middle; alignment; offsets computed by the build | the program runs as if entered first |
| VirtualSMC SDK: keys and plugins (`kern_keyvalue.hpp`, `kern_vsmcapi.hpp`) | two key vectors, submitted plugin record | `addKey`, `compare`, submission | sortedness is demanded and byte order decides it | submitted in the order of the names; lookups find what was added |
| VirtualSMC SDK: `SMCInfo` (`kern_smcinfo.hpp`) | device strings, generator word | `getBuffer`, `getBufferSize`, `isValid`, `generatorSeed`, `generatorRand` | neighbouring arrays of different sizes; a generator with a fixed point | buffers stay apart; the word never becomes zero |
| ACPI tables (`EFI/OC/ACPI/src`, ACPI part of `config.plist`) | the name space, `STAS` | load-time conditions, `_INI`, `_STA`, `GPRW` | loaded for every operating system and on firmwares that differ | no redefinition, one clock under every system |

Interactions.  The kernel loads a plugin and runs `kern_start()`, which enters
`LiluAPI` under its mutex; `pluginStart()` registers callbacks there.  Lilu
later runs these callbacks, on its own threads, and hands them a
`KernelPatcher`; in them a plugin calls `solveMultiple()` at each load of the
kext it patches and `routeVirtual()` on tables that other plugins route too,
while the rest of the kernel calls through these tables.  `UserPatcher` carries
a `PendingUser` from one kernel hook to the next on the same thread in a
`ThreadLocal`, and what it injects runs in front of the programs of user space.
A kext that uses `RTCStorage` waits for a device that exists only if the
firmware, or an SSDT the boot loader added to it, provides an enabled clock.
The download script shares nothing with the rest but the folder.

Every hazard found is listed with its line, and with the properties that guard
against it, under `hazards` in `PROJECT.json`.

## 2 Modules and the code

`PROJECT.json` (`map`) names the source lines of every definition.  Definitions
whose comment starts with *Variant* are altered forms of the action next to
them: they are not part of `Next`, and serve to confirm that each property fails
when the code is wrong in that way.

A module's own invariants are the ones a run checks.  What an invariant has to be
strengthened with to become inductive is defined where it is needed, in the
`...Proofs` modules, in front of the theorem it serves.

### ThreadLocal, ThreadLocalSpec, MCThreadLocal, ThreadLocalProofs

`threads` and `values` are the two arrays.  A step is one access to them:
`SetFind`, `GetLook` and `EraseSeek` are one iteration of the search loop
(`Search`), `SetClaim` is one compare-and-swap of the second loop of `set()`,
`SetStore` the store through `ptr`; `EraseClear` and `EraseRelease` are the two
statements of `erase()`.  `GetDeref` is the caller's read through the pointer
that `get()` returned.  `pos[t]` is the loop index, then the pointer.  The code
loads `threads` with acquire, exchanges with acq_rel (acquire on failure) and
stores it in `deinit()` relaxed, none of which is sequential consistency in the
language.  The model interleaves single accesses all the same, which is what the
kernel's x86-64 gives: an exchange is a locked instruction, which sees the
current owner whether it succeeds or not, and before which every earlier store is
visible.  The only plain stores are those to a value, which its slot's owner alone
reads until it has released the slot by such an exchange, and those of
`deinit()`, which reads nothing, so that a delay of its stores is a later
`deinit()`.
`ThreadLocalSpec` is the promise: each thread has a private cell, and `set()` is
refused only when there are more threads than slots.  The refinement maps the
cell of `t` to the value in the slot it owns (`PrivateCells`, `AbstractCalls`).
`deinit()` is unsynchronised in the code, and runs at any time in the model too.
Two history variables record what has happened, and only properties read them:
`overtaken`, that `deinit()` has met an operation that was running, from when on
private cells are not promised any more, and `users`, the threads that have called
`set()`.  `StepsLeft` counts down what an operation has still to do (`WaitFree`).

### CircularBuffer, BoundedFifo, MCCircularBuffer, CircularBufferProofs

The owner creates the buffer (`AllocStorage`, `NewInstance`, `InitInstance`, each
with its failure branch, `DeleteInstance`, `FreeStorage`) and destroys it
(`DeleterStorage`, `DeleterDeinit`, `DeleterInstance`) when no thread is inside,
as the class demands of its owner.  A thread's `push()` or `pop()` takes the
recursive lock (`Lock`), takes it again in `isFull()`/`isEmpty()` (`QueryLock`,
`QueryTest`, `QueryUnlock`), then copies, advances and unlocks.  `heap` counts
live allocations, `owner` and `depth` are the `IORecursiveLock`.  `learnt` is
what a caller may conclude from a query's answer.  `BoundedFifo` is the promise:
operations on a sequence, atomic, failing exactly when full or empty.  The
mapping reads the sequence off the ring (`Contents`) and hides everything a
thread does between the step that takes effect and its return (`Pending`,
`AbstractCall`, `AbstractRet`).

### RouteVirtual, RouteVirtualProofs

One slot of one virtual table, several plugins, several callers.  `Test`,
`Save` and `Write` are the comparison with `func`, the store to `*orgFunc` and
the store to the slot; they are separate steps, since nothing locks them.  As
in the code nothing keeps a plugin from routing again, or from routing while
another one is in the middle of it.
`Enter`, `Forward`, `Leave` are a caller's jump through the slot, a wrapper's
call of its original, the return.  `Chain` is what
a caller of the slot can get to: the least set that holds the slot's function and
what each wrapper in it forwards to.  `routed`, `twice` and `overlapped` are
history variables: the actions record in them that a wrapper was let through
again behind another function (`Behind`) and that calls have overlapped, and only
the properties read them.  That "twice" does happen, to the harm of the chain, is
the finding `NotReplacedTwice`; the other properties say how much holds until then.

### SolveMultiple, MCSensorPlugin, WordsProofs

The loop of `solveMultiple()` over the ranged `solveSymbol()`, one action per
iteration and one for its error branch, between loads that move the kext and change
its symbol table.  `TrueMeansCurrent` says what `true` is worth, with `force` (where
the loop goes on behind what cannot be solved) and without.  Addresses are words of
`Words` and the end of the range is computed modulo `Limit`, as the code's unsigned
sum is.  `MCSensorPlugin` puts this module and `SmcPlugin` side by side, the two
halves of what a plugin such as SMCProcessor looks up.

### PluginLifecycle, PluginLifecycleProofs

`kern_start()` (`RequestAccess`, `ShouldLoad`, `Register`, `RegisterForceFails`,
`PluginStartReturns`, `ReleaseAccess`), I/O Kit's calls (`Probe`, `Start`,
`Drop`, `Stop`), `kern_stop()`, and Lilu (`FinaliseRequests`, `Invoke`,
`CallbackReturns`).  `LiluAPI` is external and modelled by its declarations:
access is a mutex held after a *successful* `requestAccess()` only, and
registration ends under it.  A plugin's `pluginStart()` registers any
callbacks; `on...Force()` panics on failure, which stops everything.  Loading a
plugin again re-initialises its data segment.  The module is checked directly.

### DownloadKexts, MCDownloadKexts, DownloadKextsProofs

The script as a sequence of commands, each with the outcomes the script tells apart.
`url` is what `$(get_latest_release_url ...)` captures, line by line; `disk` is the
content at each destination (`mixed` is the result of `cp -R` onto an older kext).
`Interrupt` and `set -e` (`CannotStart`, `CopyFails`) lead through the EXIT trap
(`Cleanup`).  `rm` may fail there, and a second signal, which `cleanup()` does not
mask, may end it (`CleanupFails`); after SIGKILL no trap runs at all (`Kill`).  Then
the temporary directory stays, which is no fault of the script that a property could
forbid.  `Rerun` starts the script anew on the folder as it is, with a temporary
directory of the new process.  The ten releases of the script are a parameter
(`Components`).

### EVector, ElementList, UserLookup, UserPatcherProofs

`EVector` holds the operations of `evector_base` as operators on a record
(`ptr`, `cnt`, `rsvd`), where the length of `ptr` is what was really allocated.
`UserLookup` builds the lookup storage of `UserPatcher` from them: a vector of
`LookupStorage`, each with a page and a vector of `PatchRef`, each with two
vectors of offsets.  `live` is the set of allocated blocks; `CreateNew`,
`CreatePage`, `CreatePageFails` are the steps of `LookupStorage::create()`, the
deleters are `FreedByStorage` and `FreedByRef`.  An insertion that fails changes
nothing and leaves the element with the loader, which then drops it
(`DropStorage`, `DropRef`) or tries again.  The loader itself is in the Lilu
binary: it is the client, and does whatever the interface allows its owner.
`ElementList` is the promise: a list, whose erased element is the destroyed one.

### EntryWrapper, UserPatcherProofs

The two wrappers as sequences of instructions with their lengths, which give the
offsets at which the injector wrote the two pointers.  Stack addresses count
words, memory is a function of them.  The booter is any function that obeys the
calling convention (`BooterReturns`: it may change every volatile register and
whatever it owns of the stack).

### UserPatcher, MCUserPatcher, UserPatcherProofs

The composition of both: first the loader works, then `activate()` (declared
only, external), and then programs are entered through the wrapper.

### SmcPlugin, MCSensorPlugin, WordsProofs

`Fill` writes one buffer of `SMCInfo` from `getBuffer()` on, for as many bytes
as `getBufferSize()` says, over arrays that lie as they are declared (`Offset`).
A plugin adds its keys to its two vectors (`AddKey`), sorts and submits.  `Sort`
is external, as `qsort()` is: it may leave any rearrangement that `Compare`, the
comparison of the byte-swapped words, finds ordered (`SortedFrom`).  `Lookup` and
`Probe` are a binary search, which stands for the VirtualSMC binary.  Names are
four bytes; `Identifier` is the word a little-endian machine has for them.

### Words, SmcGenerator, WordsProofs

The pure helpers on unsigned words: numbers modulo `Limit`, or sets of bit positions
where shifts and masks work.  `BitsOf` and `WordOf` go from one to the other, for
`alignValue()`, which adds numbers and masks the sum.  Nothing here has steps, so it
is proved about and not run.  `SmcGenerator` adds the seed and the three shifts of
the device's random numbers.

### AcpiTables, RtcDirectProofs

`Rename` is the boot loader's patch (`GPRW` to `XPRW`), `LoadTable` adds the next
table of the Add list with the names its load-time conditions let through,
`Initialise` is `\_INI`.  `Sta` is the answer of each device's `_STA`,
`EvaluatePrw` a `_PRW` method of the firmware.  The boot loader, the interpreter
and the firmware are external; a firmware either switches between RTC and AWAC
with `STAS` or has an AWAC alone, the two the table is written for.  For
other systems two things are stated.  `SbusAvoidsOthers` is what the text of one
table claims of them, and fails.  `OthersHaveOneClock` is what they are left with
after `\_INI` has set `STAS` for them too: possibly the other clock of the two,
but one.

### RtcDirect, MCRtcDirect, RtcDirectProofs

`readDirect()` and `writeDirect()` that find the clock themselves, one action
per call they make and one per failure, for several threads and for both ways of
waiting (`oldSdk`), on top of `AcpiTables`: the wait ends when the tables have
left an enabled device with the clock's name.  It may also come back without one,
as the code expects (`WaitForServiceFails`, `WaitForMatchingServiceFails`): then
only the dictionary is held, and released by the caller or by the wait.

## 3 What each run checks

| Run | Instance | Shows |
|---|---|---|
| `threadlocal_crowd` | 3 threads, 2 slots, 2 values, `deinit()` at any time, threads and values symmetric | one slot per thread; `set()` is not refused until a third thread has called it, although it looks at each slot at another time; nobody waits for anybody; private cells until `deinit()` meets a running operation |
| `circularbuffer_fifo` | 2 producers, 1 consumer, sizes 0, 1, 2, repeated creation with every failure | a bounded FIFO queue; balanced lock, consistent indices, no leak; a query's answer stays true for the only consumer; the lock is released |
| `routevirtual_chain` | 3 wrappers and 1 replacement, routing repeatedly and overlapping, 1 caller | no call through null, ever; until a wrapper is let through twice: chains end, calls return, and, until calls overlap, successful routes stay |
| `routevirtual_twice` | 2 wrappers | **violated**: a function that is in the chain already is put in front of it again |
| `sensorplugin_lookup` | 2 symbols, 3 requests (one repeated), 8-address word, 3 ranges, one ending at the top; 5 key names over 3 byte values, all nine buffers | `true` means solved in the kext loaded now, or with force impossible to solve; no error code left; no store outside the kext; keys are submitted in the order of their names and found exactly if added; buffers do not overlap |
| `pluginlifecycle_boot` | 2 plugins, 2 callback kinds, 2 instances each | no callback into an unloaded plugin, none registered late, refused plugins stay out, `selfInstance`, `kern_start()` returns |
| `downloadkexts_rerun` | a release of two files, a kext, HfsPlus.efi; any old content; failures, signals, reruns | success means installed by this run; failure is real |
| `downloadkexts_unresolved` | the same | **violated**: a release that was not found is downloaded all the same |
| `userpatcher_load` | 3 storages, 2 patch references, 1 offset each, growth factors 1 and 2, symmetric objects; then both wrappers with 4 stack pointers | every block is owned exactly once whichever allocation fails; no vector overestimates its array; the storages form a list; the wrappers are transparent |
| `rtcdirect_boot` | Darwin and another system, both firmwares, 2 events, 2 sleep states, 2 threads, banks of 2 bytes, sizes 0, 1, 2, 4, 5 | one clock and no redefinition; the other system has one clock as well; references balance; the wait for the clock ends |
| `acpi_wake` | the tables alone, with events 0x6D and another | **violated**: on Darwin GPE 0x6D keeps its sleep state |
| `acpi_others` | the tables alone | **violated**: the other system is shown `BUS0`, `DVL0` and `BUS1` |

Why the bounds suffice.  In `ThreadLocal` three threads are the least number in
which two compete for a slot while a third releases one; two slots for three
threads let a claim fail, and two callers on two slots are the tightest case of
the capacity claim.  The two halves of `sensorplugin_lookup` share no variable, so
that a behaviour takes the one or the other.  Rings of size 0, 1 and 2 are the ones in which full, empty and
wrap-around coincide, coincide pairwise, and differ.  Three wrappers give chains
with an inner element and let a replacement cut a chain at each place.  One
caller is enough since callers change nothing that routing or another caller
reads. An
8-address word holds a range in its middle, and one whose end wraps to 0. Two
plugins are enough for one to hold the mutex the other waits for, and two
instances for a probe between another's probe and start.  In the script a release
with two files has a first and a last file; the second release is a
directory.  Counters there are bounded by the number of files, the ring's by its
size: no state constraint is used in any run.  Two storages in a vector give an
erase with an element behind it, and the third is one the loader still owns; two
references let one move while the other is deleted with its storage.  The bound of
one offset is enough for a vector of offsets to own memory, and `MaxObjects = 0`
lets programs run after the storage was taken down only, since the two halves of
that composition share no variable but `activated`.  Four stack pointers are all
alignments of a 16-byte boundary in 4-byte words.  The five key names include pairs
that differ in the first byte and pairs that share their first two, and the
comparison of unswapped words orders them differently.  Banks of two bytes put
sizes below, at and above the two banks together, with every offset.  Terminal
states exist in the kernel panics of `SolveMultiple` and `PluginLifecycle`, and
their configurations switch deadlock checking off for that reason only.

`AnswerStays` speaks of the only consumer and, symmetrically, of the only
producer; the run has two producers and so exercises the consumer's half.

## 4 Fairness

- `CircularBuffer`: weak fairness of each thread's steps.  It says that a thread
  inside an operation goes on unless the lock keeps it out.  `LockIsReleased`
  needs no more: the holder of a recursive lock is never blocked by it.
- `RouteVirtual`: weak fairness of a caller's steps inside a chain: a function
  that was entered runs to its end, overtaken by as much routing as there is.
  Nobody has to route or to call.
- `PluginLifecycle`: weak fairness of the steps of `kern_start()` after it has
  the mutex, where `pluginStart()` returns in the end, and strong fairness of
  taking the mutex: other plugins may take and release it in between, and the
  kernel's lock serves every waiter in the end.  Nothing is assumed of I/O Kit,
  the loader, or Lilu.
- `RtcDirect`: weak fairness of each thread's steps inside a call that go on
  (`ThreadGoesOn`): a thread that can go on does.  Nothing forces a wait to come back
  without a device.  The wait is a step that is enabled only while a clock exists;
  that it ends is `OneClock` at work, not an assumption.  Nothing forces the
  boot, `_PRW` evaluations or new calls.
- `ThreadLocal`, `SolveMultiple`, `DownloadKexts`, `UserPatcher`, `SmcPlugin` and
  `AcpiTables` alone claim safety only.  That the operations of `ThreadLocal` end
  is safety too: `WaitFree` bounds their steps.

## 5 Proofs

All theorems hold for every value of the constants allowed by the named assumptions
(`...Assumption` in each module).  Besides the types of the constants these say
that: the threads of `ThreadLocal` and `RtcDirect` and the plugins of `RouteVirtual`
are finite sets; the releases of the script are not empty and name different files,
as its ten do; the growth factors of `evector` are positive, as the template's
default and every use are; the stack a program starts with has room for the
wrapper's frame; the name of a key is four digits below `Base`, as it is four bytes;
a word of `W` bits has `Limit` = 2^W values.  Each inductive invariant was checked
by TLC on the instances of section 3 before it was proved.

**ThreadLocalProofs.**  `TypeCorrect` includes that no loop runs past the array.
`OneSlot` needs `Ownership`: besides `OneSlotPerThread`, a thread in the search
loop owns nothing to its left, and one in the claim loop owns nothing
(`SearchSound`): it is the only one that could have put itself there. `Capacity`
(`set()` is not refused until more than N threads have called it) is the deep one: a
claimant looks at each slot once, at different times, so no single state shows a
free slot.
The invariant `CrowdThins` counts, for each i, the threads that own a slot at i or
later or are still claiming there: there are at most |`users`| - i.  It is preserved
because a claimant passes slot i only when another thread owns i, and that thread,
owning one slot only, leaves the crowd of i + 1.  Claimants and owners have all
called `set()` (`UsersFit`).  `NobodyWaits` is `WaitFree`, from the types alone.  All
of this holds with `deinit()` at any time.  `CellsArePrivate` is the refinement of
`ThreadLocalSpec` until `deinit()` meets a running operation: from `OneSlot`,
`Capacity` and `CellsFit` (where a thread is in an operation fixes the slot it owns or has just
released; a free slot holds nothing a reader could find) each step is one of the
specification or leaves its state alone.  The store through `ptr` is the step in
which `set()` takes effect, the store of null the one of `erase()`; a `set()` runs
off the array only if there really are more threads than slots.

**CircularBufferProofs.**  `NothingEverLeaks` from `Heap` (what is allocated at
each control state of the owner).  `LockDiscipline` from `Control` (the lock's
depth and holder follow from the holder's label and operation; nobody is inside
unless the buffer lives).  `IndicesAlwaysAgree` from `Ring`: in addition, the
answer a thread got from the nested query still holds when it acts on it
(`AnswerHolds`), which needs `Control`, since only the lock's holder changes the
count.  `AnswersStay` from `LearntHolds`: only a producer can
falsify "not full" and only a consumer "not empty".  `OperationsAreAtomic` is the
refinement of `BoundedFifo`: the call, the return, and in between one step in which
the operation takes effect, the test for the queries and for what fails, the move
of the index for what succeeds; the owner's creation and destruction renew the
queue.  It needs that what a thread is about to write or has just read agrees
with the ring (`DataFits`) and that positions modulo the size are different for
the elements of one ring (`Wraps`, `RingPosition`).  Any number of threads, any
sizes, 0 included.

**RouteVirtualProofs.**  For any plugins, routing as often as they like and
overtaking each other.  `WrappersFindTheirOriginal`: whatever the slot, a caller
or another `orgFunc` leads to has its own `orgFunc` set (`OrgIsSet`).
`TypeCorrect`: only plugins that pass an `orgFunc` reach the statement that writes
it.  The other theorems hold until a wrapper is let through twice, which is a
condition on what has happened and not on the constants.  `NoCycleEver` is the
safety half of `EveryCallReturns`: no set of wrappers forwards to itself only,
whether the slot leads there or a caller that entered long ago is still in it.  Its
invariant `Links` says that a plugin saves once at most (`RoutesOnce`), and that
only plugins that have written the slot are found in it or in an `orgFunc`
(`OnlyRouted`): were a cycle closed through the plugin that saves, the other
wrappers of it would have been one before, since nobody forwards to a plugin that
has not routed (`SaveClosesNoCycle`).  `ChainsAlwaysEnd` follows, because a chain
that did not end would be such a set (`ChainLeavesWrappers`).
`SuccessIsAlwaysKept` needs, besides, that no two calls have overlapped
(`OneAtATime`): then the new chain is the old one with the plugin in front
(`WriteExtendsChain`).  The chain is the least closed set, which makes these
arguments about sets and no induction along the chain.

**PluginLifecycleProofs.**  The inductive invariant `IInv` adds to the types
that permission to register lasts as long as the mutex is held (`LeaveHolds`),
the phase in which `startSuccess` is set (`StartSuccessFits`) and that a running
callback is a registered one (`CallingRegistered`).  From it:
`NoCallbackIsUnloaded`, `RegistrationIsNeverLate`, `RefusedPluginsStayOut`,
`SelfIsTheRunningOne`, `TypeCorrect`.

**DownloadKextsProofs.**  For any releases.  `PositionIsReal`: the files still to be
copied are the last ones of the current release.  On top of it `Accounted` (each
file behind the script's position is this run's, or a failure was counted) is kept
by each command; when the script has ended, `SuccessIsTrue` and `FailureIsTrue` read
the status off the counters.

**UserPatcherProofs.**  Three parts.  First the vectors: each operation of
`evector` keeps a vector sound (`SoundVector`) and does to the elements it stores
what the same operation does to a sequence (`PushBackAppends`, `EraseRemoves`,
`DeinitEmpties`); hence `TypeCorrect` and `SlotsAreAlwaysReal`, for any positive
growth factor.  Then who owns what: a block is named by its kind and its owner, so
that two owners never share one by accident, and `EverythingIsOwnedOnce` comes
down to what each action does to the reachable objects.  It is not inductive
without `UnreachedIsBlank`: an object that was destroyed may be created again, and
would otherwise bring the blocks of its former life.  `DeletersFree` is the lemma
on the nested deleters.  `StoragesAreAList` is the refinement of
`ElementList`.  Last the wrappers: `WrappersAreTransparent`, for every alignment of
the stack, by one step per instruction of each wrapper, one for the booter, and
one for the entry (`FrameAlways`); `Frame64` and `Frame32` say, at each
instruction, where the stack pointer is and where the arguments and the pointer to
jump to have been put.  The offsets of the instructions are summed up in
`Offsets64` and `Offsets32`, which is where the injected pointers are shown to be
the ones that the code goes through.

**RtcDirectProofs.**  `OneClockAlways` and `OthersAlwaysHaveOneClock`, for any
system, from `BootedSoFar` (which names are there after each table, and what
`\_INI` and the rename have done); `TheTables` and `TablesApart` say what the six
tables define and that no name is defined twice.
`RefsAreBalanced`: each step changes the number of threads in a set of control
states by one (`CountMoves`), and the references with it, on the path of a wait
that returns nothing too.

**WordsProofs.**  For every word size.  `TimeLeftIsExact`: as long as start +
timeout fits a word, the time left is the difference to the deadline.
`WrappedDeadlineIsOver`: when it does not fit, the time is over at the very
start.  `SinceAndLeftAddUp` relates both helpers. `AlignValueIsCeiling`: for an
alignment that is a power of two, the least multiple not below the size, unless
the sum wraps.  The code masks bits; that this takes off the remainder is
`BitsOfMultiple`, and that the word with these bits is the multiple `BitsDecide`,
from the bits one after the other (`NextBit`).  For other alignments the
result need not be a multiple, and nothing is claimed.  `FieldRoundTrip`: a bit field
that was set reads back, cut to its width.  `GeneratorNeverZero`: each of the three
shifts keeps the highest (right) or lowest (left) bit of the word, so that a
seeded generator never reaches zero, where it would stay (`ZeroIsStuck`).  A word
is the set of its bits, which makes these statements about sets; that such a bit
exists is taken from the library's well-founded orders.  `ConversionRoundTrip` and
`ConversionTruncates` say when the conversions of time lose something and how
much, `VersionsKeepOrder` that the numbers of versions are in the versions' order.

`solveMultiple()` is proved about here as well, since its words are these:
`StoresAreInKext` from what a sum that wraps can be (`SumWraps`,
`InRangeIsInKext`), `TrueIsCurrent` from `SolvedSoFar` (every request behind the
loop's index holds its symbol, or force is set and it cannot be solved), `ErrorsAreCleared` from `ErrorIsHandled`, and
`TypeCorrect`.

So are the keys of `SmcPlugin`, for any names over any `Base`.  `DigitsApart` takes
a word apart, `SwapReverses` says what `OSSwapInt32` makes of it, and
`CompareOrders` concludes that `Compare` orders words as `Precedes` orders names.
A vector that is sorted holds what was added, in this order (`StorageInv`,
`SortedIsInOrder`); a lookup has not cut off its key (`SearchInv`), and what it
answers is so (`AnswerInv`): together `LookupsFindAddedKeys`.  `SortHasResult`
shows that the step that sorts exists for vectors of every length; a shortest
vector without a sorted rearrangement would have one, by putting the greatest key
last.  `BuffersStayApart` follows from where the arrays lie (`Layout`) and from
their sizes being the declared ones (`SizesAreDeclared`).

Only model-checked:

- Liveness, which is out of the prover's reach (it needs fairness and ENABLED):
  `EveryCallReturns`, `LockIsReleased`, `KernStartReturns` and `RtcAnswers`.
- The four properties that are expected to be violated (section 6).

## 6 Where code and text disagree

Each of these is shown by a run that expects the violation.

1. `SSDT-GPRW.dsl` says that it "Fixes instant wake (sleep/wake loop) caused by
   GPRW returning GPE 0x6D for USB and LAN wake events" (lines 4 and 5), but its
   method compares `Arg1`, the sleep state, with 0x6D (line 33); the event is
   `Arg0`.  Sleep states are small numbers, so nothing is ever intercepted
   (`acpi_wake`).
2. `get_latest_release_url` logs to standard output, which its caller captures as
   the URL: it is never empty, and "Skipping ... (could not resolve URL)"
   (`download_kexts.sh:230`) is unreachable (`downloadkexts_unresolved`).
3. `routeVirtual()` says "Do not try to replace twice!" (`kern_patcher.hpp:443`)
   but compares with the newest function only.  Plugins A, B, A: `orgFunc` of A
   becomes B, that of B is A, and the original function is lost: the next call
   through the slot never returns (`routevirtual_twice`).
4. `SSDT-SBUS-MCHC.dsl` says that its `_STA` methods "check for Darwin (macOS) to
   avoid interfering with other operating systems" (lines 19 and 20); only `MCHC`
   has one.  `BUS0`, its child `DVL0` and `BUS1` are present everywhere
   (`acpi_others`).

Seen while modelling, and visible in the actions named, without a run of their
own:

- `solveMultiple()` is documented to return false "if at least one symbol cannot
  be solved" (`kern_patcher.hpp:261`); with `force` it returns true, and the address
  of such a request keeps what it held instead of being "otherwise NULL" (line 241)
  (`Failed`).
- `HfsPlus.efi` is fetched without `-f` over the installed driver: an error page
  counts as success (`download_kexts.sh:406`).
- `\_INI` of `SSDT-AWAC.dsl` sets `STAS` under every operating system: others
  then see the RTC instead of the AWAC (`Initialise`).  They see one clock in any
  case (`OthersHaveOneClock`).
- A second interrupt while `cleanup()` runs, or SIGKILL at any time, leaves
  `.dl_temp_$$` in the folder, and no later run looks for it (`CleanupFails`, `Kill`).

## 7 What is not modelled

The share of lines that the models cover is small for a reason that lies in the
repository: more than half of its program lines are the headers of third-party
disassemblers (Capstone, hde), and most of the others are declarations, constants
and comments of functions that exist in binaries only.  The bodies that the
headers, the scripts, the assembly and the tables do contain, and that keep state
or compute something a property is about, are modelled.  Left out are:

- Functions the headers only declare (kinfos, routing by code patching, patches,
  hooks of `UserPatcher`, policy, NVRAM, files, crypto, values of SMC keys):
  there is no source.
- Inline bodies without state or order: the constructors of `KextHandler` and
  `RouteRequest`, `KextInfo::switchOff()`, `FunctionPatch::sourceIt()`,
  `getOSDataValue()`, the sums of `CpuTopology`, wrappers of a single I/O Kit call.
- `ppair`, the text of `kextVersion`, and the readings of the clock behind a
  `current` of 0: the helpers are stated for a given current time.
- The product `generatorRand()` returns: it is a function of the word, whose
  course is what can go wrong.
- Firmwares outside of what `SSDT-AWAC.dsl` is for, such as one with an RTC and
  no `STAS`; the constants in `_DSM` and `_CRS`.
- Text guides, binaries, and `config.plist` beyond its ACPI section.
- Weak memory: the models interleave single accesses (for `ThreadLocal` section 2
  says why that is enough on x86-64).
- `deinit()` and the deleters while other threads are inside a call: the classes
  leave that to their owners.  The model destroys a `CircularBuffer` only when it is
  unused.  `deinit()` of `ThreadLocal` does run at any time; what the values are
  afterwards is left open once it has met a running operation.
- That overlapping `routeVirtual()` calls on one table lose a route is in the model
  but no property: nothing in the header promises that they may overlap, and
  `SuccessIsKept` speaks of the time before any did.
- The range check of `readDirect()` and `writeDirect()` decides whether a call is
  refused (`Refuse`).  Its operands of one and two bytes are promoted to `int`, in
  which neither the product nor the difference can wrap, so that nothing is left to
  state of it; what happens within the banks is in the binary.
- Formatting and log output of the script, except where it is captured.

## 8 Plan

Done: `ThreadLocal`, `CircularBuffer`, `RouteVirtual`, `SolveMultiple`,
`PluginLifecycle`, `DownloadKexts`, `EVector` with `UserLookup`, `EntryWrapper`,
`Words`, `SmcPlugin`, `AcpiTables`, `RtcDirect`.

The safety properties of all of these are proved, and the three refinements; what
is only model-checked is liveness.

Next:

1. A composition of `PluginLifecycle` with `RouteVirtual`, in which plugins route
   from their callbacks: Lilu runs these one after the other, so that calls would not
   overlap, and no call would come to an unloaded wrapper.
2. The load order of the kexts in `config.plist` against their dependencies.

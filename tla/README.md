# TLA+ models of OpenCore's kernel-patching core

This directory holds TLA+ specifications of the C sources under `src/`:
- the Mach-O reader (`Library/OcMachoLib/Header.c`);
- the kext vtable linker (`Library/OcAppleKernelLib/Vtables.c`);
- the kernel patch/inject orchestrator (`Platform/OpenCore/OpenCoreKernel.c`);
- the UEFI-side driver loading and ExitBootServices scheduling (`Platform/OpenCore/OpenCoreUefi.c`).

Every module is checked with TLC. `PROJECT.json` lists:
- the components;
- the runs (module, cfg, expected outcome, properties);
- a mutant for each property of a passing run;
- the map from every definition to the source lines it translates;
- the findings;
- the hazards.

## The system

| Part | Source | State | Operations |
|---|---|---|---|
| Vtable lookup | Vtables.c 29-88 | `Processed` flag per kext, `LinkedVtables` per kext, `Dependencies[]` per kext | `InternalGetOcVtableByName` (the wrapper that unlocks all kexts), `InternalGetOcVtableByNameWorker` (scans its own table, then recurses into dependencies) |
| Vtable linker | Vtables.c 90-895 | the kext symbol table (values overwritten by patching), `LinkedVtables`, `NumberOfVtables`, the SMCP entry walker | discovery of the super-metaclass pointers (SMCPs) and their vtables, patch-data collection, the fixed-point loop, the per-slot patch rules, and construction of the dependencies' vtables from prelinked data |
| Mach-O reader | Header.c | context (file, size, fat slice, symtab pointers) | context init with the fat filter, load-command iteration, segment/section sanity, symtab retrieval, address→file-offset |
| Image expander | Header.c 1222-1432 | destination image, a running delta | re-lays segments so that file offset = VA − first VA, and shifts symtab/dysymtab offsets |
| Load-command strip | Header.c 1156-1220 | command area, `NumCommands`, `CommandsSize` | compacts out signature, dyld-info, function-starts and similar commands |
| Darwin version | OpenCoreKernel.c 31-163 | none (pure) | `OcParseDarwinVersion`, `OcMatchDarwinVersion`, `OcKernelReadDarwinVersion` |
| Orchestrator | OpenCoreKernel.c 165-830 | per-kext `Enabled`, `PlistData`/`PlistDataSize`, `ImageData`; the global storage/config | the kernel-open hook, kext loading and reservation, kernel patches, blocks, prelinked injection, virtual file |
| UEFI support | OpenCoreUefi.c | handler table, `mOcExitBootServicesIndex`, the driver-connect list | `OcScheduleExitBootServices`, `OcLoadDrivers`, the ExitBootServices handler, protocol reinstall |

How the parts interact:
- The orchestrator's file-open hook reads the kernel and loads the kexts (reserving space for them).
- It then runs kernel patches and prelinked injection.
- Injection links each kext: this is the vtable linker, which uses the vtable lookup for super-class vtables.
- The Mach-O reader underlies all of them.

## Modules

- **KextGraph**: pure operators.
  - `DepArrays` gives the dependency arrays a run enumerates.
  - `IsAcyclic` uses `Graphs!IsDag`.
  - `FirstHolder` is a recursive depth-first reference search with a seen set.
- **LookupSpec**: the abstract lookup. A query answers, in one step, the first kext holding the vtable in depth-first order, or NULL.
- **VtableLookup**: the worker/wrapper recursion made explicit as a stack of frames `[kext, next]`.
  - Actions: `Query`, `FoundInOwnTable`, `NotInOwnTable`, `DepsExhausted`, `SkipProcessedDep`, `CallDep`, `DepFound`, `DepNotFound`.
  - `Return` is the wrapper's unlock, which clears every `Processed` flag.
  - It is shown to implement LookupSpec through `INSTANCE LookupSpec WITH answer <- ...`.
- **PrelinkedVtables**: how each kext's `LinkedVtables` block is built (Vtables.c 92-234), kext after kext in `BuildOrder`.
  - The scanner that drives the build is not in this repository; its order (prepare, size, allocate, create) is modelled from the spec.
  - A vtable's data is a sequence of 64-bit words (the two header words first) with the `MaxSize` the reader reports. The block is a sequence of cells, a header `[name, n]` followed by `n` entries.
  - Actions: `PrepareSkip`, `PrepareFail`, `PrepareAdd`, `PrepareEnd` (one symbol per step of `InternalPrepareCreateVtablesPrelinked64`); `SizeVtable`, `VtableDataMissing`, `AllocateVtables`; `CreateVtable`, `CreateEnd`; `NextKext`.
  - `EntriesFrom` is the do-while of `InternalGetVtableEntries64`. `ConstructFrom` is the loop of `InternalConstructVtablePrelinked64`. Both are recursive operators.
  - A read or write outside a buffer sets `oob`; the model does not stop there.
  - `RefVtables` is the reference: the kext's vtable symbols in order, each with its entries up to the first zero word, and none when a build rule fails.
- **VtableContext**: composes the two vtable modules.
  - It extends PrelinkedVtables and instantiates VtableLookup with `holds` mapped to the kexts whose built block holds the `Target` vtable, found by the worker's own-table walk (`OwnTableHas`).
  - A lookup starts only after every kext is built.
- **VtableLinker**: `InternalPatchByVtables64`.
  - Classes of the kext (in symbol order) with super classes among themselves, OSObject, IOService, or a missing class.
  - Each class's unlinked vtable is a sequence of slot kinds: own pointer, stripped pointer, inherited relocation, stale relocation, pure virtual, or declared-but-undefined.
  - The kext's relocation symbols are the state `symtab`. `InternalPatchVtableSymbol` overwrites them in place, as the code does.
  - Actions:
    - one per path through the loop body: `SkipPatched`, `SuperNotLinked`, `SuperIsFinal`, `ClassPatchFails`, `MetaFails`, `ClassLinked`;
    - one per pass end: `EndPass`;
    - the discovery and allocation outcomes: `PrepareFails`, `AllocFails`, `Prepared`.
  - `PatchVtable` is the per-vtable slot loop, as a recursive operator.
  - Metaclass vtables are represented by fault choices: duplicate, patch failure, or missing OSMetaClass.
- **DarwinVersion**: `OcParseDarwinVersion` as recursive operators over a character sequence (`ParsePart` is the inner digit loop, `ParseParts` the outer loop over three components).
  - `OcMatchDarwinVersion` is an operator.
  - `OcKernelReadDarwinVersion` is the action `ReadDarwinVersion`; the marker search is abstracted to whether the marker occurs.
  - The version gate of `OcKernelProcessPrelinked` is the action `GateKext`.
- **StripLoadCommands**: `InternalStripLoadCommands64`. The command area is a row of words followed by `Slack` words that belong to whatever follows the header. It has no run of its own: ExpandImage instantiates it on the destination header with `Slack <- 1`, the header padding copied behind the command area.
  - A command of `size` words is `size` cells `[id, w]`; its type and size are read from the cell with `w = 0`.
  - One loop iteration is one step: `StripCommand` (the `CopyMem`, the count updates, the advance) or `KeepCommand`. `ZeroTail` is the final `ZeroMem`.
  - `CopyMem` and `ZeroMem` are modelled by the words they write, so the counts and the advance read what the code reads after the move.
- **ExpandImage**: `MachoExpandImage64` in half-page units. A `__TEXT` whose file size ends mid-page carries an odd delta, which `MACHO_ALIGN` rounds up to a page.
  - The source byte at file offset `p` is the integer `p`; the destination starts as `Junk`, and `ZeroMem` writes `Zero`.
  - One segment of the loop is one step. `SegmentExpanded` is the whole iteration: the copy, the segment-command rewrite, the `__LINKEDIT` table shift, the section loop (`ShiftSections`, recursive) and the next delta.
  - Each early `return 0` is an action of its own: `HeaderTooBig`, `SegmentOversized`, `HeaderNotInSegment`, `SegmentDoesNotFit`, `SegmentMisplaced`, `RawTooBig`.
  - With `Strip`, `StripStep` runs the StripLoadCommands loop, instantiated (`ST == INSTANCE StripLoadCommands WITH ...`) on the destination header's command area.
- **MachoReader**: the reader of `Header.c` 35-1145, on one context.
  - A file is a record: fat or thin, the architecture table, the outer size, and the Mach-O of the x86_64 slice. The Mach-O holds its commands as records with the fields the reader looks at. Symbol entries are one flag, `symsSane`, because `InternalSymbolIsSane` is not in `src/`.
  - `MachoInitializeContext` is one action. It includes `FatFilter` (`MachoFilterFatArchitecture64`) and the command loop `CommandOk`. As in the code, `TopOfFile` is taken before the filter and the filter's verdict is ignored.
  - Each accessor call is a sequence of steps, one load command per step, as the loop of `InternalGetNextCommand64` visits them:
    - `ScanSkip` steps over a command of another type, `ScanEnd` is the scan reaching `TopOfCommands`;
    - `SegmentRejected` is `MachoGetNextSegment64` returning NULL;
    - `SegmentVisited` runs the accessor's loop body on a sane segment (`LastAddressStep`, `VmSizeStep`, `FilePointerStep`, `SectionByIndexStep`, `SectionByAddressStep`, `SegmentSectionByNameStep`);
    - `UuidFound` is `MachoGetUuid64`;
    - `SymtabStep` is `InternalRetrieveSymtabs64`: the symtab, then a second scan from the first command for the dysymtab. The tables are cached only at the end, then used by `UseSymbolTable` or `UseIndirectTable`.
  - `StartCall` begins a call; the symbol-table accessors with a cache take it without scanning.
  - `reads` holds the byte ranges each step reads, relative to the slice, and the range a call reports as readable. A NULL dereference reads `<<-1, 0>>`.


## Runs

| Run | Expect | What it shows |
|---|---|---|
| vtable_lookup | pass | MC_VtableContext. Three kexts are built from every mix of C++ symbol slices: too many vtables, a missing value, missing data, data without a terminator inside `MaxSize`, a terminator in the last word or one word past `MaxSize`, empty tables. Every build stays inside `MaxSize`, the scratch array and its block (`BuildStaysInBuffers`) and yields the declared vtables (`LinkedVtablesAsDeclared`). Then a lookup over every dependency array (≤2 deps each, cycles included, depth-bounded by a constraint) and every root: the lookup refines LookupSpec, and it terminates on DAGs. |
| vtable_lookup_cycle | violation | `RecursionBounded`: the nested wrapper's unlock lets a cycle re-enter a kext on the stack. |
| vtable_link | pass | Two classes, both orders, all super relations. Vtables of 0-2 slots of each kind without a fault, and of one slot (`FaultSlots`) with each fault (final super class, missing OSMetaClass, metaclass failures). The link terminates, success matches a top-down reference, and inherited slots hold the super class's address. |
| vtable_link_decl | violation | `LinkFollowsDeclarations` (= `DeclaredMethodRejected` /\ `RelocationsMatchLinked`): an undefined own method is patched rather than rejected (full-string compare against the class prefix, Vtables.c 320); and two classes sharing one stale relocation symbol, each under a different super class, leave it with the second patch's value (Vtables.c 346). |
| darwin_version | pass | Short strings and 64 formatted versions (parts 0, 4, 15, 99) behind the marker, followed by nothing, `:` or `:x`, and 25 windows: a formatted version is read back exactly (`VersionRoundTrip`, spec 8), and the gate admits exactly the versions inside the window, 0 meaning open (`GateIsWindow`). |
| darwin_version_empty | violation | `EmptyComponentRejected`: `"1."` and `"1..3"` parse as nonzero versions; spec scenario 1 says `"1..3"` gives 0. |
| expand_image | pass | 366 kext-shaped images (see MC_ExpandImage), destination sizes 0, 6 and 12 units, strip on and off. A successful expansion is the memory image (`ImageIsMemoryLayout`), and every rewritten section, symtab and dysymtab offset still addresses its bytes (`OffsetsFollowData`). |
| expand_image_spec | violation | `ExpandsAsSpecified` (= `ExpandsValidLayout` /\ `ZeroFillSectionsAtVa` /\ `ST!StripInPlace` /\ `TocCountKept`): a `__DATA` one page after `__TEXT` in memory, the layout of spec example 6, makes the expander return 0; a zero-fill section after a file-backed one, in a segment after one that grew, is placed one delta too far; and stripping the trailing function-starts and code-signature commands leaves the code signature in the area with `NumCommands` one too high, 5 for the 4 kept commands (after the move, `CommandsSize` drops by the moved-in command's size and that command is skipped, Header.c 1210); stripping a code signature that ends the list leaves `LoadCommand` at the end of the area, so the final `ZeroMem` (1219) clears the header word after it; and the dysymtab's table-of-contents count grows by the delta (1361, spec open question a). Each part was confirmed alone. |
| macho_reader | pass | 14 files: a thin kext, the same kext as the x86_64 slice of a fat file (spec example 3), and variants that break one rule each. Fifteen accessor calls on each, every call after every other. A context is built exactly for the well-formed x86_64 slices (`AcceptsWellFormed`, including spec example 4). A section index names the section of that ordinal in the segment walk (`SectionIndexIsOrdinal`). The cached symbol tables passed every check (`CachedSymtabsChecked`). Every call returns (`CallsReturn`). |
| macho_reader_bounds | violation | `AccessorsStayInBounds`, spec 4.1: callers may trust any non-null result. Four ways the reader breaks it, each confirmed alone on its file. A fat slice smaller than its commands is accepted, because `TopOfFile` is stale (Header.c 206/225), and the scans read past the slice. `MachoGetFilePointerByAddress64` reports the VM size left as `MaxSize`, past the file for `__DATA` with `__bss` (1136). `MachoGetIndirectSymbolTable` dereferences a NULL `DySymtab` on a file without `MH_DYLDLINK` (1097). A section below its segment's address passes `InternalSectionIsSane` (485) and is returned by index. |
| boot | pass | MC_Boot: two drivers (commented or not, each outcome of load, start and list allocation), with and without ConnectDrivers. Six scheduling calls against a five-slot table. Then the kernel hook over two kernel opens, with seven kext entries covering every path of the reservation loop, a kernel patch and a kext patch in different version windows, a block entry, and every firmware outcome. Then ExitBootServices. See the properties below. |
| boot_hook_faults | violation | `HookStateSound` (= `KextBuffersOwned` /\ `HookSeesConfig`, the hook never processes a kernel after `OcUnloadKernelSupport` has cleared the configuration) with an empty plist file among the entries and `DisableResults = {TRUE, FALSE}`, each confirmed alone. An empty plist leaves `PlistDataSize` 0, the "not read yet" mark, so the second open reads the kext again and the first buffers are lost (OpenCoreKernel.c 196). A failing `DisableVirtualFs` leaves the hook installed after `OcUnloadKernelSupport` cleared the configuration, and the next open processes a kernel without one (823). |



Bounds:
- Vtable build: `ScratchCap` = 2, so a kext with three vtable symbols overflows the scratch array. Five vtable data blocks: entries with and without a C++ symbol, a stripped entry, no terminator inside `MaxSize`, a terminator one word past `MaxSize`, and no entries. Two vtable names, so a kext may hold the `Target` name, only the other one, or none.
- Three kexts with two dependencies each cover self-free cycles of length 2 and 3, diamonds, and skipped processed dependencies.
- Two classes with two slots cover both link orders, parent-before-child and child-before-parent, pad slots (slot 2 of the dependencies), and short child vtables.
- Stale symbols shared across classes need two classes and two distinct dependency parents.
- Darwin version: parts 0, 4, 15 and 99 cover one- and two-digit components and zero. An 8-byte buffer (the code's is 32) makes truncation reachable.
- Strip: the expander's images end in a function-starts and a code-signature command, both stripped, or in a code signature alone. The first meets a stripped command followed by another; the second strips the last command in place.
- Expansion: `__TEXT` with virtual size 1 or 2 pages and file size 1 page, half a page (an unaligned delta that `MACHO_ALIGN` rounds), or less than the header. `__DATA` with 1-2 pages of memory, 0-1 page of file or more file than memory, contiguous in memory or a page after `__TEXT`, with a file-backed section, a zero-fill section, both or none. `__LINKEDIT` with a whole or half-page file size. Images without segments, with 3 or 8 units, take the raw path. Destination size 0 refuses the header; 6 refuses the larger images; 12 fits all. A delta carried into a later segment needs a segment that grew before it, hence `__TEXT` of two pages with one of file.

- Boot: `DisableVirtualFs` succeeds in the pass run (`DisableResults = {TRUE}`); boot_hook_faults lets it fail. Two kext slots drawn from seven entries give two adjacent kexts in every combination of paths. Two opens are what it takes for a kext loaded by the first open to be reserved for from its stored sizes in the second (`ReserveLoadedKext`). Versions 1 and 3 fall inside and outside the `[2, 0]` window. Six `OcScheduleExitBootServices` calls against `HandlerMax` = 5 reach the guard that drops a handler. Two drivers cover a list allocated on the first or the second driver.
- `VIEW BootView` removes the UEFI variables from the state fingerprint once the UEFI stage has ended. No later action or property reads them, except the handler table and `ueStage`, which stay in the view. While the UEFI stage runs, states are fingerprinted in full. Without the view, the run did not finish in 15 minutes; with it, 441k distinct states take about 20 s.
- Mach-O reader: real byte sizes (32-byte header, 72-byte segment commands, 80-byte sections). The kext has three segments, the ones the prelinker sees, and the four commands the reader looks up. One variant per check of the initialisation. The other variants are a hostile segment set (an insane first section, a section below its segment, a segment past the file), a bad dysymtab and a bad string table, a failing symbol, and a file without symbol table and uuid. The calls use addresses in `__TEXT`, `__DATA` and past the image; indices 0, 2 and 3 (across a segment boundary and past the last section); and a name that exists and one that does not. The U32/U64 overflow checks are left out: the sizes stay far from 2^32.

Properties of the boot run:
- `InjectionHasRoom`: what `PrelinkedInjectKext` adds in one open fits the reservation `OcKernelLoadKextsAndReserve` returned for it. This includes kexts read by an earlier open.
- `InjectsLiveKexts`: a kext disabled by a failed read keeps its `PlistDataSize` and is never injected.
- `KextBuffersOwned`: each kext holds exactly the plist and executable buffers its data pointers name.
- `KernelBuffersOwned`: between opens, every kernel buffer and name copy has been freed or handed to a virtual file.
- `ConnectListFits`: the `DriversToConnect` list, with its NULL terminator, fits the `Count + 1 - Index` entries allocated.
- `HandlerWalkInBounds`: the walk of `mOcExitBootServicesHandlers` at ExitBootServices meets a NULL inside the array.

Fairness: MachoReader assumes weak fairness on `CallStep` only. An accessor runs to its return on the caller's thread, but nothing obliges a client to initialise a context or call an accessor.

Otherwise every component runs to completion on the single boot-services thread, with no callbacks or preemption. So weak fairness on `Next` is what the code guarantees.

## Composition

- **KernelHook**: `OcLoadKernelSupport`, `OcUnloadKernelSupport` and `OcKernelFileOpen` (OpenCoreKernel.c 170-829).
  - Per-kext state: `enabled`, `plistData`, `plistSize`, `imageData`, `imageSize`, and buffer counts. It persists across opens, as the code's `Config->Kernel.Add` entries do.
  - Each path through one iteration of the reservation loop is an action: `SkipDisabledKext`, `ReserveLoadedKext`, `DisableKext`, `KextPlistMissing`, `KextImageFails`, `LoadKext`.
  - Then the open runs through `ReadAppleKernel`, `KernelPatches`, `PrelinkedContextInit`, `KextPatches`, `OcKernelBlockKexts`, `PrelinkedInjectPrepare`, `InjectKext` (one kext per step), `PrelinkedInjectComplete`, and the ending `VirtualiseKernel` with its two failure exits.
  - The version gate is `DarwinVersion`'s `OcMatchDarwinVersion`, taken by `INSTANCE`.
  - Firmware and storage results are chosen at each call. `DisableResults` names the outcomes `DisableVirtualFs` may have; a plist file may read back empty (`ReadPlistSize`).
- **UefiSupport**: `OcLoadUefiSupport` in the order it changes state.
  - `OcLoadBooterUefiSupport` (the MMIO whitelist), then `ReserveMemory`.
  - `LoadDriver` (one driver per step, with the connect-list allocation and appends), then `EndLoadDrivers` (the terminator).
  - `OcScheduleExitBootServices` (the output and audio loaders' calls), then `CreateExitEvent`.
- **Boot**: composes the two.
  - The UEFI stage runs first, then the kernel stage.
  - Then `ExitBootServices` walks the handler table with the recursive `WalkHandlers`, as the booter's wrapper does (that wrapper is outside `src/`, so it is modelled from the spec).
  - `MC_Boot` gives the configurations.

## Plan for the remaining parts

Done:
- the Mach-O reader;
- the vtable lookup, on vtables the build produces;
- the prelinked vtable build;
- the vtable linker;
- the Darwin version parser;
- the expander;
- the load-command strip;
- the kernel hook;
- UEFI support and their composition.

Still to do:
1. The strip of a code signature followed by a kept command is not reached: the expander's images keep the linker's order, with the strippable commands last.

Not modelled:
- `OcCpuInternals.h` and `OpenCore.h`: declarations only.
- `MachoRuntimeGetEntryAddress`: an unchecked read of the thread command of an image already loaded by the firmware. It changes no state, and it checks nothing that a property could hold it to.
- The byte layout of the indirect symbol table, which the reader bounds as 16-byte nlist entries (Header.c 946). Symbol entries are one flag in the model.
- Protocol reinstall, the booter and kernel quirks, `OcExitBootServicesHandler` and the bytes the patcher writes. These pass configuration to firmware protocols or rewrite kernel bytes, and have no control state of their own.
- The string formatting of paths and debug output.

---------------------------- MODULE KernelHook ----------------------------
(***************************************************************************)
(* The kernel patch and inject orchestrator (Platform/OpenCore/            *)
(* OpenCoreKernel.c): OcLoadKernelSupport installs OcKernelFileOpen over    *)
(* the firmware's file API; every open of a kernel file reads the kexts    *)
(* and sizes the reservation (OcKernelLoadKextsAndReserve), reads the       *)
(* kernel into a buffer that large (ReadAppleKernel), patches it            *)
(* (OcKernelApplyPatches), opens the prelinked container, patches and       *)
(* blocks kexts in it and injects the configured kexts                      *)
(* (OcKernelProcessPrelinked), and hands the buffer to a virtual file.     *)
(*                                                                         *)
(* The Kernel.Add, Kernel.Patch and Kernel.Block entries are drawn in Init *)
(* and held fixed; what the firmware and the storage answer is chosen at   *)
(* each call.  Buffers are counted, not stored: plistBufs[k] is the number  *)
(* of plist buffers of kext k allocated and not freed, plistData[k] whether *)
(* Kext->PlistData points to one.  One kext of a loop is one step.         *)
(***************************************************************************)
EXTENDS Naturals, FiniteSets

CONSTANTS
  Kexts,         (* indices of Config->Kernel.Add                           *)
  Patches,       (* indices of Config->Kernel.Patch                         *)
  Blocks,        (* indices of Config->Kernel.Block                         *)
  KextConfigs,   (* Add entries, with what reading their files yields        *)
  PatchConfigs,  (* Patch entries                                           *)
  BlockConfigs,  (* Block entries                                           *)
  Versions,      (* values OcKernelReadDarwinVersion can return             *)
  ReserveBase,   (* PRELINK_INFO_RESERVE_SIZE                               *)
  MaxOpens,      (* bound on the kernel-file opens of one boot              *)
  DisableResults (* whether DisableVirtualFs succeeds: the outcomes a run    *)
                 (* lets the firmware return                                *)

(* OcMatchDarwinVersion, as DarwinVersion models it; only the operator is  *)
(* used.                                                                    *)
DV == INSTANCE DarwinVersion
        WITH VersionBufLen <- 1, Texts <- {}, Windows <- {}, Versions <- {},
             EmptyComponentTexts <- {}, NONE <- "none",
             found <- FALSE, text <- <<>>, window <- "none", version <- 0,
             matched <- FALSE, phase <- "boot"

Match(v, w) == DV!OcMatchDarwinVersion(v, w.min, w.max)

VARIABLES
  addCfg,     (* Config->Kernel.Add: [Kexts -> KextConfigs]                 *)
  patchCfg,   (* Config->Kernel.Patch                                       *)
  blockCfg,   (* Config->Kernel.Block                                       *)
  enabled,    (* Kext->Enabled                                              *)
  plistData,  (* Kext->PlistData # NULL                                     *)
  plistSize,  (* Kext->PlistDataSize                                        *)
  imageData,  (* Kext->ImageData # NULL                                     *)
  imageSize,  (* Kext->ImageDataSize                                        *)
  plistBufs,  (* plist buffers of each kext allocated and not freed         *)
  imageBufs,  (* image buffers of each kext allocated and not freed         *)
  loaded,     (* OcLoadKernelSupport has run                                *)
  hooked,     (* OcKernelFileOpen is installed by EnableVirtualFs           *)
  configured, (* mOcStorage and mOcConfiguration are set                    *)
  khPhase,    (* where the current open is; "idle" between opens            *)
  idx,        (* Index of the loop in progress                              *)
  reserve,    (* ReserveSize, the reservation of this open                  *)
  version,    (* DarwinVersion of this open                                 *)
  used,       (* reserved bytes this open's injections have taken           *)
  injected,   (* kexts PrelinkedInjectKext accepted in this open            *)
  kpatched,   (* kernel patches applied in this open                        *)
  xpatched,   (* kext patches applied in this open                          *)
  blocked,    (* kexts blocked in this open                                 *)
  kernels,    (* kernel buffers allocated and owned by no virtual file      *)
  names,      (* file-name copies allocated and owned by no virtual file    *)
  vfiles,     (* virtual files created                                      *)
  opens       (* kernel-file opens so far                                   *)

cfgVars == <<addCfg, patchCfg, blockCfg>>
kextVars == <<enabled, plistData, plistSize, imageData, imageSize, plistBufs, imageBufs>>
openVars == <<khPhase, idx, reserve, version, used, injected,
              kpatched, xpatched, blocked, kernels, names, vfiles, opens>>
vars == <<cfgVars, kextVars, loaded, hooked, configured, openVars>>

NumKexts == Cardinality(Kexts)

(* PrelinkedReserveKextSize: the plist and, when there is one, the         *)
(* executable are reserved room for.                                       *)
PrelinkedReserveKextSize(res, psize, idata, isize) ==
  res + psize + (IF idata THEN isize ELSE 0)

KextSize(k) == PrelinkedReserveKextSize(0, plistSize[k], imageData[k], imageSize[k])

TypeOK ==
  /\ addCfg \in [Kexts -> KextConfigs]
  /\ patchCfg \in [Patches -> PatchConfigs]
  /\ blockCfg \in [Blocks -> BlockConfigs]
  /\ enabled \in [Kexts -> BOOLEAN]
  /\ plistData \in [Kexts -> BOOLEAN] /\ imageData \in [Kexts -> BOOLEAN]
  /\ plistSize \in [Kexts -> Nat] /\ imageSize \in [Kexts -> Nat]
  /\ plistBufs \in [Kexts -> Nat] /\ imageBufs \in [Kexts -> Nat]
  /\ {loaded, hooked, configured} \subseteq BOOLEAN
  /\ khPhase \in {"idle", "reserve", "read", "kpatch", "context", "xpatch",
                  "block", "prepare", "inject", "finish"}
  /\ idx \in 1..NumKexts + 1
  /\ reserve \in Nat /\ used \in Nat /\ version \in Versions \cup {0}
  /\ injected \subseteq Kexts
  /\ kpatched \subseteq Patches /\ xpatched \subseteq Patches /\ blocked \subseteq Blocks
  /\ kernels \in Nat /\ names \in Nat /\ vfiles \in Nat /\ opens \in 0..MaxOpens

Init ==
  /\ addCfg \in [Kexts -> KextConfigs]
  /\ patchCfg \in [Patches -> PatchConfigs]
  /\ blockCfg \in [Blocks -> BlockConfigs]
  /\ enabled = [k \in Kexts |-> addCfg[k].enabled]
  /\ plistData = [k \in Kexts |-> FALSE] /\ imageData = [k \in Kexts |-> FALSE]
  /\ plistSize = [k \in Kexts |-> 0] /\ imageSize = [k \in Kexts |-> 0]
  /\ plistBufs = [k \in Kexts |-> 0] /\ imageBufs = [k \in Kexts |-> 0]
  /\ loaded = FALSE /\ hooked = FALSE /\ configured = FALSE
  /\ khPhase = "idle" /\ idx = 1 /\ reserve = 0 /\ version = 0 /\ used = 0
  /\ injected = {}
  /\ kpatched = {} /\ xpatched = {} /\ blocked = {}
  /\ kernels = 0 /\ names = 0 /\ vfiles = 0 /\ opens = 0

(* OcLoadKernelSupport: the globals are set only if EnableVirtualFs        *)
(* succeeds.                                                               *)
OcLoadKernelSupport ==
  /\ ~loaded
  /\ \E ok \in BOOLEAN : hooked' = ok /\ configured' = ok
  /\ loaded' = TRUE
  /\ UNCHANGED <<cfgVars, kextVars, openVars>>

(* OcUnloadKernelSupport: with mOcStorage set, DisableVirtualFs removes    *)
(* the hook, or fails and leaves it installed; the failure is only logged, *)
(* and the globals are cleared either way.                                 *)
OcUnloadKernelSupport ==
  /\ configured /\ khPhase = "idle"
  /\ \E ok \in DisableResults : hooked' = (hooked /\ ~ok)
  /\ configured' = FALSE
  /\ UNCHANGED <<cfgVars, kextVars, loaded, openVars>>
(* OcKernelFileOpen: SafeFileOpen may fail; a file that is not a kernel    *)
(* opened for reading (or is System\Library\Kernels\kernel) goes to        *)
(* CreateRealFile; a kernel starts OcKernelLoadKextsAndReserve, whose       *)
(* result ReadAppleKernel takes as its argument.                           *)
OcKernelFileOpen ==
  /\ hooked /\ khPhase = "idle" /\ opens < MaxOpens
  /\ opens' = opens + 1
  /\ \/ /\ UNCHANGED <<khPhase, idx, reserve, version, used, injected,
                       kpatched, xpatched, blocked, kernels, names, vfiles>>
     \/ /\ khPhase' = "reserve" /\ idx' = 1 /\ reserve' = ReserveBase
        /\ used' = 0 /\ injected' = {}
        /\ kpatched' = {} /\ xpatched' = {} /\ blocked' = {}
        /\ UNCHANGED <<version, kernels, names, vfiles>>
  /\ UNCHANGED <<cfgVars, kextVars, loaded, hooked, configured>>

(*** OcKernelLoadKextsAndReserve: one step per Kernel.Add entry. ***)

ReserveStep == khPhase = "reserve" /\ idx <= NumKexts

NextKext(k) == /\ idx' = k + 1
               /\ UNCHANGED <<khPhase, version, used, injected, kpatched,
                              xpatched, blocked, kernels, names, vfiles, opens>>

(* The plist size a read yields: an empty file gives a buffer of size 0.   *)
ReadPlistSize(c) == IF c.plist = "empty" THEN 0 ELSE c.plistLen

SkipDisabledKext(k) ==
  /\ ~enabled[k]
  /\ NextKext(k)
  /\ UNCHANGED <<cfgVars, kextVars, loaded, hooked, configured, reserve>>

(* Mutant: a kext loaded by an earlier open is not reserved for again.     *)
ReserveLoadedSkipped(k) ==
  /\ enabled[k] /\ plistSize[k] # 0
  /\ NextKext(k)
  /\ UNCHANGED <<cfgVars, kextVars, loaded, hooked, configured, reserve>>

(* A kext whose plist an earlier open read is reserved for again.          *)
ReserveLoadedKext(k) ==
  /\ enabled[k] /\ plistSize[k] # 0
  /\ reserve' = PrelinkedReserveKextSize(reserve, plistSize[k], imageData[k], imageSize[k])
  /\ NextKext(k)
  /\ UNCHANGED <<cfgVars, kextVars, loaded, hooked, configured>>

(* An empty BundlePath or PlistPath, or a path that does not fit FullPath, *)
(* disables the kext.                                                      *)
DisableKext(k) ==
  /\ enabled[k] /\ plistSize[k] = 0
  /\ addCfg[k].info = "bad"
  /\ enabled' = [enabled EXCEPT ![k] = FALSE]
  /\ NextKext(k)
  /\ UNCHANGED <<cfgVars, plistData, plistSize, imageData, imageSize, plistBufs,
                 imageBufs, loaded, hooked, configured, reserve>>

(* The storage does not have the plist: PlistData becomes NULL and the     *)
(* kext is disabled.                                                       *)
KextPlistMissing(k) ==
  /\ enabled[k] /\ plistSize[k] = 0
  /\ addCfg[k].info = "ok" /\ addCfg[k].plist = "missing"
  /\ enabled' = [enabled EXCEPT ![k] = FALSE]
  /\ plistData' = [plistData EXCEPT ![k] = FALSE]
  /\ NextKext(k)
  /\ UNCHANGED <<cfgVars, plistSize, imageData, imageSize, plistBufs,
                 imageBufs, loaded, hooked, configured, reserve>>

(* Mutant: the plist is not freed when the executable cannot be read.      *)
KextImageFailsLeaky(k) ==
  /\ enabled[k] /\ plistSize[k] = 0
  /\ addCfg[k].info = "ok" /\ addCfg[k].plist # "missing"
  /\ addCfg[k].exec \in {"long", "missing"}
  /\ enabled' = [enabled EXCEPT ![k] = FALSE]
  /\ plistSize' = [plistSize EXCEPT ![k] = ReadPlistSize(addCfg[k])]
  /\ plistBufs' = [plistBufs EXCEPT ![k] = @ + 1]
  /\ plistData' = [plistData EXCEPT ![k] = FALSE]
  /\ imageData' = IF addCfg[k].exec = "missing"
                  THEN [imageData EXCEPT ![k] = FALSE] ELSE imageData
  /\ NextKext(k)
  /\ UNCHANGED <<cfgVars, imageSize, imageBufs, loaded, hooked, configured, reserve>>

(* The plist is read, but the executable path does not fit FullPath or the *)
(* executable is missing: the kext is disabled and its plist freed; the    *)
(* plist size is left as read.                                              *)
KextImageFails(k) ==
  /\ enabled[k] /\ plistSize[k] = 0
  /\ addCfg[k].info = "ok" /\ addCfg[k].plist # "missing"
  /\ addCfg[k].exec \in {"long", "missing"}
  /\ enabled' = [enabled EXCEPT ![k] = FALSE]
  /\ plistSize' = [plistSize EXCEPT ![k] = ReadPlistSize(addCfg[k])]
  /\ plistBufs' = [plistBufs EXCEPT ![k] = @ + 1 - 1]
  /\ plistData' = [plistData EXCEPT ![k] = FALSE]
  /\ imageData' = IF addCfg[k].exec = "missing"
                  THEN [imageData EXCEPT ![k] = FALSE] ELSE imageData
  /\ NextKext(k)
  /\ UNCHANGED <<cfgVars, imageSize, imageBufs, loaded, hooked, configured, reserve>>

(* The plist, and the executable if the kext has one, are read and the     *)
(* kext is reserved for.                                                   *)
LoadKext(k) ==
  /\ enabled[k] /\ plistSize[k] = 0
  /\ addCfg[k].info = "ok" /\ addCfg[k].plist # "missing"
  /\ addCfg[k].exec \in {"none", "ok"}
  /\ plistSize' = [plistSize EXCEPT ![k] = ReadPlistSize(addCfg[k])]
  /\ plistBufs' = [plistBufs EXCEPT ![k] = @ + 1]
  /\ plistData' = [plistData EXCEPT ![k] = TRUE]
  /\ IF addCfg[k].exec = "ok"
     THEN /\ imageData' = [imageData EXCEPT ![k] = TRUE]
          /\ imageSize' = [imageSize EXCEPT ![k] = addCfg[k].imageLen]
          /\ imageBufs' = [imageBufs EXCEPT ![k] = @ + 1]
     ELSE UNCHANGED <<imageData, imageSize, imageBufs>>
  /\ reserve' = PrelinkedReserveKextSize(reserve, plistSize'[k], imageData'[k], imageSize'[k])
  /\ NextKext(k)
  /\ UNCHANGED <<cfgVars, enabled, loaded, hooked, configured>>

ReserveKext ==
  /\ ReserveStep
  /\ \/ SkipDisabledKext(idx)
     \/ ReserveLoadedKext(idx)
     \/ DisableKext(idx)
     \/ KextPlistMissing(idx)
     \/ KextImageFails(idx)
     \/ LoadKext(idx)
(* ReadAppleKernel, with OcKernelReadDarwinVersion on success: a file that *)
(* is not an Apple kernel goes to CreateRealFile; otherwise a buffer of     *)
(* the kernel's size plus the reservation is allocated.                    *)
ReadAppleKernel ==
  /\ khPhase = "reserve" /\ idx = NumKexts + 1
  /\ \/ khPhase' = "idle" /\ UNCHANGED <<kernels, version>>
     \/ /\ khPhase' = "kpatch" /\ kernels' = kernels + 1
        /\ version' \in Versions
  /\ UNCHANGED <<cfgVars, kextVars, loaded, hooked, configured, idx, reserve, used,
                 injected, kpatched, xpatched, blocked, names, vfiles, opens>>

(* OcKernelApplyPatches's filter: an enabled patch for the right target    *)
(* ("kernel" or a kext), in its version window, whose kext patcher can be  *)
(* initialised, and which is not borked.                                   *)
Applies(p, isKernel) ==
  LET c == patchCfg[p]
  IN /\ c.enabled /\ c.kernel = isKernel
     /\ Match(version, c.win)
     /\ isKernel \/ c.found
     /\ ~c.borked

(* OcKernelApplyPatches on the kernel buffer: nothing if                   *)
(* PatcherInitContextFromBuffer fails.                                     *)
KernelPatches ==
  /\ khPhase = "kpatch"
  /\ \E initOk \in BOOLEAN :
       kpatched' = IF initOk THEN {p \in Patches : Applies(p, TRUE)} ELSE {}
  /\ khPhase' = "context"
  /\ UNCHANGED <<cfgVars, kextVars, loaded, hooked, configured, idx, reserve, version,
                 used, injected, xpatched, blocked, kernels, names, vfiles, opens>>

(* OcKernelProcessPrelinked: PrelinkedContextInit.                         *)
PrelinkedContextInit ==
  /\ khPhase = "context"
  /\ khPhase' \in {"xpatch", "finish"}
  /\ UNCHANGED <<cfgVars, kextVars, loaded, hooked, configured, idx, reserve, version,
                 used, injected, kpatched, xpatched, blocked, kernels, names,
                 vfiles, opens>>

(* OcKernelApplyPatches on the prelinked context.                          *)
KextPatches ==
  /\ khPhase = "xpatch"
  /\ xpatched' = {p \in Patches : Applies(p, FALSE)}
  /\ khPhase' = "block"
  /\ UNCHANGED <<cfgVars, kextVars, loaded, hooked, configured, idx, reserve, version,
                 used, injected, kpatched, blocked, kernels, names, vfiles, opens>>

(* OcKernelBlockKexts: enabled entries in their window whose kext the      *)
(* patcher finds.                                                          *)
OcKernelBlockKexts ==
  /\ khPhase = "block"
  /\ blocked' = {b \in Blocks : /\ blockCfg[b].enabled
                                /\ Match(version, blockCfg[b].win)
                                /\ blockCfg[b].found}
  /\ khPhase' = "prepare"
  /\ UNCHANGED <<cfgVars, kextVars, loaded, hooked, configured, idx, reserve, version,
                 used, injected, kpatched, xpatched, kernels, names, vfiles, opens>>

(* PrelinkedInjectPrepare: the injection loop runs only if it succeeds.    *)
PrelinkedInjectPrepare ==
  /\ khPhase = "prepare"
  /\ \/ khPhase' = "inject" /\ idx' = 1
     \/ khPhase' = "finish" /\ UNCHANGED idx
  /\ UNCHANGED <<cfgVars, kextVars, loaded, hooked, configured, reserve, version,
                 used, injected, kpatched, xpatched, blocked, kernels, names,
                 vfiles, opens>>

(* Mutant: Enabled is not checked, so a kext disabled by a failed read is  *)
(* injected with its stale PlistDataSize.                                  *)
SkipsInjectionNoEnabled(k) ==
  plistSize[k] = 0 \/ ~Match(version, addCfg[k].win)

(* The injection loop skips a kext that is disabled, has no plist, or is  *)
(* out of its version window.  The /Library/Extensions path cannot fail to *)
(* fit when the storage path of the same bundle did, so that branch is     *)
(* left out.                                                               *)
SkipsInjection(k) ==
  ~enabled[k] \/ plistSize[k] = 0 \/ ~Match(version, addCfg[k].win)

(* PrelinkedInjectKext: it may fail; if it succeeds, the kext takes its    *)
(* plist and executable sizes of the buffer.                              *)
InjectKext(k) ==
  /\ khPhase = "inject" /\ k = idx /\ k <= NumKexts
  /\ idx' = k + 1
  /\ IF SkipsInjection(k)
     THEN UNCHANGED <<used, injected>>
     ELSE \/ UNCHANGED <<used, injected>>
          \/ injected' = injected \cup {k} /\ used' = used + KextSize(k)
  /\ UNCHANGED <<cfgVars, kextVars, loaded, hooked, configured, khPhase, reserve,
                 version, kpatched, xpatched, blocked, kernels, names, vfiles, opens>>

(* PrelinkedInjectComplete, then PrelinkedContextFree; the status is only  *)
(* logged.                                                                  *)
PrelinkedInjectComplete ==
  /\ khPhase = "inject" /\ idx = NumKexts + 1
  /\ khPhase' = "finish"
  /\ UNCHANGED <<cfgVars, kextVars, loaded, hooked, configured, idx, reserve, version,
                 used, injected, kpatched, xpatched, blocked, kernels, names,
                 vfiles, opens>>

(* Mutant: the kernel is not freed when the name copy cannot be allocated. *)
VirtualiseKernelLeaky ==
  /\ khPhase = "finish"
  /\ \/ UNCHANGED <<kernels, names, vfiles>>
     \/ kernels' = kernels - 1 /\ UNCHANGED <<names, vfiles>>
     \/ kernels' = kernels - 1 /\ vfiles' = vfiles + 1 /\ UNCHANGED names
  /\ khPhase' = "idle"
  /\ UNCHANGED <<cfgVars, kextVars, loaded, hooked, configured, idx, reserve, version,
                 used, injected, kpatched, xpatched, blocked, opens>>

(* Mutant: the kernel buffer is freed after the virtual file took it.     *)
VirtualiseKernelFreesOwned ==
  /\ khPhase = "finish"
  /\ \/ kernels' = kernels - 1 /\ UNCHANGED <<names, vfiles>>
     \/ kernels' = kernels - 1 /\ names' = names + 1 - 1 /\ UNCHANGED vfiles
     \/ kernels' = kernels - 2 /\ vfiles' = vfiles + 1 /\ UNCHANGED names
  /\ khPhase' = "idle"
  /\ UNCHANGED <<cfgVars, kextVars, loaded, hooked, configured, idx, reserve, version,
                 used, injected, kpatched, xpatched, blocked, opens>>

(* The end of the kernel path of OcKernelFileOpen: AllocateCopyPool of the *)
(* name failing frees the kernel; CreateVirtualFile failing frees both;   *)
(* otherwise the virtual file owns both.                                   *)
VirtualiseKernel ==
  /\ khPhase = "finish"
  /\ \/ kernels' = kernels - 1 /\ UNCHANGED <<names, vfiles>>
     \/ kernels' = kernels - 1 /\ names' = names + 1 - 1 /\ UNCHANGED vfiles
     \/ kernels' = kernels - 1 /\ vfiles' = vfiles + 1 /\ UNCHANGED names
  /\ khPhase' = "idle"
  /\ UNCHANGED <<cfgVars, kextVars, loaded, hooked, configured, idx, reserve, version,
                 used, injected, kpatched, xpatched, blocked, opens>>

Next ==
  \/ OcLoadKernelSupport
  \/ OcUnloadKernelSupport
  \/ OcKernelFileOpen
  \/ ReserveKext
  \/ ReadAppleKernel
  \/ KernelPatches
  \/ PrelinkedContextInit
  \/ KextPatches
  \/ OcKernelBlockKexts
  \/ PrelinkedInjectPrepare
  \/ \E k \in Kexts : InjectKext(k)
  \/ PrelinkedInjectComplete
  \/ VirtualiseKernel

Spec == Init /\ [][Next]_vars /\ WF_vars(Next)
(* The reservation OcKernelLoadKextsAndReserve hands to ReadAppleKernel is *)
(* enough: what the injection loop of the same open injects fits in it,  *)
(* on the first open and on a later one, where the kexts are already      *)
(* loaded and only the size computation runs.                              *)
InjectionHasRoom == used > 0 => ReserveBase + used <= reserve

(* Only kexts whose plist buffer is live and that are still enabled are    *)
(* injected: a kext whose executable could not be read keeps a nonzero     *)
(* PlistDataSize after its plist is freed.                                 *)
InjectsLiveKexts == \A k \in injected : enabled[k] /\ plistData[k]

(* Every plist and executable buffer the load loop allocates is the one   *)
(* Kext->PlistData or Kext->ImageData points to, or has been freed: none   *)
(* is lost on a failure path or overwritten by a later read.               *)
KextBuffersOwned ==
  \A k \in Kexts :
    /\ plistBufs[k] = IF plistData[k] THEN 1 ELSE 0
    /\ imageBufs[k] = IF imageData[k] THEN 1 ELSE 0

(* Between opens, every kernel buffer ReadAppleKernel allocated and every  *)
(* copy of the file name is either freed or owned by a virtual file.      *)
KernelBuffersOwned == khPhase = "idle" => kernels = 0 /\ names = 0

(* OcKernelFileOpen only processes a kernel while mOcConfiguration is set: *)
(* OcUnloadKernelSupport removes the hook before clearing it.              *)
HookSeesConfig == khPhase # "idle" => configured
====

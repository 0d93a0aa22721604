-------------------------------- MODULE Boot --------------------------------
(***************************************************************************)
(* One boot through OpenCore's two platform parts: OcLoadUefiSupport       *)
(* (UefiSupport), then OcLoadKernelSupport and the kernel-file opens the    *)
(* hook serves (KernelHook), then ExitBootServices, where the booter's      *)
(* ExitBootServices wrapper (OcAbcInitialize, given                         *)
(* mOcExitBootServicesHandlers) calls the scheduled handlers up to the      *)
(* first NULL and the event created by OcLoadUefiSupport runs               *)
(* OcExitBootServicesHandler.  Everything runs on the one boot-services     *)
(* thread, so the parts are sequential: boot.efi opens the kernel and then *)
(* exits boot services, never in the middle of an open.                    *)
(***************************************************************************)
EXTENDS Naturals, Sequences

CONSTANTS
  Kexts, Patches, Blocks, KextConfigs, PatchConfigs, BlockConfigs, Versions,
  ReserveBase, MaxOpens, DisableResults,
  NumDrivers, DriverConfigs, Regions, MmioEntries, HandlerMax, MaxSchedules, NULL

VARIABLES
  addCfg, patchCfg, blockCfg, enabled, plistData, plistSize, imageData, imageSize,
  plistBufs, imageBufs, loaded, hooked, configured, khPhase, idx, reserve, version,
  used, injected, kpatched, xpatched, blocked, kernels, names, vfiles, opens,
  drvCfg, connectMode, devirt, ueStage, mmio, reserved, dIdx, connectCap,
  connectList, started, handlers, hIndex, scheduled, event,
  bootStage,  (* "uefi", "kernel" or "exited"                               *)
  ran,        (* the handlers called at ExitBootServices, in order          *)
  overrun     (* the walk read past mOcExitBootServicesHandlers             *)

KH == INSTANCE KernelHook
UE == INSTANCE UefiSupport

khVars == <<addCfg, patchCfg, blockCfg, enabled, plistData, plistSize, imageData,
            imageSize, plistBufs, imageBufs, loaded, hooked, configured, khPhase, idx,
            reserve, version, used, injected, kpatched, xpatched, blocked,
            kernels, names, vfiles, opens>>
ueVars == <<drvCfg, connectMode, devirt, ueStage, mmio, reserved, dIdx, connectCap,
            connectList, started, handlers, hIndex, scheduled, event>>
bootVars == <<bootStage, ran, overrun>>
vars == <<khVars, ueVars, bootVars>>

(* The ExitBootServices wrapper's walk: handlers from index i on, up to    *)
(* the first NULL; an index past the array is a read out of bounds.        *)
RECURSIVE WalkHandlers(_)
WalkHandlers(i) ==
  IF i > HandlerMax THEN [calls |-> <<>>, out |-> TRUE]
  ELSE IF handlers[i] = NULL THEN [calls |-> <<>>, out |-> FALSE]
  ELSE LET rest == WalkHandlers(i + 1)
       IN [calls |-> <<handlers[i]>> \o rest.calls, out |-> rest.out]

TypeOK ==
  /\ KH!TypeOK /\ UE!TypeOK
  /\ bootStage \in {"uefi", "kernel", "exited"}
  /\ ran \in Seq(1..MaxSchedules) /\ overrun \in BOOLEAN

Init ==
  /\ KH!Init /\ UE!Init
  /\ bootStage = "uefi" /\ ran = <<>> /\ overrun = FALSE

UefiStep ==
  /\ bootStage = "uefi"
  /\ UE!Next
  /\ UNCHANGED <<khVars, bootVars>>

(* OcLoadUefiSupport has returned; the kernel support is loaded next.      *)
UefiLoaded ==
  /\ bootStage = "uefi" /\ ueStage = "done"
  /\ bootStage' = "kernel"
  /\ UNCHANGED <<khVars, ueVars, ran, overrun>>

KernelStep ==
  /\ bootStage = "kernel"
  /\ KH!Next
  /\ UNCHANGED <<ueVars, bootVars>>

(* boot.efi calls ExitBootServices once the kernel support is loaded and  *)
(* no open is in progress.                                                 *)
ExitBootServices ==
  /\ bootStage = "kernel" /\ loaded /\ khPhase = "idle"
  /\ LET w == WalkHandlers(0)
     IN ran' = w.calls /\ overrun' = w.out
  /\ bootStage' = "exited"
  /\ UNCHANGED <<khVars, ueVars>>

(* After ExitBootServices nothing of the boot loader runs.                 *)
Exited ==
  /\ bootStage = "exited"
  /\ UNCHANGED vars

Next == UefiStep \/ UefiLoaded \/ KernelStep \/ ExitBootServices \/ Exited

Spec == Init /\ [][Next]_vars /\ WF_vars(Next)
(*** Properties, each about the code named in its comment. ***)

(* See KernelHook: the reservation covers every injection of its open.    *)
InjectionHasRoom == KH!InjectionHasRoom

(* See KernelHook: only enabled kexts with a live plist are injected.      *)
InjectsLiveKexts == KH!InjectsLiveKexts

(* See KernelHook: every plist and executable buffer is owned or freed.   *)
KextBuffersOwned == KH!KextBuffersOwned

(* See KernelHook: between opens every kernel buffer and name copy is     *)
(* freed or owned by a virtual file.                                       *)
KernelBuffersOwned == KH!KernelBuffersOwned

(* See KernelHook: the hook never processes a kernel without a            *)
(* configuration.                                                          *)
HookSeesConfig == KH!HookSeesConfig

(* See UefiSupport: the connect list and its terminator fit the entries   *)
(* OcLoadDrivers allocated.                                                *)
ConnectListFits == UE!ConnectListFits

(* At ExitBootServices the walk of mOcExitBootServicesHandlers stops at a *)
(* NULL inside the array, however many times the loaders called            *)
(* OcScheduleExitBootServices: the last slot is never filled.             *)
HandlerWalkInBounds == ~overrun

(* The kernel hook keeps the state it works on sound over a whole boot,    *)
(* whatever the storage and the firmware return (spec 5, shared           *)
(* resources: every allocation is freed on every exit path): each kext     *)
(* entry owns exactly the buffers its pointers name, also when its plist   *)
(* file is empty (OcKernelLoadKextsAndReserve), and no kernel is processed *)
(* after OcUnloadKernelSupport cleared the configuration, also when        *)
(* DisableVirtualFs fails.                                                 *)
HookStateSound == KextBuffersOwned /\ HookSeesConfig
====

---------------------------- MODULE UefiSupport ----------------------------
(***************************************************************************)
(* OcLoadUefiSupport (Platform/OpenCore/OpenCoreUefi.c) in the order it    *)
(* changes state: OcLoadBooterUefiSupport builds the MMIO whitelist, the    *)
(* ReservedMemory loop allocates the regions, OcLoadDrivers loads, starts   *)
(* and lists the drivers to connect, the output and audio loaders may call  *)
(* OcScheduleExitBootServices, and the ExitBootServices event is created.  *)
(*                                                                         *)
(* The protocol installs, NVRAM writes and quirks in between only call the *)
(* firmware and are left out.  Drivers, regions and whitelist entries are  *)
(* indices into the configuration; what the firmware answers is chosen at  *)
(* each call.  One driver of the OcLoadDrivers loop is one step.           *)
(***************************************************************************)
EXTENDS Naturals, Sequences

CONSTANTS
  NumDrivers,    (* Config->Uefi.Drivers.Count                              *)
  DriverConfigs, (* [comment, pathOk]: a '#' name, a path that fits         *)
  Regions,       (* Config->Uefi.ReservedMemory: [enabled, aligned]         *)
  MmioEntries,   (* Config->Booter.MmioWhitelist: the Enabled flags         *)
  HandlerMax,    (* OC_EXIT_BOOT_SERVICES_HANDLER_MAX                       *)
  MaxSchedules,  (* calls of OcScheduleExitBootServices by the loaders      *)
  NULL

Drivers == 1..NumDrivers

VARIABLES
  drvCfg,      (* Config->Uefi.Drivers                                      *)
  connectMode, (* Config->Uefi.ConnectDrivers                               *)
  devirt,      (* Config->Booter.Quirks.DevirtualiseMmio                    *)
  ueStage,     (* "booter", "reserve", "drivers", "output" or "done"        *)
  mmio,        (* AbcSettings.MmioWhitelist, NULL or the entries kept       *)
  reserved,    (* regions AllocatePages reserved                            *)
  dIdx,        (* Index of OcLoadDrivers                                    *)
  connectCap,  (* entries allocated for *DriversToConnect, 0 while NULL     *)
  connectList, (* the handles written through DriversToConnectIterator      *)
  started,     (* drivers StartImage started                                *)
  handlers,    (* mOcExitBootServicesHandlers[0..HandlerMax]                *)
  hIndex,      (* mOcExitBootServicesIndex                                  *)
  scheduled,   (* OcScheduleExitBootServices calls so far                   *)
  event        (* the ExitBootServices event is created                     *)

ueVars == <<drvCfg, connectMode, devirt, ueStage, mmio, reserved, dIdx, connectCap,
            connectList, started, handlers, hIndex, scheduled, event>>

TypeOK ==
  /\ drvCfg \in [Drivers -> DriverConfigs]
  /\ connectMode \in BOOLEAN /\ devirt \in BOOLEAN
  /\ ueStage \in {"booter", "reserve", "drivers", "output", "done"}
  /\ mmio = NULL \/ mmio \in Seq(DOMAIN MmioEntries)
  /\ reserved \subseteq DOMAIN Regions
  /\ dIdx \in 1..NumDrivers + 1
  /\ connectCap \in 0..NumDrivers + 1
  /\ connectList \in Seq(Drivers \cup {NULL})
  /\ started \subseteq Drivers
  /\ handlers \in [0..HandlerMax -> (1..MaxSchedules) \cup {NULL}]
  /\ hIndex \in 0..HandlerMax /\ scheduled \in 0..MaxSchedules
  /\ event \in BOOLEAN

Init ==
  /\ drvCfg \in [Drivers -> DriverConfigs]
  /\ connectMode \in BOOLEAN /\ devirt \in BOOLEAN
  /\ ueStage = "booter" /\ mmio = NULL /\ reserved = {}
  /\ dIdx = 1 /\ connectCap = 0 /\ connectList = <<>>
  /\ started = {}
  /\ handlers = [i \in 0..HandlerMax |-> NULL] /\ hIndex = 0 /\ scheduled = 0
  /\ event = FALSE

(* OcLoadBooterUefiSupport: with DevirtualiseMmio and a non-empty          *)
(* whitelist, Count entries are allocated and the enabled ones copied in   *)
(* order; a failed allocation leaves the whitelist NULL.                   *)
OcLoadBooterUefiSupport ==
  /\ ueStage = "booter"
  /\ IF devirt /\ Len(MmioEntries) > 0
     THEN mmio' \in {NULL, SelectSeq([i \in DOMAIN MmioEntries |-> i],
                                     LAMBDA i : MmioEntries[i])}
     ELSE mmio' = NULL
  /\ ueStage' = "reserve"
  /\ UNCHANGED <<drvCfg, connectMode, devirt, reserved, dIdx, connectCap, connectList,
                 started, handlers, hIndex, scheduled, event>>

(* The ReservedMemory loop: an enabled region whose address and size are  *)
(* 4K-aligned is passed to AllocatePages, which may fail.                  *)
ReserveMemory ==
  /\ ueStage = "reserve"
  /\ \E failed \in SUBSET DOMAIN Regions :
       reserved' = {r \in DOMAIN Regions : /\ Regions[r].enabled
                                           /\ Regions[r].aligned
                                           /\ r \notin failed}
  /\ ueStage' = "drivers"
  /\ UNCHANGED <<drvCfg, connectMode, devirt, mmio, dIdx, connectCap, connectList,
                 started, handlers, hIndex, scheduled, event>>
(*** OcLoadDrivers, with DriversToConnect when ConnectDrivers is set. ***)

(* Mutant: the entry for the NULL terminator is not counted.               *)
ConnectEntriesNoTerminator(i) == NumDrivers - (i - 1)

(* The number of entries allocated for the list when driver i (1-based) is *)
(* the first one to need connection: Count + 1 - Index.                    *)
ConnectEntries(i) == NumDrivers + 1 - (i - 1)

(* *DriversToConnectIterator = ImageHandle; ++DriversToConnectIterator.    *)
AppendHandle(h) == connectList' = Append(connectList, h)

NextDriver(i) == dIdx' = i + 1 /\ UNCHANGED <<ueStage, connectCap, connectList>>

(* The rest of an iteration for a driver StartImage started: with no list *)
(* wanted, or no DriverBinding on the image, nothing; otherwise the list   *)
(* is allocated on the first such driver (a failure frees the driver and   *)
(* returns, leaving it NULL) and the handle appended.                     *)
ListDriver(i) ==
  \/ NextDriver(i)
  \/ /\ connectMode /\ connectCap # 0
     /\ AppendHandle(i) /\ dIdx' = i + 1 /\ UNCHANGED <<ueStage, connectCap>>
  \/ /\ connectMode /\ connectCap = 0
     /\ connectCap' = ConnectEntries(i) /\ AppendHandle(i)
     /\ dIdx' = i + 1 /\ UNCHANGED <<ueStage>>
  \/ /\ connectMode /\ connectCap = 0
     /\ ueStage' = "output"
     /\ UNCHANGED <<connectCap, connectList, dIdx>>

(* One iteration of the loop.  A '#' name or a path that does not fit     *)
(* skips the driver; a file the storage lacks, or a failing LoadImage or  *)
(* StartImage (which unloads the image), ends the iteration; a started    *)
(* driver may be listed for connection.                                    *)
LoadDriver(i) ==
  /\ ueStage = "drivers" /\ dIdx = i /\ i <= NumDrivers
  /\ \/ /\ drvCfg[i].comment \/ ~drvCfg[i].pathOk
        /\ NextDriver(i) /\ UNCHANGED started
     \/ /\ ~drvCfg[i].comment /\ drvCfg[i].pathOk
        /\ NextDriver(i) /\ UNCHANGED started
     \/ /\ ~drvCfg[i].comment /\ drvCfg[i].pathOk
        /\ started' = started \cup {i}
        /\ ListDriver(i)
  /\ UNCHANGED <<drvCfg, connectMode, devirt, mmio, reserved, handlers, hIndex,
                 scheduled, event>>

(* The list is NULL-terminated when an iterator was set; the caller then  *)
(* registers and connects the drivers.                                     *)
EndLoadDrivers ==
  /\ ueStage = "drivers" /\ dIdx = NumDrivers + 1
  /\ IF connectCap # 0 THEN AppendHandle(NULL) ELSE UNCHANGED connectList
  /\ ueStage' = "output"
  /\ UNCHANGED <<drvCfg, connectMode, devirt, mmio, reserved, dIdx, connectCap,
                 started, handlers, hIndex, scheduled, event>>

(* Mutant: the table is allowed to fill up, terminator slot included.      *)
ScheduleUnguarded ==
  /\ ueStage = "output" /\ scheduled < MaxSchedules
  /\ scheduled' = scheduled + 1
  /\ handlers' = [handlers EXCEPT ![hIndex] = scheduled + 1] /\ hIndex' = hIndex + 1
  /\ UNCHANGED <<drvCfg, connectMode, devirt, ueStage, mmio, reserved, dIdx,
                 connectCap, connectList, started, event>>

(* OcScheduleExitBootServices, called by the output and audio loaders with *)
(* handler number scheduled + 1: once Index + 1 reaches the maximum the    *)
(* handler is dropped.                                                     *)
OcScheduleExitBootServices ==
  /\ ueStage = "output" /\ scheduled < MaxSchedules
  /\ scheduled' = scheduled + 1
  /\ IF hIndex + 1 = HandlerMax
     THEN UNCHANGED <<handlers, hIndex>>
     ELSE handlers' = [handlers EXCEPT ![hIndex] = scheduled + 1] /\ hIndex' = hIndex + 1
  /\ UNCHANGED <<drvCfg, connectMode, devirt, ueStage, mmio, reserved, dIdx,
                 connectCap, connectList, started, event>>

(* CreateEvent of the ExitBootServices notification, the last step.        *)
CreateExitEvent ==
  /\ ueStage = "output"
  /\ event' = TRUE /\ ueStage' = "done"
  /\ UNCHANGED <<drvCfg, connectMode, devirt, mmio, reserved, dIdx, connectCap,
                 connectList, started, handlers, hIndex, scheduled>>

Next ==
  \/ OcLoadBooterUefiSupport
  \/ ReserveMemory
  \/ \E i \in Drivers : LoadDriver(i)
  \/ EndLoadDrivers
  \/ OcScheduleExitBootServices
  \/ CreateExitEvent

(* The handles OcLoadDrivers writes, the NULL terminator included, fit in *)
(* the entries it allocated when the first driver needing connection was  *)
(* met, and the list handed to the registration ends with NULL.           *)
ConnectListFits ==
  /\ Len(connectList) <= connectCap
  /\ ueStage \in {"output", "done"} /\ connectCap # 0 =>
       connectList[Len(connectList)] = NULL

====

------------------------------- MODULE MC_Boot -------------------------------
(***************************************************************************)
(* Boot with two kexts, one patch and one block entry, two drivers, one    *)
(* reserved region, one MMIO whitelist entry and more handler schedules    *)
(* than mOcExitBootServicesHandlers has slots.                             *)
(***************************************************************************)
EXTENDS Boot

(* Version windows, as OcParseDarwinVersion leaves them: open, and from 2  *)
(* on.  Versions 1 and 3 fall on either side of the latter.                *)
OpenWindow == [min |-> 0, max |-> 0]
LateWindow == [min |-> 2, max |-> 0]

AddEntry(en, info, plist, exec, win) ==
  [enabled |-> en, info |-> info, plist |-> plist, exec |-> exec,
   plistLen |-> 1, imageLen |-> 1, win |-> win]

(* A kext with an executable, a plist-only kext for late kernels, one     *)
(* whose executable is missing, one whose executable path is too long,   *)
(* one whose plist is missing, one with an empty bundle path, and one     *)
(* disabled in the configuration.                                          *)
MCKextConfigs ==
  { AddEntry(TRUE, "ok", "ok", "ok", OpenWindow),
    AddEntry(TRUE, "ok", "ok", "none", LateWindow),
    AddEntry(TRUE, "ok", "ok", "missing", OpenWindow),
    AddEntry(TRUE, "ok", "ok", "long", OpenWindow),
    AddEntry(TRUE, "ok", "missing", "ok", OpenWindow),
    AddEntry(TRUE, "bad", "ok", "ok", OpenWindow),
    AddEntry(FALSE, "ok", "ok", "ok", OpenWindow) }

(* A kext whose plist file is empty, next to one that loads normally.     *)
MCEmptyPlistConfigs ==
  { AddEntry(TRUE, "ok", "empty", "ok", OpenWindow),
    AddEntry(TRUE, "ok", "ok", "ok", OpenWindow) }

MCPatchConfigs ==
  { [enabled |-> TRUE, kernel |-> TRUE, win |-> LateWindow, found |-> TRUE, borked |-> FALSE],
    [enabled |-> TRUE, kernel |-> FALSE, win |-> OpenWindow, found |-> TRUE, borked |-> FALSE] }

MCBlockConfigs == { [enabled |-> TRUE, win |-> LateWindow, found |-> TRUE] }

MCDriverConfigs == { [comment |-> FALSE, pathOk |-> TRUE], [comment |-> TRUE, pathOk |-> TRUE] }

MCRegions == << [enabled |-> TRUE, aligned |-> TRUE] >>

MCMmioEntries == << TRUE >>
(* The fingerprint TLC keeps of a state.  Once OcLoadUefiSupport has       *)
(* returned, no step and no property reads the driver list, the whitelist, *)
(* the regions or the UEFI configuration again (ConnectListFits was        *)
(* checked on every state of the UEFI stage, where they are kept), so      *)
(* states differing only in them have the same future.                     *)
BootView ==
  <<khVars, bootVars, handlers, hIndex, scheduled, event, ueStage,
    IF bootStage = "uefi" THEN ueVars ELSE <<>>>>
====

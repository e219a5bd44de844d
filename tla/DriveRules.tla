------------------------------ MODULE DriveRules ------------------------------
(***************************************************************************)
(* Whether a drive in its region state can read a protected disc           *)
(* (drive/region.go, drive/protection.go), which decides between the drive *)
(* and a decrypted copy (daemon/worker.go).                                *)
(*                                                                         *)
(* A region mask has a bit for every region that is NOT allowed; here it   *)
(* is the set of those regions, and 0xff is the set of all of them.        *)
(***************************************************************************)
EXTENDS Integers

CONSTANT Region     \* the regions a mask has bits for (1..8 in the code)

RPC1 == 0
RPC2 == 1

DriveRegion == [scheme : {RPC1, RPC2}, typeCode : 0..3, mask : SUBSET Region]
DiscProtection == [system : 0..2, regionMask : SUBSET Region]

-----------------------------------------------------------------------------
\* Region.IsSet.
IsSet(r) == r.typeCode # 0 /\ r.mask # Region

\* Region.Regions, empty when none is set.
RegionsOfDrive(r) == IF IsSet(r) THEN Region \ r.mask ELSE {}

\* Region.CanDecryptCSS.
CanDecryptCSS(r) == r.scheme # RPC2 \/ IsSet(r)

\* Protection.Protected, RegionFree and Regions.
Protected(p) == p.system # 0
RegionFree(p) == p.regionMask = {}
RegionsOfDisc(p) == Region \ p.regionMask

\* PlayableIn compares the masks' common bits with zero only, and forgets that
\* a drive with no region set plays nothing.
PlayableInAnyState(p, r) ==
    \/ ~Protected(p)
    \/ RegionFree(p) \/ r.scheme # RPC2
    \/ (Region \ p.regionMask) \ r.mask # {}

\* Protection.PlayableIn, its returns in the order of the code.
PlayableIn(p, r) ==
    \/ ~Protected(p)
    \/ /\ CanDecryptCSS(r)
       /\ \/ RegionFree(p) \/ r.scheme # RPC2
          \/ (Region \ p.regionMask) \ r.mask # {}

\* Worker.decryptNeeded: a drive that does not answer fails open.
decryptNeeded(readable, p, r) == readable /\ ~PlayableIn(p, r)

\* config.NativeDVD and DecryptFallback, and whether dvdbackup is installed.
RipConfig == [native : BOOLEAN, fallback : BOOLEAN, dvdbackup : BOOLEAN]

\* Worker.ripSource: where the titles of a disc are read from, or that the rip
\* fails before anything is read.
ripSource(cfg, readable, p, r) ==
    IF cfg.native \/ ~decryptNeeded(readable, p, r) THEN "drive"
    ELSE IF cfg.fallback /\ cfg.dvdbackup THEN "copy" ELSE "fails"

=============================================================================

----------------------------- MODULE BlockDevice -----------------------------
(***************************************************************************)
(* BLOCK_DEVICE, the device the ext4 file system works on.  The board the  *)
(* kernel is built for decides which driver stands behind it, for good.    *)
(***************************************************************************)
EXTENDS SdCard, VirtioBlk

VARIABLE board

bvars == <<board, sdvars, vvars>>

\* What the device of the other board would hold does not matter.
BInit ==
    /\ board \in {"qemu", "vf2"} /\ SdInit /\ VInit
    /\ board = "qemu" => card = [s \in Sectors |-> Words(CHOOSE v \in Values : TRUE)]
    /\ board = "vf2" => vdisk = [c \in Cells |-> CHOOSE v \in Cell : TRUE]

VirtioStep == board = "qemu" /\ VNext /\ UNCHANGED <<board, sdvars>>
Driver == board = "vf2" /\ DriverStep /\ UNCHANGED <<board, vvars>>
Timeout == board = "vf2" /\ DataTimeUp /\ UNCHANGED <<board, vvars>>
Card == board = "vf2" /\ ControllerStep /\ UNCHANGED <<board, vvars>>
CardUp == board = "vf2" /\ PowerUp /\ UNCHANGED <<board, vvars>>
User == board = "vf2" /\ SdCall /\ UNCHANGED <<board, vvars>>

BNext == VirtioStep \/ Driver \/ Card \/ User

\* The driver keeps polling, the clock its data waits read goes on, and the card
\* powers up in the end.  Nothing is asked of the controller.
BFairness == WF_bvars(Driver) /\ SF_bvars(Timeout) /\ WF_bvars(CardUp)

BSpec == BInit /\ [][BNext]_bvars /\ BFairness

-----------------------------------------------------------------------------
Ended == pc \in {"idle", "panic"}

\* Every read_offset and write_offset on the SD card returns or panics, even if
\* the controller stops answering at any point.  So does init_sdcard, unless an
\* answer was late: it can then take an old response for that of SdSendOpCond
\* and ask again for ever.
CallEnds ==
    board = "vf2" => ~Ended ~> (Ended \/ (late /\ call.op = "init"))

=============================================================================

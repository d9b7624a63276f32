----------------------------- MODULE MCChipset -----------------------------
(* The two halves of the console's chipset (RISCVConsoleChipset.cpp),         *)
(* model-checked one after the other: the initial state chooses the DMA       *)
(* channels or the interrupt registers with the firmware's handler, and the   *)
(* other half stands still.                                                   *)
EXTENDS Dma, FirmwareIsr

VARIABLE part
chipVars == <<part, dmaVars, isrVars>>

InDma(action) == part = "dma" /\ action /\ UNCHANGED <<part, isrVars>>
InInterrupts(action) == part = "interrupts" /\ action /\ UNCHANGED <<part, dmaVars>>

ChipInit == part \in {"dma", "interrupts"} /\ DmaInit /\ IsrInit /\ (part = "dma" => serial)
ChipNext == InDma(DmaNext) \/ InInterrupts(IsrNext)

(* The processor goes on, and in its every instruction the channels do.       *)
ChipSpec ==
    /\ ChipInit /\ [][ChipNext]_chipVars
    /\ WF_chipVars(InDma(IncrementDMA)) /\ WF_chipVars(InDma(OtherInstruction))
=============================================================================

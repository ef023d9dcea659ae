---------------------------- MODULE BlockDevice -----------------------------
(***************************************************************************)
(* What the update volume promises to FatFs and to the USB host: reads see *)
(* the last writes, and a power loss costs at most the block written last, *)
(* never a block that was left alone.  OtaSpiDisk implements it.           *)
(***************************************************************************)
CONSTANTS
  Block,   \* erase blocks
  Offset,  \* sectors of a block
  Value    \* sector contents

VARIABLES
  contents,  \* what the next reads return
  stable,    \* what would survive a power loss
  unsaved    \* blocks written since they were last saved

Image == [Block -> [Offset -> Value]]

Init ==
  /\ contents \in Image
  /\ stable = contents
  /\ unsaved = {}

\* One block at a time may be ahead of the flash.
Write(b) ==
  /\ unsaved \subseteq {b}
  /\ \E data \in [Offset -> Value] : contents' = [contents EXCEPT ![b] = data]
  /\ unsaved' \in {unsaved, {b}}
  /\ contents' # contents => unsaved' = {b}
  /\ UNCHANGED stable

Save(b) ==
  /\ unsaved = {b}
  /\ stable' = [stable EXCEPT ![b] = contents[b]]
  /\ unsaved' = {}
  /\ UNCHANGED contents

\* Saving b failed: the block is still readable, but not safe.
Damage(b) ==
  /\ unsaved = {b}
  /\ \E data \in [Offset -> Value] : stable' = [stable EXCEPT ![b] = data]
  /\ UNCHANGED <<contents, unsaved>>

PowerLoss ==
  /\ stable' \in Image
  /\ \A b \in Block \ unsaved : stable'[b] = stable[b]
  /\ contents' = stable'
  /\ unsaved' = {}

Next == PowerLoss \/ \E b \in Block : Write(b) \/ Save(b) \/ Damage(b)

Spec == Init /\ [][Next]_<<contents, stable, unsaved>>
=============================================================================

--------------------------- MODULE SampleMailbox ---------------------------
(***************************************************************************)
(* What the sampler device promises its reader: a one-place mailbox that   *)
(* keeps the newest sample, hands every sample out at most once, and       *)
(* never hands out the halves of two different samples.                    *)
(***************************************************************************)
CONSTANTS Samples, None

VARIABLES
    slot,    \* the sample waiting to be read, or None
    last     \* the (address, pc) pair the latest read returned

Init == slot = None /\ last = <<None, None>>

\* A fault leaves a sample.
Put(s) == slot = None /\ slot' = s /\ UNCHANGED last

\* The waiting sample is superseded by a newer one, or spent on a failed read.
Discard == slot # None /\ slot' = None /\ UNCHANGED last

\* A read returns the waiting sample.
Take == slot # None /\ last' = <<slot, slot>> /\ slot' = None

Next == Discard \/ Take \/ \E s \in Samples : Put(s)

Spec == Init /\ [][Next]_<<slot, last>>
=============================================================================

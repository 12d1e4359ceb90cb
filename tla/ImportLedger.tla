---------------------------- MODULE ImportLedger ----------------------------
(***************************************************************************)
(* What the import buffer promises about a document from Diadoc            *)
(* (docs/diadoc-integration.md, "Buffer workflow"): it is in work, put     *)
(* aside or imported; what is put aside may be taken up again; what is     *)
(* imported stays imported, with the one receipt made from it.             *)
(***************************************************************************)
CONSTANTS Docs, NoReceipt

VARIABLES phase,      \* "unknown", "open", "ignored" or "imported"
          receipt     \* the receipt made from a document

Init == phase = [d \in Docs |-> "unknown"] /\ receipt = [d \in Docs |-> NoReceipt]

Arrive(d) ==
    /\ phase[d] = "unknown"
    /\ phase' = [phase EXCEPT ![d] = "open"]
    /\ UNCHANGED receipt

PutAside(d) ==
    /\ phase[d] = "open"
    /\ phase' = [phase EXCEPT ![d] = "ignored"]
    /\ UNCHANGED receipt

\* One document, or all those from some day on.
TakeUp(chosen) ==
    /\ \A d \in chosen : phase[d] = "ignored"
    /\ phase' = [d \in Docs |-> IF d \in chosen THEN "open" ELSE phase[d]]
    /\ UNCHANGED receipt

Import(d) ==
    /\ phase[d] = "open"
    /\ phase' = [phase EXCEPT ![d] = "imported"]
    /\ receipt[d] = NoReceipt
    /\ receipt'[d] # NoReceipt
    /\ receipt' = [receipt EXCEPT ![d] = receipt'[d]]

Next == \/ \E d \in Docs : Arrive(d) \/ PutAside(d) \/ Import(d)
        \/ \E chosen \in SUBSET Docs : TakeUp(chosen)

Spec == Init /\ [][Next]_<<phase, receipt>>
=============================================================================

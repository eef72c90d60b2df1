----------------------------- MODULE MCAssistant -----------------------------
(* Instance of Assistant for TLC: the tabs are interchangeable.  A reply of *)
(* one call has text or none; one without calls has text, one of two none.  *)
EXTENDS Assistant, TLC

Symmetry == Permutations(Tabs)
MCTexts == <<BOOLEAN, {FALSE}>> @@ (0 :> {TRUE})

=============================================================================

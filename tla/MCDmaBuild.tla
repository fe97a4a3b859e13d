----------------------------- MODULE MCDmaBuild -----------------------------
(* Buffers of one to three segments, one of them empty, with bases that     *)
(* are apart, so that a descriptor across a boundary is seen.               *)
EXTENDS DmaBuild

MCLayouts ==
    { <<[base |-> 10, size |-> 6]>>,
      <<[base |-> 10, size |-> 3], [base |-> 40, size |-> 4]>>,
      <<[base |-> 40, size |-> 2], [base |-> 70, size |-> 0],
        [base |-> 10, size |-> 1], [base |-> 20, size |-> 5]>> }
=============================================================================

---------------------------- MODULE MCFieldElements ---------------------------
(***************************************************************************)
(* A variable for residues, two field elements, and one that is written    *)
(* and read: the three parts are checked apart from each other, in one run.*)
(***************************************************************************)
EXTENDS FieldSerialization, ResidueRegister

\* The edges of the ranges and of the words, and a few others.
MCOperands ==
  UNION {e - 2..e + 1 : e \in {M, 2 * M, Two256 - M, Two256 - 2}}
  \cup {0, 1, W - 1, W, W^2 - 1, W^3 - 1, W^3, (M_3 + 1) * W^3, 1234, 3333}
MCWide == {m * n : m \in MCOperands, n \in {2, W^2 - 1, M - 1, 2 * M, Two256 - 1}} \cup {Two256^2-1, Two256^2-Two256}

\* Both representations of 0, 1 and some small elements, the edges of the
\* range of the representations and of the words.
MCElements ==
  {0, 1, W^3, M - 1, M, M + 1, M + 500, Two256 - M - 1}
MCSmallIntegers == {-(W \div 2), -1, 0, 3, W - 1}
MCPowers == {0, 1, 6, 13}

\* No prefix, all prefixes of a bit, one of two bits and one of a whole byte.
MCBitHeaders ==
  {[length |-> 0, bits |-> 0], [length |-> 1, bits |-> 0], [length |-> 1, bits |-> 1],
   [length |-> 2, bits |-> 1], [length |-> 3, bits |-> 1]}
MCForeign == {M, Two256 - 1}
MCWritten == {M - 1, ConvertToMontgomeryRepresentation_c(M \div 4)}
MCTaken == {1, 4}

VARIABLE running   \* which of the three parts

ResiduesIdle == register = 0 /\ residue = 0 /\ quality = "f"
ElementsIdle == elem = 0 /\ arg = 0
StreamIdle == stream = <<>> /\ sent = <<>>

MCInit == \/ running = "residues" /\ ResiduesInit /\ ElementsIdle /\ StreamIdle
          \/ running = "elements" /\ ResiduesIdle /\ ElementsInit /\ StreamIdle
          \/ running = "serialization" /\ ResiduesIdle /\ SerializationInit
MCNext == /\ \/ running = "residues" /\ ResiduesNext /\ UNCHANGED serializationVars
             \/ running = "elements" /\ ElementsNext /\ UNCHANGED <<stream, sent, residueVars>>
             \/ running = "serialization" /\ SerializationNext /\ UNCHANGED residueVars
          /\ UNCHANGED running
MCSpec == MCInit /\ [][MCNext]_<<serializationVars, residueVars, running>>
=============================================================================

----------------------------- MODULE PieceState -----------------------------
(***************************************************************************)
(* One part of a download as the resume manifest describes it.  A part has *)
(* NumBlocks eMule blocks of Frag fragments; a block may end up partly     *)
(* written only at the end of the contiguous prefix.  Every part of the    *)
(* model is a full one.                                                    *)
(***************************************************************************)
EXTENDS Integers, FiniteSets

CONSTANTS
    NumParts,
    NumBlocks,      \* eMule blocks in a part
    Frag            \* fragments in a block, the unit of a prefix flush

PieceStateAssumption ==
    NumParts \in Nat \ {0} /\ NumBlocks \in Nat \ {0} /\ Frag \in Nat \ {0}

Parts == 0 .. NumParts - 1
Blocks == 0 .. NumBlocks - 1
PartLen == NumBlocks * Frag
Fragments == 0 .. PartLen - 1

(* Ed2kPieceState.  block_bitmap is {} for None: apply_block_bitmap never  *)
(* stores a bitmap that is a plain prefix.                                 *)
PieceType == [state : {"Missing", "Verified"}, bytes_written : 0 .. PartLen,
              block_bitmap : SUBSET Blocks, ich_corrupted : BOOLEAN]

Empty == [state |-> "Missing", bytes_written |-> 0, block_bitmap |-> {},
          ich_corrupted |-> FALSE]
VerifiedPiece == [state |-> "Verified", bytes_written |-> PartLen,
                  block_bitmap |-> {}, ich_corrupted |-> FALSE]

(* An MD4 mismatch gaps the part logically and keeps its bytes.            *)
Gapped(ich) == [Empty EXCEPT !.ich_corrupted = ich]

BlockOf(b) == b * Frag .. (b + 1) * Frag - 1
IsBlock(from, to) == from % Frag = 0 /\ to = from + Frag

(* resolve_block_bitmap(): without a bitmap, the whole blocks of the       *)
(* written prefix.                                                         *)
ResolveBlockBitmap(piece) ==
    IF piece.block_bitmap # {} THEN piece.block_bitmap
    ELSE {b \in Blocks : (b + 1) * Frag <= piece.bytes_written}

(* apply_block_bitmap(): a bitmap that is a plain prefix is dropped.       *)
ApplyBlockBitmap(piece, bitmap) ==
    LET prefix == {b \in bitmap : 0 .. b \subseteq bitmap}
    IN  [piece EXCEPT !.bytes_written = Frag * Cardinality(prefix),
                      !.block_bitmap = IF prefix = bitmap THEN {} ELSE bitmap]

=============================================================================

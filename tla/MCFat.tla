------------------------------- MODULE MCFat -------------------------------
(* Instances of Fat for TLC: a disk with a super block, one block of fat[] *)
(* and six or seven data blocks; mkfs uses three.                         *)
EXTENDS Fat

\* One file, whose data reach into a second block.
OneFile == <<2>>
=============================================================================
